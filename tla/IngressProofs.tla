--------------------------- MODULE IngressProofs ---------------------------
(***************************************************************************)
(* Theorems about Ingress.                                                 *)
(*                                                                         *)
(* A poll of a source that was removed goes on beside the poll of the one  *)
(* that replaced it, so two batches may walk over the same messages.  The  *)
(* record of a message keeps them apart: the batch that finds none writes  *)
(* "verified" in the same step, and only that batch has the message in     *)
(* hand until its record is "processed" or "failed".                       *)
(***************************************************************************)
EXTENDS Ingress, FiniteSetTheorems, TLAPS

SourceRecords == [cursor : Messages \cup {None}, timer : BOOLEAN, inFlight : BOOLEAN]
RunRecords == [pc : Points, next : Messages \cup {None, Len(Inbox) + 1},
               last : Messages \cup {None}, thread : Messages \cup {None}]

\* The points at which a batch waits with a message in hand; Routed: a text of a
\* verified user.
Routed == {"routing", "rendering", "rendercut", "creating", "sending", "marking"}
Routes(r, m) == r.pc \in Routed /\ r.next = m

\* Every message before m is accounted for, in tables st and li.
Covered(m, st, li) ==
    \A n \in Messages : n < m => st[n] # "none" \/ n \in li \/ Kind(n) = "empty"

\* What a poll knows: everything before its message is accounted for, and the
\* message it routes is recorded, its sender linked, its turn not queued before
\* the send.
Fits(r, st, li, co, se) ==
    /\ r.pc # "idle" => r.next # None /\ Covered(r.next, st, li)
    /\ r.pc \in Routed \cup {"confirming", "answered"} => r.next <= r.last
    /\ r.pc = "confirming" => st[r.next] # "none" /\ Kind(r.next) = "link"
    /\ r.pc \in Routed =>
          /\ Kind(r.next) = "text" /\ Sender(r.next) \in co
          /\ st[r.next] = "verified"
          /\ r.next \in se <=> r.pc = "marking"

RunsFit ==
    /\ \A o \in Sources : Fits(run[o], status, limited, consumer, sent)
    /\ \A o, q \in Sources : \A m \in Messages :
          Routes(run[o], m) /\ Routes(run[q], m) => o = q

\* A source in flight is being polled, and the one in the map only then; one that
\* was not made yet has done nothing.
SourcesFit ==
    /\ startup # "none" => made < MaxSources
    /\ \A o \in Sources :
          /\ src[o].inFlight => run[o].pc # "idle"
          /\ current = o /\ run[o].pc # "idle" => src[o].inFlight
          /\ o > made => run[o].pc = "idle"
    /\ SourceStaysScheduled

\* A cursor never passes a message that is not accounted for.
CursorsFit ==
    /\ Covered(cursor + 1, status, limited)
    /\ \A o \in Sources : Covered(src[o].cursor + 1, status, limited)

\* What the tables say of each other and of the turns.
TablesFit ==
    /\ \A u \in Users : binding[u] # "none" => u \in consumer
    /\ \A m \in sent : /\ Kind(m) = "text" /\ Sender(m) \in consumer
                       /\ status[m] \in {"verified", "processed"}
    /\ \A m \in Messages : status[m] = "processed" /\ Kind(m) # "link" => m \in sent

\* No message is left behind but by a crash.
NothingForgotten ==
    \A m \in Messages : status[m] = "verified" /\ m \notin lost
        => \E o \in Sources : Routes(run[o], m)

IngressInv ==
    TypeOK /\ RunsFit /\ SourcesFit /\ CursorsFit /\ TablesFit /\ NothingForgotten

\* One code, one user.
CodeFits == consumer = {} \/ (code = "consumed" /\ \E u \in Users : consumer = {u})

-----------------------------------------------------------------------------
(* Messages, runs and sources *)

\* Messages are numbers, and each has a sender and a kind.
LEMMA MessageNumbers ==
    /\ Len(Inbox) \in Nat /\ Messages = 1..Len(Inbox) /\ Messages \subseteq Nat
    /\ None \notin Messages
    /\ \A m \in Messages : Sender(m) \in Users /\ Kind(m) \in Kinds
  <1>1. Inbox \in Seq([user : Users, kind : Kinds])
    BY IngressAssumption
  <1>2. Len(Inbox) \in Nat /\ Messages = 1..Len(Inbox)
    BY <1>1 DEF Messages
  <1>3. \A m \in Messages : Inbox[m] \in [user : Users, kind : Kinds]
    <2>1. ASSUME NEW S, Inbox \in Seq(S) PROVE \A m \in 1..Len(Inbox) : Inbox[m] \in S
      BY <2>1
    <2> QED
      BY <1>1, <1>2, <2>1, Zenon
  <1>4. \A m \in Messages : Sender(m) \in Users /\ Kind(m) \in Kinds
    BY <1>3 DEF Sender, Kind
  <1> QED
    BY <1>2, <1>4 DEF None

\* Lemma: a place in the stream is a number.
LEMMA PlaceNumbers ==
    /\ \A m \in Messages \cup {None} :
          /\ m \in Nat /\ m <= Len(Inbox)
          /\ m + 1 \in Messages \cup {None, Len(Inbox) + 1} /\ m + 1 # None
    /\ \A m \in Messages \cup {None, Len(Inbox) + 1} : m \in Nat
    /\ \A m \in Messages \cup {None, Len(Inbox) + 1}, n \in Messages \cup {None} :
          m # None /\ m <= n => m \in Messages
  BY MessageNumbers DEF None

\* The source in the map, when there is one, was made.
LEMMA CurrentSource == TypeOK => \/ current = None
                                 \/ current \in Sources /\ current <= made /\ current # None
  <1>1. TypeOK => made \in 0..MaxSources /\ current \in 0..made
    BY DEF TypeOK
  <1> QED
    BY <1>1, FaultsAssumption DEF Sources, None

\* The types of the fields of a batch and of a source.
LEMMA RecordTypes ==
    /\ \A r \in RunRecords : /\ r.pc \in Points /\ r.next \in Messages \cup {None, Len(Inbox) + 1}
                             /\ r.last \in Messages \cup {None}
                             /\ r.thread \in Messages \cup {None}
    /\ \A s \in SourceRecords : /\ s.cursor \in Messages \cup {None}
                                /\ s.timer \in BOOLEAN /\ s.inFlight \in BOOLEAN
  BY Zenon DEF RunRecords, SourceRecords

\* The batches and the sources are functions of such records.
LEMMA StateTypes ==
    ASSUME TypeOK
    PROVE  run \in [Sources -> RunRecords] /\ src \in [Sources -> SourceRecords]
  BY Zenon DEF TypeOK, RunRecords, SourceRecords

\* Lemma: a poll goes to another point.
LEMMA RunAt ==
    ASSUME NEW r \in RunRecords, NEW pc \in Points, NEW x, x = [r EXCEPT !.pc = pc]
    PROVE  /\ x \in RunRecords /\ x.pc = pc
           /\ x.next = r.next /\ x.last = r.last /\ x.thread = r.thread
  BY Zenon DEF RunRecords

\* What starting on the next message changes in a batch.
LEMMA RunNext ==
    ASSUME NEW r \in RunRecords, r.next \in Messages,
           NEW x, x = [r EXCEPT !.pc = "message", !.next = r.next + 1, !.thread = None]
    PROVE  /\ x \in RunRecords /\ x.pc = "message" /\ x.next = r.next + 1 /\ x.last = r.last
  <1>1. r.next + 1 \in Messages \cup {None, Len(Inbox) + 1} /\ "message" \in Points
    BY PlaceNumbers DEF Points
  <1>2. PICK n \in Messages \cup {None, Len(Inbox) + 1} : n = r.next + 1
    BY <1>1
  <1>3. x = [r EXCEPT !.pc = "message", !.next = n, !.thread = None]
    BY <1>2, Zenon
  <1>4. x \in RunRecords /\ x.pc = "message" /\ x.next = n /\ x.last = r.last
    BY <1>1, <1>3, Zenon DEF RunRecords
  <1> QED
    BY <1>2, <1>4

\* The batch of a source at rest.
LEMMA IdleRun == Idle \in RunRecords /\ Idle.pc = "idle"
  BY Zenon DEF Idle, RunRecords, Points

\* Lemma: an idle poll relies on nothing.
LEMMA IdleFits == \A st, li, co, se : Fits(Idle, st, li, co, se)
  BY Zenon DEF Fits, Idle, Routed

\* Lemma: the points are what they are.
LEMMA PointFacts ==
    /\ Routed \cup {"idle", "polling", "pollcut", "answered", "message", "confirming"} = Points
    /\ {"idle", "polling", "pollcut", "answered", "message", "confirming"} \cap Routed = {}
  BY DEF Points, Routed

-----------------------------------------------------------------------------
(* Steps of one batch beside the others *)

\* Nothing that was accounted for, or linked, is forgotten.
Grows(st, li, co, st2, li2, co2) ==
    /\ \A m \in Messages : st[m] # "none" => st2[m] # "none"
    /\ li \subseteq li2 /\ co \subseteq co2

\* The message that r routes is left alone.
Spares(r, st, se, st2, se2) ==
    r.pc \in Routed => st2[r.next] = st[r.next] /\ (r.next \in se2 <=> r.next \in se)

\* Lemma: what is covered stays covered.
LEMMA CoverGrows ==
    ASSUME NEW st, NEW li, NEW co, NEW st2, NEW li2, NEW co2, Grows(st, li, co, st2, li2, co2),
           NEW m, Covered(m, st, li)
    PROVE  Covered(m, st2, li2)
  BY DEF Covered, Grows

\* Lemma: one message more is covered.
LEMMA CoverNext ==
    ASSUME NEW st, NEW li, NEW m \in Messages, Covered(m, st, li),
           st[m] # "none" \/ m \in li \/ Kind(m) = "empty"
    PROVE  Covered(m + 1, st, li)
  <1> SUFFICES ASSUME NEW n \in Messages, n < m + 1
               PROVE  st[n] # "none" \/ n \in li \/ Kind(n) = "empty"
    BY DEF Covered
  <1>1. n < m \/ n = m
    BY MessageNumbers
  <1> QED
    BY <1>1 DEF Covered

\* A batch fits the tables still when they only grew and spared its own message.
LEMMA FitsGrows ==
    ASSUME NEW r \in RunRecords, NEW st, NEW li, NEW co, NEW se, Fits(r, st, li, co, se),
           NEW st2, NEW li2, NEW co2, NEW se2, Grows(st, li, co, st2, li2, co2),
           Spares(r, st, se, st2, se2)
    PROVE  Fits(r, st2, li2, co2, se2)
  <1>1. r.pc \in Routed \cup {"confirming", "answered"} => r.next \in Messages
    BY RecordTypes, PlaceNumbers DEF Fits, Routed
  <1>2. r.pc # "idle" => r.next # None /\ Covered(r.next, st2, li2)
    BY CoverGrows DEF Fits
  <1> QED
    BY <1>1, <1>2 DEF Fits, Grows, Spares

\* Batch o goes on to x.  It may write records where there are none, and touches no
\* other message but m, which nobody else routes.
Touches(o, m, x) ==
    /\ x \in RunRecords /\ run' = [run EXCEPT ![o] = x]
    /\ run[o].pc \in Routed => run[o].next = m
    /\ \A n \in Messages : n # m =>
          /\ \/ status'[n] = status[n]
             \/ status[n] = "none" /\ status'[n] \notin {"none", "verified"}
          /\ n \in sent' <=> n \in sent
    /\ m \in Messages /\ status[m] # "none" => status'[m] # "none"
    /\ limited \subseteq limited' /\ consumer \subseteq consumer'
    /\ \/ Routes(run[o], m) \/ m \notin Messages \/ status[m] = "none"
       \/ status'[m] = status[m] /\ (m \in sent' <=> m \in sent) /\ x.pc \notin Routed
    /\ x.pc \in Routed => x.next = m
    /\ Fits(x, status', limited', consumer', sent')

\* What m becomes is not forgotten: if it is "verified" now, x routes it.
Remembers(o, m, x) ==
    m \in Messages /\ status'[m] = "verified" => Routes(x, m) \/ (status[m] = "verified" /\ ~Routes(run[o], m))

\* A step that touches the record of one message lets the tables grow.
LEMMA TouchGrows ==
    ASSUME NEW o \in Sources, NEW m, NEW x, Touches(o, m, x)
    PROVE  Grows(status, limited, consumer, status', limited', consumer')
  BY DEF Touches, Grows

\* Lemma: the other batches do not notice.
LEMMA TouchFits ==
    ASSUME IngressInv, NEW o \in Sources, NEW m, NEW x, Touches(o, m, x)
    PROVE  RunsFit' /\ run' \in [Sources -> RunRecords]
  <1>1. run \in [Sources -> RunRecords] /\ x \in RunRecords
        /\ run' = [run EXCEPT ![o] = x]
    BY StateTypes DEF IngressInv, Touches
  <1>2. ASSUME NEW q \in Sources, q # o
        PROVE  ~Routes(run[q], m) \/ (status'[m] = status[m] /\ (m \in sent' <=> m \in sent)
                                        /\ x.pc \notin Routed)
    <2>1. Routes(run[q], m) =>
             m \in Messages /\ status[m] = "verified" /\ ~Routes(run[o], m)
      <3>1. PICK r \in RunRecords : r = run[q]
        BY <1>1
      <3>2. Routes(r, m) => m \in Messages /\ status[m] = "verified"
        BY <3>1, RecordTypes, PlaceNumbers DEF IngressInv, RunsFit, Fits, Routes, Routed
      <3> QED
        BY <1>2, <3>1, <3>2 DEF IngressInv, RunsFit
    <2> QED
      BY <2>1 DEF Touches
  <1>3. ASSUME NEW q \in Sources
        PROVE  Fits(run'[q], status', limited', consumer', sent')
    <2>1. CASE q = o
      BY <1>1, <2>1 DEF Touches
    <2>2. CASE q # o
      <3>1. PICK r \in RunRecords : r = run[q] /\ run'[q] = r
        BY <1>1, <2>2
      <3>2. Fits(r, status, limited, consumer, sent)
        BY <3>1 DEF IngressInv, RunsFit
      <3>3. r.pc \in Routed => r.next \in Messages
        BY <3>2, RecordTypes, PlaceNumbers DEF Fits, Routed
      <3>4. Spares(r, status, sent, status', sent')
        <4>1. r.pc \in Routed => status[r.next] = "verified"
          BY <3>2 DEF Fits
        <4> QED
          BY <1>2, <2>2, <3>1, <3>3, <4>1 DEF Touches, Routes, Spares
      <3> QED
        BY <3>1, <3>2, <3>4, TouchGrows, FitsGrows
    <2> QED
      BY <2>1, <2>2
  <1>4. ASSUME NEW p \in Sources, NEW q \in Sources, NEW n \in Messages,
               Routes(run'[p], n), Routes(run'[q], n)
        PROVE  p = q
    <2>1. ASSUME NEW q2 \in Sources, q2 # o, Routes(run[q2], n) PROVE ~Routes(x, n)
      BY <1>2, <2>1 DEF Touches, Routes
    <2> QED
      BY <1>1, <1>4, <2>1 DEF IngressInv, RunsFit
  <1> QED
    BY <1>1, <1>3, <1>4 DEF RunsFit

\* A step that touches one record forgets no message.
LEMMA TouchRemembers ==
    ASSUME IngressInv, NEW o \in Sources, NEW m, NEW x, Touches(o, m, x),
           Remembers(o, m, x), lost' = lost
    PROVE  NothingForgotten'
  <1>1. run \in [Sources -> RunRecords] /\ run' = [run EXCEPT ![o] = x]
    BY StateTypes DEF IngressInv, Touches
  <1> SUFFICES ASSUME NEW n \in Messages, status'[n] = "verified", n \notin lost
               PROVE  \E q \in Sources : Routes(run'[q], n)
    BY DEF NothingForgotten
  <1>2. CASE n = m /\ Routes(x, m)
    BY <1>1, <1>2
  <1>3. CASE ~(n = m /\ Routes(x, m))
    <2>1. status[n] = "verified" /\ (n = m => ~Routes(run[o], n))
      BY <1>3 DEF Touches, Remembers
    <2>2. PICK q \in Sources : Routes(run[q], n)
      BY <2>1 DEF IngressInv, NothingForgotten
    <2>3. CASE q # o
      BY <1>1, <2>2, <2>3
    <2>4. CASE q = o
      <3>1. n # m /\ run[o].pc \in Routed /\ run[o].next = n
        BY <2>1, <2>2, <2>4 DEF Routes
      <3> QED
        BY <3>1 DEF Touches
    <2> QED
      BY <2>3, <2>4
  <1> QED
    BY <1>2, <1>3

\* The scheduler is where it was.
SchedulerStays == UNCHANGED <<src, current, made, startup, cursor>>

\* Lemma: between its messages a poll does not concern the scheduler.
LEMMA TouchSources ==
    ASSUME IngressInv, NEW o \in Sources, NEW m, NEW x, Touches(o, m, x),
           run[o].pc # "idle", x.pc # "idle", SchedulerStays
    PROVE  SourcesFit' /\ CursorsFit'
  <1>1. run \in [Sources -> RunRecords] /\ run' = [run EXCEPT ![o] = x]
    BY StateTypes DEF IngressInv, Touches
  <1>2. \A q \in Sources : run'[q].pc = "idle" <=> run[q].pc = "idle"
    BY <1>1
  <1>3. current # None => current \in Sources
    BY CurrentSource DEF IngressInv
  <1>4. SourcesFit'
    BY <1>2, <1>3 DEF SchedulerStays, IngressInv, SourcesFit, SourceStaysScheduled
  <1>5. CursorsFit'
    BY TouchGrows, CoverGrows DEF SchedulerStays, IngressInv, CursorsFit
  <1> QED
    BY <1>4, <1>5

\* Lemma: the end of a poll sets the timer of its source.
LEMMA EndSources ==
    ASSUME IngressInv, NEW o \in Sources, NEW c \in Messages \cup {None}, EndPoll(o, c),
           UNCHANGED <<status, limited, consumer, current, made, startup>>,
           Covered(c + 1, status, limited), cursor' = cursor \/ cursor' = c
    PROVE  SourcesFit' /\ CursorsFit' /\ src' \in [Sources -> SourceRecords]
  <1>1. PICK s : s = [cursor |-> c, timer |-> TRUE, inFlight |-> FALSE]
    OBVIOUS
  <1>2. s \in SourceRecords /\ s.cursor = c /\ s.timer = TRUE /\ s.inFlight = FALSE
    BY <1>1, Zenon DEF SourceRecords
  <1>3. /\ src \in [Sources -> SourceRecords] /\ src' = [src EXCEPT ![o] = s]
        /\ run \in [Sources -> RunRecords] /\ run' = [run EXCEPT ![o] = Idle]
    BY <1>1, StateTypes, Zenon DEF EndPoll, IngressInv
  <1>4. src' \in [Sources -> SourceRecords]
    BY <1>2, <1>3
  <1>5. SourcesFit'
    <2>1. current # None => current \in Sources
      BY CurrentSource DEF IngressInv
    <2>2. \A q \in Sources : q # o => src'[q] = src[q] /\ run'[q] = run[q]
      BY <1>3
    <2>3. src'[o] = s /\ run'[o] = Idle
      BY <1>3
    <2> QED
      BY <1>2, <2>1, <2>2, <2>3, IdleRun DEF IngressInv, SourcesFit, SourceStaysScheduled
  <1>6. CursorsFit'
    BY <1>2, <1>3 DEF IngressInv, CursorsFit
  <1> QED
    BY <1>4, <1>5, <1>6

\* Lemma: the tables change for one message.
LEMMA TouchTables ==
    ASSUME IngressInv, NEW m \in Messages,
           \A n \in Messages : n # m => status'[n] = status[n] /\ (n \in sent' <=> n \in sent),
           sent' \subseteq Messages, consumer \subseteq consumer',
           \A u \in Users : binding'[u] # "none" => u \in consumer',
           m \in sent' => /\ Kind(m) = "text" /\ Sender(m) \in consumer'
                          /\ status'[m] \in {"verified", "processed"},
           status'[m] = "processed" /\ Kind(m) # "link" => m \in sent'
    PROVE  TablesFit'
  BY DEF IngressInv, TablesFit

\* The tables fit still when none of what they relate has changed.
LEMMA TablesStay ==
    ASSUME IngressInv, UNCHANGED <<status, sent, consumer, binding>>
    PROVE  TablesFit'
  BY DEF IngressInv, TablesFit

-----------------------------------------------------------------------------
(* The steps of a batch *)

SessionTypes ==
    /\ ready \in BOOLEAN /\ held \in BOOLEAN
    /\ startup \in {"none", "live", "dead"}
    /\ made \in 0..MaxSources /\ current \in 0..made

RoutingTypes ==
    /\ window \in [Users -> Messages \cup {None}]
    /\ context \in [Messages -> Messages \cup {None}]
    /\ turn \in [Messages -> Messages \cup {None}]
    /\ sent \subseteq Messages /\ deleted \subseteq Messages

FaultTypes == crashes \in 0..MaxCrashes /\ lost \subseteq Messages

Types ==
    /\ StoreTypeOK /\ SessionTypes /\ RoutingTypes /\ FaultTypes
    /\ src \in [Sources -> SourceRecords] /\ run \in [Sources -> RunRecords]

\* The type invariant is its named parts.
LEMMA TypeParts == (TypeOK <=> Types) /\ (TypeOK' <=> Types')
  BY Zenon DEF TypeOK, Types, SessionTypes, RoutingTypes, FaultTypes, SourceRecords, RunRecords

\* Lemma: a poll that is with one message, and goes on with it or to the next one.
LEMMA BatchKeeps ==
    ASSUME IngressInv, NEW o \in Sources, NEW m, NEW x, Touches(o, m, x), Remembers(o, m, x),
           run[o].pc # "idle", x.pc # "idle",
           UNCHANGED <<cursor, sessionVars, schedulerVars, faultVars>>,
           StoreTypeOK', RoutingTypes', TablesFit'
    PROVE  IngressInv'
  <1>1. SchedulerStays /\ lost' = lost /\ UNCHANGED <<ready, held, startup, made, current, src, crashes>>
    BY DEF SchedulerStays, sessionVars, schedulerVars, faultVars
  <1>2. RunsFit' /\ run' \in [Sources -> RunRecords]
    BY TouchFits
  <1>3. TypeOK'
    <2>1. Types
      BY TypeParts DEF IngressInv
    <2>2. SessionTypes' /\ FaultTypes' /\ src' \in [Sources -> SourceRecords]
      BY <1>1, <2>1 DEF Types, SessionTypes, FaultTypes, faultVars
    <2> QED
      BY <1>2, <2>2, TypeParts DEF Types
  <1>4. NothingForgotten'
    BY <1>1, TouchRemembers
  <1>5. SourcesFit' /\ CursorsFit'
    BY <1>1, TouchSources
  <1> QED
    BY <1>2, <1>3, <1>4, <1>5 DEF IngressInv

\* Lemma: the next message.
LEMMA Advance ==
    ASSUME IngressInv, NEW o \in Sources, NEW m \in Messages, run[o].next = m,
           run[o].pc # "idle", NextMessage(o),
           Grows(status, limited, consumer, status', limited', consumer'),
           status'[m] # "none" \/ m \in limited'
    PROVE  \E x \in RunRecords : /\ run' = [run EXCEPT ![o] = x] /\ x.pc = "message"
                                 /\ Fits(x, status', limited', consumer', sent')
  <1>1. PICK r \in RunRecords : r = run[o]
    BY StateTypes DEF IngressInv
  <1>2. PICK x : x = [r EXCEPT !.pc = "message", !.next = r.next + 1, !.thread = None]
    OBVIOUS
  <1>3. x \in RunRecords /\ x.pc = "message" /\ x.next = m + 1
    BY <1>1, <1>2, RunNext
  <1>4. run' = [run EXCEPT ![o] = x]
    BY <1>1, <1>2, Zenon DEF NextMessage, InHand
  <1>5. Covered(m, status, limited)
    BY DEF IngressInv, RunsFit, Fits
  <1>6. Covered(m + 1, status', limited')
    BY <1>5, CoverGrows, CoverNext
  <1>7. m + 1 # None
    BY PlaceNumbers
  <1> QED
    BY <1>3, <1>4, <1>6, <1>7, PointFacts DEF Fits

\* Lemma: an INSERT keeps what it conflicts with.
LEMMA PersistFacts ==
    ASSUME StoreTypeOK, NEW m \in Messages,
           NEW s \in {"unverified", "verified", "processed", "failed"}, status' = Persist(m, s)
    PROVE  /\ status' \in [Messages -> {"none", "unverified", "verified", "processed", "failed"}]
           /\ \A n \in Messages : n # m => status'[n] = status[n]
           /\ status'[m] # "none"
           /\ status[m] = "none" => status'[m] = s
           /\ status[m] # "none" => status'[m] = status[m]
  BY DEF StoreTypeOK, Persist

\* Lemma: the record of a message that is being routed is written.
LEMMA MarkFacts ==
    ASSUME StoreTypeOK, NEW m \in Messages,
           NEW s \in {"unverified", "verified", "processed", "failed"},
           status' = [status EXCEPT ![m] = s]
    PROVE  /\ status' \in [Messages -> {"none", "unverified", "verified", "processed", "failed"}]
           /\ \A n \in Messages : n # m => status'[n] = status[n]
           /\ status'[m] = s
  BY DEF StoreTypeOK

\* Lemma: what a poll with a message at hand knows.
LEMMA HandFacts ==
    ASSUME IngressInv, NEW o \in Sources
    PROVE  /\ run[o] \in RunRecords /\ Fits(run[o], status, limited, consumer, sent)
           /\ run[o].pc \in Routed \cup {"confirming", "answered"} => run[o].next \in Messages
           /\ run[o].pc = "message" /\ run[o].next <= run[o].last => run[o].next \in Messages
  <1>1. PICK r \in RunRecords : r = run[o]
    BY StateTypes DEF IngressInv
  <1>2. Fits(r, status, limited, consumer, sent)
    BY <1>1 DEF IngressInv, RunsFit
  <1>3. r.pc \in Routed \cup {"confirming", "answered"} \/ (r.pc = "message" /\ r.next <= r.last)
            => r.next \in Messages
    BY <1>2, RecordTypes, PlaceNumbers DEF Fits, Routed
  <1> QED
    BY <1>1, <1>2, <1>3

\* A failed route keeps the invariant.
LEMMA RouteFailsKeeps ==
    ASSUME IngressInv, NEW o \in Sources, run[o].pc \in Routed \ {"marking"}, RouteFails(o),
           UNCHANGED <<limited, linkVars, cursor, sessionVars, schedulerVars, turn, sent, deleted,
                       faultVars>>,
           window' \in [Users -> Messages \cup {None}]
    PROVE  IngressInv'
  <1>1. PICK m \in Messages : m = run[o].next
    BY HandFacts
  <1>2. /\ Kind(m) = "text" /\ Sender(m) \in consumer /\ status[m] = "verified" /\ m \notin sent
        /\ run[o].pc # "idle" /\ run[o].thread \in Messages \cup {None}
    BY <1>1, HandFacts, PointFacts, RecordTypes DEF Fits
  <1>3. status' = [status EXCEPT ![m] = "failed"] /\ NextMessage(o)
    BY <1>1, Zenon DEF RouteFails, InHand
  <1>4. /\ status' \in [Messages -> {"none", "unverified", "verified", "processed", "failed"}]
        /\ \A n \in Messages : n # m => status'[n] = status[n]
        /\ status'[m] = "failed"
    BY <1>3, MarkFacts DEF IngressInv, TypeOK
  <1>5. limited' = limited /\ binding' = binding /\ consumer' = consumer /\ code' = code
    BY DEF linkVars
  <1>6. Grows(status, limited, consumer, status', limited', consumer')
    BY <1>4, <1>5 DEF Grows
  <1>7. PICK x \in RunRecords : /\ run' = [run EXCEPT ![o] = x] /\ x.pc = "message"
                                /\ Fits(x, status', limited', consumer', sent')
    BY <1>1, <1>2, <1>3, <1>4, <1>6, Advance
  <1>8. Touches(o, m, x) /\ Remembers(o, m, x)
    BY <1>1, <1>4, <1>5, <1>7, PointFacts DEF Touches, Remembers, Routes
  <1>9. TablesFit'
    BY <1>2, <1>4, <1>5, TouchTables DEF IngressInv, TablesFit, TypeOK
  <1>10. context' \in [Messages -> Messages \cup {None}]
    BY <1>2 DEF RouteFails, IngressInv, TypeOK
  <1>11. StoreTypeOK' /\ RoutingTypes'
    BY <1>4, <1>5, <1>10 DEF IngressInv, TypeOK, StoreTypeOK, RoutingTypes
  <1> QED
    BY <1>2, <1>7, <1>8, <1>9, <1>11, BatchKeeps

\* Lemma: a message gets a record, or the marker of the limit, and the poll goes on.
LEMMA RecordAndAdvance ==
    ASSUME IngressInv, NEW o \in Sources, NEW m \in Messages, run[o].next = m,
           run[o].pc = "message" \/ run[o].pc = "confirming", NextMessage(o),
           StoreTypeOK', \A n \in Messages : n # m => status'[n] = status[n],
           status[m] # "none" => status'[m] = status[m],
           status[m] = "none" => status'[m] \in {"none", "unverified", "failed"},
           limited \subseteq limited', status'[m] # "none" \/ m \in limited',
           UNCHANGED <<linkVars, cursor, sessionVars, schedulerVars, window, context,
                       threadVars, faultVars>>
    PROVE  IngressInv'
  <1>1. UNCHANGED <<binding, consumer, sent, turn, deleted, window, context, cursor>>
    BY DEF linkVars, threadVars
  <1>2. Grows(status, limited, consumer, status', limited', consumer')
    BY <1>1 DEF Grows
  <1>3. PICK x \in RunRecords : /\ run' = [run EXCEPT ![o] = x] /\ x.pc = "message"
                                /\ Fits(x, status', limited', consumer', sent')
    BY <1>2, Advance
  <1>4. run[o].pc \notin Routed /\ x.pc \notin Routed
    BY <1>3, PointFacts
  <1>5. Touches(o, m, x) /\ Remembers(o, m, x)
    BY <1>1, <1>2, <1>3, <1>4 DEF Touches, Remembers, Routes, Grows
  <1>6. \A n \in Messages : n \in sent => status'[n] = status[n]
    BY DEF IngressInv, TablesFit
  <1>7. TablesFit'
    <2>1. \A n \in Messages : status'[n] = status[n] \/ status'[n] # "processed"
      OBVIOUS
    <2> QED
      BY <1>1, <1>6, <2>1 DEF IngressInv, TablesFit, TypeOK
  <1>8. RoutingTypes'
    BY <1>1 DEF IngressInv, TypeOK, RoutingTypes
  <1> QED
    BY <1>1, <1>3, <1>5, <1>7, <1>8, BatchKeeps

\* Lemma: a poll ends with nothing in hand.
LEMMA EndKeeps ==
    ASSUME IngressInv, NEW o \in Sources, NEW c \in Messages \cup {None}, EndPoll(o, c),
           run[o].pc \notin Routed, Covered(c + 1, status, limited),
           cursor' = cursor \/ cursor' = c,
           UNCHANGED <<status, limited, linkVars, sessionVars, current, window, context,
                       threadVars, faultVars>>
    PROVE  IngressInv'
  <1>1. UNCHANGED <<binding, code, consumer, sent, turn, deleted, window, context,
                    ready, held, startup, made, current, crashes, lost>>
    BY DEF linkVars, sessionVars, threadVars, faultVars
  <1>2. SourcesFit' /\ CursorsFit' /\ src' \in [Sources -> SourceRecords]
    BY <1>1, EndSources
  <1>3. Touches(o, None, Idle)
    BY <1>1, IdleRun, IdleFits, PointFacts DEF Touches, EndPoll
  <1>4. Remembers(o, None, Idle)
    BY <1>1 DEF Remembers, Routes
  <1>5. RunsFit' /\ run' \in [Sources -> RunRecords] /\ NothingForgotten'
    BY <1>1, <1>3, <1>4, TouchFits, TouchRemembers
  <1>6. TablesFit'
    BY <1>1, TablesStay
  <1>7. TypeOK'
    <2>1. Types
      BY TypeParts DEF IngressInv
    <2>2. SessionTypes' /\ FaultTypes' /\ RoutingTypes'
      BY <1>1, <2>1 DEF Types, SessionTypes, FaultTypes, RoutingTypes
    <2>3. StoreTypeOK'
      BY <1>1, <2>1 DEF Types, StoreTypeOK, None
    <2> QED
      BY <1>2, <1>5, <2>2, <2>3, TypeParts DEF Types
  <1> QED
    BY <1>2, <1>5, <1>6, <1>7 DEF IngressInv

\* Lemma: a source object's cursor covers what it passed.
LEMMA SourceFacts ==
    ASSUME IngressInv, NEW o \in Sources
    PROVE  /\ src[o] \in SourceRecords /\ src[o].cursor \in Messages \cup {None}
           /\ Covered(src[o].cursor + 1, status, limited)
  BY StateTypes, RecordTypes DEF IngressInv, CursorsFit

\* The look at the record of a message keeps the invariant.
LEMMA ProcessKeeps ==
    ASSUME IngressInv, NEW o \in Sources, ProcessMessage(o)
    PROVE  IngressInv'
  <1>1. /\ run[o].pc = "message" /\ run[o].next <= run[o].last
        /\ UNCHANGED <<cursor, sessionVars, current, window, context, threadVars, faultVars>>
    BY Zenon DEF ProcessMessage
  <1>2. PICK m \in Messages : m = run[o].next
    BY <1>1, HandFacts
  <1>3. PICK r \in RunRecords : r = run[o]
    BY HandFacts
  <1>4. StoreTypeOK /\ run[o].pc \notin Routed /\ Fits(r, status, limited, consumer, sent)
    BY <1>1, <1>3, PointFacts, HandFacts DEF IngressInv, TypeOK
  <1>5. CASE SkipMessage(o)
    <2>1. /\ status[m] # "none" /\ NextMessage(o)
          /\ UNCHANGED <<status, limited, linkVars, src>>
      BY <1>2, <1>5, Zenon DEF SkipMessage, InHand
    <2>2. StoreTypeOK'
      BY <1>1, <1>4, <2>1 DEF StoreTypeOK, linkVars
    <2> QED
      BY <1>1, <1>2, <2>1, <2>2, RecordAndAdvance DEF schedulerVars
  <1>6. CASE UnverifiedMessage(o)
    <2>1. /\ status[m] = "none" /\ PersistUnverified(m) /\ NextMessage(o)
          /\ UNCHANGED <<linkVars, src>>
      BY <1>2, <1>6, Zenon DEF UnverifiedMessage, InHand
    <2>2. CASE status' = Persist(m, "unverified") /\ UNCHANGED limited
      <3>1. StoreTypeOK' /\ status'[m] = "unverified"
            /\ \A n \in Messages : n # m => status'[n] = status[n]
        BY <1>1, <1>4, <2>1, <2>2, PersistFacts DEF StoreTypeOK, linkVars
      <3> QED
        BY <1>1, <1>2, <2>1, <2>2, <3>1, RecordAndAdvance DEF schedulerVars
    <2>3. CASE limited' = limited \cup {m} /\ UNCHANGED status
      <3>1. StoreTypeOK'
        BY <1>1, <1>4, <2>1, <2>3 DEF StoreTypeOK, linkVars
      <3> QED
        BY <1>1, <1>2, <2>1, <2>3, <3>1, RecordAndAdvance DEF schedulerVars
    <2> QED
      BY <2>1, <2>2, <2>3, Zenon DEF PersistUnverified
  <1>7. CASE LinkMessage(o) /\ UNCHANGED linkVars
    <2>1. /\ status[m] = "none" /\ status' = Persist(m, "failed") /\ NextMessage(o)
          /\ UNCHANGED <<linkVars, limited, src>>
      <3>1. ~Consume(Sender(m)) \/ ~UNCHANGED linkVars
        BY DEF Consume, linkVars
      <3> QED
        BY <1>2, <1>7, <3>1, Zenon DEF LinkMessage, InHand
    <2>2. StoreTypeOK' /\ status'[m] = "failed"
          /\ \A n \in Messages : n # m => status'[n] = status[n]
      BY <1>1, <1>4, <2>1, PersistFacts DEF StoreTypeOK, linkVars
    <2> QED
      BY <1>1, <1>2, <2>1, <2>2, RecordAndAdvance DEF schedulerVars
  <1>8. CASE LinkMessage(o) /\ ~UNCHANGED linkVars
    <2>1. /\ status[m] = "none" /\ Kind(m) = "link" /\ Consume(Sender(m))
          /\ status' = Persist(m, "processed") /\ At(o, "confirming")
          /\ UNCHANGED <<limited, src>>
      BY <1>2, <1>8, Zenon DEF LinkMessage, InHand
    <2>2. /\ code' = "consumed" /\ consumer' = consumer \cup {Sender(m)}
          /\ binding' = [binding EXCEPT ![Sender(m)] = "enabled"]
          /\ UNCHANGED <<sent, turn, deleted, window, context, cursor>>
      BY <1>1, <2>1, Zenon DEF Consume, threadVars
    <2>3. status'[m] = "processed" /\ \A n \in Messages : n # m => status'[n] = status[n]
      BY <1>4, <2>1, PersistFacts
    <2>4. StoreTypeOK'
      <3>1. status' \in [Messages -> {"none", "unverified", "verified", "processed", "failed"}]
        BY <1>4, <2>1, PersistFacts
      <3> QED
        BY <1>4, <2>1, <2>2, <3>1, MessageNumbers DEF StoreTypeOK
    <2>5. PICK x : x = [r EXCEPT !.pc = "confirming"]
      OBVIOUS
    <2>6. x \in RunRecords /\ x.pc = "confirming" /\ x.next = m /\ x.last = r.last
      BY <1>2, <1>3, <2>5, RunAt, PointFacts
    <2>7. run' = [run EXCEPT ![o] = x]
      BY <1>3, <2>1, <2>5, Zenon DEF At
    <2>8. Grows(status, limited, consumer, status', limited', consumer')
      BY <2>1, <2>2, <2>3 DEF Grows
    <2>9. Fits(x, status', limited', consumer', sent')
      <3>1. Covered(m, status', limited') /\ m # None
        BY <1>1, <1>2, <1>3, <1>4, <2>8, CoverGrows, MessageNumbers DEF Fits
      <3> QED
        BY <1>1, <1>2, <1>3, <2>1, <2>3, <2>6, <3>1, PointFacts DEF Fits
    <2>10. Touches(o, m, x) /\ Remembers(o, m, x)
      BY <1>4, <2>1, <2>2, <2>3, <2>6, <2>7, <2>8, <2>9, PointFacts
         DEF Touches, Remembers, Routes, Grows
    <2>11. m \notin sent /\ sent \subseteq Messages
      BY <2>1 DEF IngressInv, TablesFit, TypeOK
    <2>12. \A u \in Users : binding'[u] # "none" => u \in consumer'
      BY <1>4, <2>2 DEF IngressInv, TablesFit, StoreTypeOK
    <2>13. TablesFit'
      BY <2>1, <2>2, <2>3, <2>11, <2>12, TouchTables
    <2>14. RoutingTypes'
      BY <2>2 DEF IngressInv, TypeOK, RoutingTypes
    <2> QED
      BY <1>1, <2>1, <2>4, <2>6, <2>10, <2>13, <2>14, BatchKeeps DEF schedulerVars
  <1>9. CASE VerifiedMessage(o)
    <2>1. /\ status[m] = "none" /\ Kind(m) = "text" /\ binding[Sender(m)] = "enabled"
          /\ status' = Persist(m, "verified") /\ At(o, "routing")
          /\ UNCHANGED <<limited, linkVars, src>>
      BY <1>2, <1>9, Zenon DEF VerifiedMessage, InHand
    <2>2. UNCHANGED <<binding, code, consumer, sent, turn, deleted, window, context, cursor>>
      BY <1>1, <2>1 DEF linkVars, threadVars
    <2>3. status'[m] = "verified" /\ \A n \in Messages : n # m => status'[n] = status[n]
      BY <1>4, <2>1, PersistFacts
    <2>4. StoreTypeOK'
      <3>1. status' \in [Messages -> {"none", "unverified", "verified", "processed", "failed"}]
        BY <1>4, <2>1, PersistFacts
      <3> QED
        BY <1>4, <2>1, <2>2, <3>1 DEF StoreTypeOK
    <2>5. PICK x : x = [r EXCEPT !.pc = "routing"]
      OBVIOUS
    <2>6. x \in RunRecords /\ x.pc = "routing" /\ x.next = m /\ x.last = r.last
      BY <1>2, <1>3, <2>5, RunAt DEF Points
    <2>7. run' = [run EXCEPT ![o] = x]
      BY <1>3, <2>1, <2>5, Zenon DEF At
    <2>8. Grows(status, limited, consumer, status', limited', consumer')
      BY <2>1, <2>2, <2>3 DEF Grows
    <2>9. Sender(m) \in consumer /\ m \notin sent /\ sent \subseteq Messages
      BY <2>1, MessageNumbers DEF IngressInv, TablesFit, TypeOK
    <2>10. Fits(x, status', limited', consumer', sent')
      <3>1. Covered(m, status', limited') /\ m # None
        BY <1>1, <1>2, <1>3, <1>4, <2>8, CoverGrows, MessageNumbers DEF Fits
      <3> QED
        BY <1>1, <1>2, <1>3, <2>1, <2>2, <2>3, <2>6, <2>9, <3>1 DEF Fits
    <2>11. Touches(o, m, x) /\ Remembers(o, m, x)
      BY <1>4, <2>1, <2>2, <2>3, <2>6, <2>7, <2>8, <2>10
         DEF Touches, Remembers, Routes, Grows, Routed
    <2>12. TablesFit'
      BY <2>1, <2>2, <2>3, <2>9, TouchTables DEF IngressInv, TablesFit
    <2>13. RoutingTypes'
      BY <2>2 DEF IngressInv, TypeOK, RoutingTypes
    <2> QED
      BY <1>1, <2>1, <2>4, <2>6, <2>11, <2>12, <2>13, BatchKeeps DEF schedulerVars
  <1>10. CASE RefusedMessage(o)
    <2>1. EndPoll(o, src[o].cursor) /\ UNCHANGED <<status, limited, linkVars>>
      BY <1>10, Zenon DEF RefusedMessage
    <2> QED
      BY <1>1, <1>4, <2>1, SourceFacts, EndKeeps
  <1> QED
    BY <1>5, <1>6, <1>7, <1>8, <1>9, <1>10, Zenon DEF ProcessMessage

\* Lemma: routing goes on, and no record is touched.
LEMMA RoutingKeeps ==
    ASSUME IngressInv, NEW o \in Sources, run[o].pc \in Routed \ {"marking"},
           NEW x \in RunRecords, run' = [run EXCEPT ![o] = x],
           x.pc \in Routed \ {"marking"}, x.next = run[o].next, x.last = run[o].last,
           UNCHANGED <<storeVars, sessionVars, schedulerVars, threadVars, faultVars>>,
           window' \in [Users -> Messages \cup {None}],
           context' \in [Messages -> Messages \cup {None}]
    PROVE  IngressInv'
  <1>1. UNCHANGED <<status, limited, binding, code, consumer, cursor, turn, sent, deleted>>
    BY DEF storeVars, threadVars
  <1>2. PICK m \in Messages : m = run[o].next
    BY HandFacts
  <1>3. run[o].pc # "idle" /\ x.pc # "idle"
    BY PointFacts
  <1>4. Fits(x, status', limited', consumer', sent')
    BY <1>1, <1>3, HandFacts, PointFacts DEF Fits
  <1>5. Touches(o, m, x) /\ Remembers(o, m, x)
    BY <1>1, <1>2, <1>4 DEF Touches, Remembers, Routes
  <1>6. TablesFit' /\ StoreTypeOK' /\ RoutingTypes'
    BY <1>1 DEF IngressInv, TypeOK, TablesFit, StoreTypeOK, RoutingTypes
  <1> QED
    BY <1>1, <1>3, <1>5, <1>6, BatchKeeps

\* Lemma: ... at another point.
LEMMA RouteAt ==
    ASSUME IngressInv, NEW o \in Sources, run[o].pc \in Routed \ {"marking"},
           NEW pc \in Routed \ {"marking"}, At(o, pc),
           UNCHANGED <<storeVars, sessionVars, schedulerVars, window, context, threadVars,
                       faultVars>>
    PROVE  IngressInv'
  <1>1. PICK r \in RunRecords : r = run[o]
    BY HandFacts
  <1>2. PICK x : x = [r EXCEPT !.pc = pc]
    OBVIOUS
  <1>3. pc \in Points
    BY PointFacts
  <1>4. x \in RunRecords /\ x.pc = pc /\ x.next = r.next /\ x.last = r.last
    BY <1>2, <1>3, RunAt
  <1>5. run' = [run EXCEPT ![o] = x]
    BY <1>1, <1>2, Zenon DEF At
  <1>6. window' \in [Users -> Messages \cup {None}] /\ context' \in [Messages -> Messages \cup {None}]
    BY DEF IngressInv, TypeOK
  <1> QED
    BY <1>1, <1>4, <1>5, <1>6, RoutingKeeps

\* Lemma: ... in a thread, with the reply context set for the message.
LEMMA RouteInThread ==
    ASSUME IngressInv, NEW o \in Sources, run[o].pc \in Routed \ {"marking"},
           NEW t \in Messages, InThread(o, t),
           UNCHANGED <<storeVars, sessionVars, schedulerVars, threadVars, faultVars>>,
           window' \in [Users -> Messages \cup {None}]
    PROVE  IngressInv'
  <1>1. PICK r \in RunRecords : r = run[o]
    BY HandFacts
  <1>2. PICK m \in Messages : m = run[o].next
    BY HandFacts
  <1>3. PICK x : x = [r EXCEPT !.pc = "sending", !.thread = t]
    OBVIOUS
  <1>4. x \in RunRecords /\ x.pc = "sending" /\ x.next = r.next /\ x.last = r.last
    <2>1. "sending" \in Points /\ t \in Messages \cup {None}
      BY DEF Points
    <2> QED
      BY <1>1, <1>3, <2>1, Zenon DEF RunRecords
  <1>5. run' = [run EXCEPT ![o].pc = "sending", ![o].thread = t]
        /\ context' = IF ready THEN [context EXCEPT ![t] = m] ELSE context
    BY <1>2, Zenon DEF InThread, ContextOf, InHand
  <1>6. run \in [Sources -> RunRecords] /\ context \in [Messages -> Messages \cup {None}]
    BY StateTypes DEF IngressInv, TypeOK
  <1>7. run' = [run EXCEPT ![o] = x]
    BY <1>1, <1>3, <1>5, <1>6, Zenon DEF RunRecords
  <1>8. context' \in [Messages -> Messages \cup {None}]
    BY <1>5, <1>6
  <1>9. x.pc \in Routed \ {"marking"}
    BY <1>4 DEF Routed
  <1> QED
    BY <1>1, <1>4, <1>7, <1>8, <1>9, RoutingKeeps

\* Routing to a known or a new thread keeps the invariant.
LEMMA RouteKeeps ==
    ASSUME IngressInv, NEW o \in Sources,
           RouteKnown(o) \/ PromptRendered(o) \/ PromptFails(o) \/ ThreadCreated(o)
    PROVE  IngressInv'
  <1>1. window \in [Users -> Messages \cup {None}]
    BY DEF IngressInv, TypeOK
  <1>2. {"routing", "rendering", "rendercut", "creating", "sending"} = Routed \ {"marking"}
    BY DEF Routed
  <1>3. CASE RouteKnown(o)
    <2>1. /\ run[o].pc = "routing"
          /\ UNCHANGED <<limited, linkVars, cursor, sessionVars, schedulerVars, window,
                         threadVars, faultVars>>
      BY <1>3, Zenon DEF RouteKnown
    <2>2. CASE RouteFails(o)
      BY <1>1, <1>2, <2>1, <2>2, RouteFailsKeeps DEF threadVars
    <2>3. CASE ~RouteFails(o)
      <3>1. /\ UNCHANGED <<status, context>>
            /\ At(o, "rendering") \/ At(o, "rendercut")
        BY <1>3, <2>3, Zenon DEF RouteKnown
      <3>2. UNCHANGED storeVars
        BY <2>1, <3>1 DEF storeVars, linkVars
      <3> QED
        BY <1>2, <2>1, <3>1, <3>2, RouteAt
    <2> QED
      BY <2>2, <2>3
  <1>4. CASE PromptRendered(o)
    <2>1. /\ run[o].pc = "rendering"
          /\ UNCHANGED <<storeVars, sessionVars, schedulerVars, window, threadVars, faultVars>>
      BY <1>4, Zenon DEF PromptRendered
    <2>2. PICK m \in Messages : m = run[o].next
      BY <1>2, <2>1, HandFacts
    <2>3. CASE window[Sender(m)] # None
      <3>1. PICK t \in Messages : t = window[Sender(m)]
        BY <1>1, <2>3, MessageNumbers
      <3>2. InThread(o, t)
        BY <1>4, <2>2, <2>3, <3>1, Zenon DEF PromptRendered, InHand
      <3> QED
        BY <1>1, <1>2, <2>1, <3>2, RouteInThread
    <2>4. CASE ~(window[Sender(m)] # None)
      <3>1. At(o, "creating") /\ UNCHANGED context
        BY <1>4, <2>2, <2>4, Zenon DEF PromptRendered, InHand
      <3> QED
        BY <1>2, <2>1, <3>1, RouteAt
    <2> QED
      BY <2>3, <2>4
  <1>5. CASE PromptFails(o)
    <2>1. /\ run[o].pc \in {"rendercut", "rendering"} /\ RouteFails(o)
          /\ UNCHANGED <<limited, linkVars, cursor, sessionVars, schedulerVars, window,
                         threadVars, faultVars>>
      BY <1>5 DEF PromptFails
    <2> QED
      BY <1>1, <1>2, <2>1, RouteFailsKeeps DEF threadVars
  <1>6. CASE ThreadCreated(o)
    <2>1. /\ run[o].pc = "creating"
          /\ UNCHANGED <<limited, linkVars, cursor, sessionVars, schedulerVars, threadVars,
                         faultVars>>
      BY <1>6, Zenon DEF ThreadCreated
    <2>2. PICK m \in Messages : m = run[o].next
      BY <1>2, <2>1, HandFacts
    <2>3. CASE RouteFails(o) /\ UNCHANGED window
      BY <1>1, <1>2, <2>1, <2>3, RouteFailsKeeps DEF threadVars
    <2>4. CASE ~(RouteFails(o) /\ UNCHANGED window)
      <3>1. /\ window' = [window EXCEPT ![Sender(m)] = m]
            /\ InThread(o, m)
            /\ UNCHANGED status
        BY <1>6, <2>2, <2>4, Zenon DEF ThreadCreated, InHand
      <3>2. window' \in [Users -> Messages \cup {None}] /\ UNCHANGED storeVars
        BY <1>1, <2>1, <3>1 DEF storeVars, linkVars
      <3> QED
        BY <1>2, <2>1, <3>1, <3>2, RouteInThread
    <2> QED
      BY <2>3, <2>4
  <1> QED
    BY <1>3, <1>4, <1>5, <1>6

\* Queueing the turn and marking its message keep the invariant.
LEMMA SendKeeps ==
    ASSUME IngressInv, NEW o \in Sources, SendMessage(o) \/ MarkProcessed(o)
    PROVE  IngressInv'
  <1>1. run[o].pc = "sending" \/ run[o].pc = "marking"
    BY Zenon DEF SendMessage, MarkProcessed
  <1>2. PICK m \in Messages : m = run[o].next
    BY <1>1, HandFacts DEF Routed
  <1>3. PICK r \in RunRecords : r = run[o]
    BY HandFacts
  <1>4. /\ r.pc \in Routed /\ r.pc # "idle" /\ r.next = m
        /\ Kind(m) = "text" /\ Sender(m) \in consumer /\ status[m] = "verified"
        /\ m \in sent <=> r.pc = "marking"
    BY <1>1, <1>2, <1>3, HandFacts DEF Fits, Routed
  <1>5. /\ context \in [Messages -> Messages \cup {None}]
        /\ turn \in [Messages -> Messages \cup {None}]
        /\ window \in [Users -> Messages \cup {None}] /\ sent \subseteq Messages /\ StoreTypeOK
    BY DEF IngressInv, TypeOK
  <1>6. CASE SendMessage(o) /\ RouteFails(o)
    <2>1. run[o].pc = "sending"
          /\ UNCHANGED <<limited, linkVars, cursor, sessionVars, schedulerVars, window,
                         deleted, faultVars>>
      BY <1>6, Zenon DEF SendMessage
    <2>2. UNCHANGED <<turn, sent>>
      <3>1. RouteFails(o) => status'[m] = "failed"
        BY <1>2, <1>5, Zenon DEF RouteFails, InHand, StoreTypeOK
      <3>2. ~UNCHANGED status
        BY <1>4, <1>6, <3>1
      <3> QED
        BY <1>6, <3>2, Zenon DEF SendMessage
    <2> QED
      BY <1>5, <1>6, <2>1, <2>2, RouteFailsKeeps DEF Routed
  <1>7. CASE SendMessage(o) /\ ~RouteFails(o)
    <2>1. /\ run[o].pc = "sending"
          /\ turn' = [turn EXCEPT ![run[o].thread] = m]
          /\ sent' = sent \cup {m} /\ At(o, "marking")
          /\ UNCHANGED <<status, context, limited, linkVars, cursor, sessionVars, schedulerVars,
                         window, deleted, faultVars>>
      BY <1>2, <1>7, Zenon DEF SendMessage, InHand
    <2>2. UNCHANGED <<binding, code, consumer>>
      BY <2>1 DEF linkVars
    <2>3. PICK x : x = [r EXCEPT !.pc = "marking"]
      OBVIOUS
    <2>4. x \in RunRecords /\ x.pc = "marking" /\ x.next = m /\ x.last = r.last
      BY <1>4, <2>3, RunAt DEF Points
    <2>5. run' = [run EXCEPT ![o] = x]
      BY <1>3, <2>1, <2>3, Zenon DEF At
    <2>6. Fits(x, status', limited', consumer', sent')
      <3>1. Fits(r, status, limited, consumer, sent) /\ m # None
        BY <1>3, HandFacts, MessageNumbers
      <3> QED
        BY <1>4, <2>1, <2>2, <2>4, <3>1 DEF Fits
    <2>7. Touches(o, m, x) /\ Remembers(o, m, x)
      BY <1>3, <1>4, <2>1, <2>2, <2>4, <2>5, <2>6 DEF Touches, Remembers, Routes, Routed
    <2>8. TablesFit'
      BY <1>4, <1>5, <2>1, <2>2, TouchTables DEF IngressInv, TablesFit
    <2>9. RoutingTypes'
      BY <1>5, <2>1 DEF IngressInv, TypeOK, RoutingTypes
    <2>10. StoreTypeOK'
      BY <1>5, <2>1, <2>2 DEF StoreTypeOK
    <2> QED
      BY <1>3, <1>4, <2>1, <2>4, <2>7, <2>8, <2>9, <2>10, BatchKeeps DEF Routed
  <1>8. CASE MarkProcessed(o)
    <2>1. /\ run[o].pc = "marking" /\ status' = [status EXCEPT ![m] = "processed"]
          /\ context' = IF ready THEN [context EXCEPT ![run[o].thread] = m] ELSE context
          /\ NextMessage(o)
          /\ UNCHANGED <<limited, linkVars, cursor, sessionVars, schedulerVars, window,
                         threadVars, faultVars>>
      BY <1>2, <1>8, Zenon DEF MarkProcessed, InHand, ContextOf
    <2>2. UNCHANGED <<binding, code, consumer, turn, sent, deleted>>
      BY <2>1 DEF linkVars, threadVars
    <2>3. /\ status' \in [Messages -> {"none", "unverified", "verified", "processed", "failed"}]
          /\ \A n \in Messages : n # m => status'[n] = status[n]
          /\ status'[m] = "processed"
      BY <1>5, <2>1, MarkFacts
    <2>4. Grows(status, limited, consumer, status', limited', consumer')
      BY <2>1, <2>2, <2>3 DEF Grows
    <2>5. PICK x \in RunRecords : /\ run' = [run EXCEPT ![o] = x] /\ x.pc = "message"
                                  /\ Fits(x, status', limited', consumer', sent')
      BY <1>2, <1>3, <1>4, <2>1, <2>3, <2>4, Advance
    <2>6. Touches(o, m, x) /\ Remembers(o, m, x)
      BY <1>3, <1>4, <2>1, <2>2, <2>3, <2>5, PointFacts DEF Touches, Remembers, Routes
    <2>7. TablesFit'
      BY <1>3, <1>4, <1>5, <2>1, <2>2, <2>3, TouchTables DEF IngressInv, TablesFit
    <2>8. context' \in [Messages -> Messages \cup {None}]
      BY <1>5, <2>1
    <2>9. StoreTypeOK' /\ RoutingTypes'
      BY <1>5, <2>1, <2>2, <2>3, <2>8 DEF IngressInv, TypeOK, StoreTypeOK, RoutingTypes
    <2> QED
      BY <1>3, <1>4, <2>1, <2>5, <2>6, <2>7, <2>9, BatchKeeps
  <1> QED
    BY <1>6, <1>7, <1>8

\* Lemma: the records of a batch whose session is gone.
LEMMA ResolveKeeps ==
    ASSUME IngressInv, NEW o \in Sources, ResolveSource(o)
    PROVE  IngressInv'
  <1>1. /\ run[o].pc = "answered"
        /\ UNCHANGED <<limited, linkVars, cursor, sessionVars, schedulerVars, window,
                       context, threadVars, faultVars>>
    BY Zenon DEF ResolveSource
  <1>2. UNCHANGED <<binding, code, consumer, turn, sent, deleted>>
    BY <1>1 DEF linkVars, threadVars
  <1>3. PICK r \in RunRecords : r = run[o]
    BY HandFacts
  <1>4. /\ Fits(r, status, limited, consumer, sent) /\ r.next # None /\ r.next <= r.last
        /\ r.last \in Messages \cup {None} /\ r.next \in Nat
        /\ r.pc = "answered" /\ "answered" \notin Routed
    BY <1>1, <1>3, HandFacts, RecordTypes, PlaceNumbers, PointFacts DEF Fits
  <1>5. StoreTypeOK
    BY DEF IngressInv, TypeOK
  <1>6. RoutingTypes'
    BY <1>1, <1>2 DEF IngressInv, TypeOK, RoutingTypes
  <1>7. CASE ready
    <2>1. At(o, "message") /\ UNCHANGED status
      BY <1>7, Zenon DEF ResolveSource
    <2>2. PICK x : x = [r EXCEPT !.pc = "message"]
      OBVIOUS
    <2>3. x \in RunRecords /\ x.pc = "message" /\ x.next = r.next /\ x.last = r.last
      BY <2>2, RunAt, PointFacts
    <2>4. run' = [run EXCEPT ![o] = x]
      BY <1>3, <2>1, <2>2, Zenon DEF At
    <2>5. Fits(x, status', limited', consumer', sent')
      BY <1>1, <1>2, <1>4, <2>1, <2>3, PointFacts DEF Fits
    <2>6. Touches(o, None, x) /\ Remembers(o, None, x)
      BY <1>1, <1>2, <1>3, <1>4, <2>1, <2>3, <2>4, <2>5, PointFacts DEF Touches, Remembers, Routes
    <2>7. TablesFit' /\ StoreTypeOK'
      BY <1>1, <1>2, <1>5, <2>1, TablesStay DEF StoreTypeOK
    <2> QED
      BY <1>1, <1>3, <1>4, <1>6, <2>3, <2>6, <2>7, BatchKeeps
  <1>8. CASE ~ready
    <2>1. /\ status' = [m \in Messages |->
                             IF m \in r.next..r.last /\ Kind(m) # "empty"
                             THEN Persist(m, "failed")[m] ELSE status[m]]
          /\ run' = [run EXCEPT ![o].pc = "message", ![o].next = r.last + 1]
      BY <1>3, <1>8, Zenon DEF ResolveSource
    <2>2. PICK x : x = [r EXCEPT !.pc = "message", !.next = r.last + 1]
      OBVIOUS
    <2>3. r.last + 1 \in Messages \cup {None, Len(Inbox) + 1} /\ r.last + 1 # None
          /\ "message" \in Points
      BY <1>4, PlaceNumbers, PointFacts
    <2>4. x \in RunRecords /\ x.pc = "message" /\ x.next = r.last + 1 /\ x.last = r.last
      <3>1. PICK n \in Messages \cup {None, Len(Inbox) + 1} : n = r.last + 1
        BY <2>3
      <3>2. x = [r EXCEPT !.pc = "message", !.next = n]
        BY <2>2, <3>1, Zenon
      <3> QED
        BY <1>3, <2>3, <3>1, <3>2, Zenon DEF RunRecords
    <2>5. run \in [Sources -> RunRecords]
      BY StateTypes DEF IngressInv
    <2>6. run' = [run EXCEPT ![o] = x]
      BY <1>3, <2>1, <2>2, <2>5, Zenon DEF RunRecords
    <2>7. \A m \in Messages : Persist(m, "failed")[m] = IF status[m] = "none" THEN "failed"
                                                        ELSE status[m]
      BY <1>5 DEF StoreTypeOK, Persist
    <2>8. \A m \in Messages :
             status'[m] = IF m \in r.next..r.last /\ Kind(m) # "empty" /\ status[m] = "none"
                          THEN "failed" ELSE status[m]
      BY <2>1, <2>7
    <2>9. StoreTypeOK'
      <3>1. status' = [m \in Messages |-> status'[m]]
        BY <2>1
      <3>2. status' \in [Messages -> {"none", "unverified", "verified", "processed", "failed"}]
        BY <1>5, <2>8, <3>1 DEF StoreTypeOK
      <3> QED
        BY <1>1, <1>2, <1>5, <3>2 DEF StoreTypeOK
    <2>10. Grows(status, limited, consumer, status', limited', consumer')
      BY <1>1, <1>2, <2>8 DEF Grows
    <2>11. Covered(r.last + 1, status', limited')
      <3> SUFFICES ASSUME NEW n \in Messages, n < r.last + 1
                   PROVE  status'[n] # "none" \/ n \in limited' \/ Kind(n) = "empty"
        BY DEF Covered
      <3>1. n \in Nat /\ r.last \in Nat
        BY <1>4, PlaceNumbers, MessageNumbers
      <3>2. CASE n < r.next
        <4>1. Covered(r.next, status', limited')
          BY <1>4, <2>10, CoverGrows DEF Fits
        <4> QED
          BY <3>2, <4>1 DEF Covered
      <3>3. CASE ~(n < r.next)
        <4>1. n \in r.next..r.last
          BY <1>4, <3>1, <3>3
        <4> QED
          BY <2>8, <4>1
      <3> QED
        BY <3>2, <3>3
    <2>12. Fits(x, status', limited', consumer', sent')
      BY <2>3, <2>4, <2>11, PointFacts DEF Fits
    <2>13. \A n \in Messages : \/ status'[n] = status[n]
                               \/ status[n] = "none" /\ status'[n] = "failed"
      BY <2>8
    <2>14. Touches(o, None, x) /\ Remembers(o, None, x)
      <3>1. None \notin Messages
        BY MessageNumbers
      <3> QED
        BY <1>1, <1>2, <1>3, <1>4, <2>4, <2>6, <2>12, <2>13, <3>1, PointFacts
           DEF Touches, Remembers, Routes
    <2>15. TablesFit'
      BY <1>2, <2>13 DEF IngressInv, TablesFit, TypeOK
    <2> QED
      BY <1>1, <1>3, <1>4, <1>6, <2>4, <2>9, <2>14, <2>15, BatchKeeps
  <1> QED
    BY <1>7, <1>8

\* A step of a batch keeps the invariant.
LEMMA BatchStepKeeps ==
    ASSUME IngressInv, NEW o \in Sources, BatchStep(o)
    PROVE  IngressInv'
  <1>1. PICK r \in RunRecords : r = run[o]
    BY HandFacts
  <1>2. Fits(r, status, limited, consumer, sent) /\ r.last \in Messages \cup {None}
        /\ r.next \in Messages \cup {None, Len(Inbox) + 1} /\ StoreTypeOK
    BY <1>1, HandFacts, RecordTypes DEF IngressInv, TypeOK
  <1>3. CASE EndBatch(o)
    <2>1. /\ r.pc = "message" /\ r.next > r.last /\ cursor' = r.last /\ EndPoll(o, r.last)
          /\ UNCHANGED <<status, limited, linkVars, sessionVars, current, window, context,
                         threadVars, faultVars>>
      BY <1>1, <1>3, Zenon DEF EndBatch
    <2>2. r.pc \notin Routed /\ Covered(r.next, status, limited)
      BY <1>2, <2>1, PointFacts DEF Fits
    <2>3. Covered(r.last + 1, status, limited)
      <3>1. r.last \in Nat /\ r.next \in Nat /\ Messages \subseteq Nat
        BY <1>2, PlaceNumbers, MessageNumbers
      <3>2. \A n \in Messages : n < r.last + 1 => n < r.next
        BY <2>1, <3>1
      <3> QED
        BY <2>2, <3>2 DEF Covered
    <2> QED
      BY <1>1, <1>2, <2>1, <2>2, <2>3, EndKeeps
  <1>4. CASE LinkConfirmed(o)
    <2>1. /\ run[o].pc = "confirming" /\ NextMessage(o)
          /\ UNCHANGED <<storeVars, sessionVars, schedulerVars, window, context, threadVars,
                         faultVars>>
      BY <1>4, Zenon DEF LinkConfirmed
    <2>2. UNCHANGED <<status, limited, linkVars, cursor, binding, code, consumer>>
      BY <2>1 DEF storeVars, linkVars
    <2>3. PICK m \in Messages : m = run[o].next
      BY <2>1, HandFacts
    <2>4. status[m] # "none"
      BY <1>1, <1>2, <2>1, <2>3 DEF Fits
    <2>5. StoreTypeOK'
      BY <1>2, <2>2 DEF StoreTypeOK
    <2> QED
      BY <2>1, <2>2, <2>3, <2>4, <2>5, RecordAndAdvance
  <1> QED
    BY <1>3, <1>4, ResolveKeeps, ProcessKeeps, RouteKeeps, SendKeeps DEF BatchStep

-----------------------------------------------------------------------------
(* Polls and sessions *)

\* Lemma: a poll ends as it began.
LEMMA PollFailsKeeps ==
    ASSUME IngressInv, NEW o \in Sources, PollFails(o)
    PROVE  IngressInv'
  <1>1. /\ run[o].pc = "polling" \/ run[o].pc = "pollcut"
        /\ EndPoll(o, src[o].cursor)
        /\ UNCHANGED <<storeVars, sessionVars, current, window, context, threadVars, faultVars>>
    BY Zenon DEF PollFails
  <1>2. run[o].pc \notin Routed
    BY <1>1, PointFacts
  <1>3. UNCHANGED <<status, limited, linkVars, cursor>>
    BY <1>1 DEF storeVars, linkVars
  <1> QED
    BY <1>1, <1>2, <1>3, SourceFacts, EndKeeps

\* The answer of a poll, which hands over a batch, keeps the invariant.
LEMMA PollAnswersKeeps ==
    ASSUME IngressInv, NEW o \in Sources, PollAnswers(o)
    PROVE  IngressInv'
  <1>1. PICK r \in RunRecords : r = run[o]
    BY HandFacts
  <1>2. PICK k \in Messages :
           k >= r.next /\ run' = [run EXCEPT ![o].pc = "answered", ![o].last = k]
    BY <1>1, Zenon DEF PollAnswers
  <1>3. /\ r.pc = "polling"
        /\ UNCHANGED <<storeVars, sessionVars, schedulerVars, window, context, threadVars,
                       faultVars>>
    BY <1>1, Zenon DEF PollAnswers
  <1>4. UNCHANGED <<status, limited, binding, code, consumer, cursor, turn, sent, deleted>>
    BY <1>3 DEF storeVars, threadVars
  <1>5. PICK x : x = [r EXCEPT !.pc = "answered", !.last = k]
    OBVIOUS
  <1>6. x \in RunRecords /\ x.pc = "answered" /\ x.next = r.next /\ x.last = k
    <2>1. "answered" \in Points /\ k \in Messages \cup {None}
      BY PointFacts
    <2> QED
      BY <1>1, <1>5, <2>1, Zenon DEF RunRecords
  <1>7. run \in [Sources -> RunRecords]
    BY StateTypes DEF IngressInv
  <1>8. run' = [run EXCEPT ![o] = x]
    BY <1>1, <1>2, <1>5, <1>7, Zenon DEF RunRecords
  <1>9. Fits(r, status, limited, consumer, sent) /\ r.next \in Nat /\ k \in Nat
    BY <1>1, HandFacts, RecordTypes, PlaceNumbers, MessageNumbers
  <1>10. Fits(x, status', limited', consumer', sent')
    BY <1>2, <1>3, <1>4, <1>6, <1>9, PointFacts DEF Fits
  <1>11. Touches(o, None, x) /\ Remembers(o, None, x)
    BY <1>1, <1>3, <1>4, <1>6, <1>8, <1>10, PointFacts, MessageNumbers
       DEF Touches, Remembers, Routes
  <1>12. TablesFit' /\ StoreTypeOK' /\ RoutingTypes'
    BY <1>3, <1>4 DEF IngressInv, TypeOK, TablesFit, StoreTypeOK, RoutingTypes
  <1> QED
    BY <1>1, <1>3, <1>4, <1>6, <1>11, <1>12, BatchKeeps

\* Polls stay where they are, or lose their sidecar.
KeepsPlace(r, x) ==
    /\ x.next = r.next /\ x.last = r.last
    /\ \/ x.pc = r.pc
       \/ r.pc = "polling" /\ x.pc = "pollcut"
       \/ r.pc = "rendering" /\ x.pc = "rendercut"

\* Lemma: ... and know what they knew.
LEMMA PlacesKept ==
    ASSUME IngressInv, run' \in [Sources -> RunRecords],
           \A o \in Sources : KeepsPlace(run[o], run'[o]),
           UNCHANGED <<status, limited, consumer, sent, lost>>
    PROVE  RunsFit' /\ NothingForgotten' /\ \A o \in Sources : run'[o].pc = "idle" <=> run[o].pc = "idle"
  <1>1. \A o \in Sources : \A m : Routes(run[o], m) <=> Routes(run'[o], m)
    BY DEF KeepsPlace, Routes, Routed
  <1>2. NothingForgotten'
    BY <1>1 DEF IngressInv, NothingForgotten
  <1>3. ASSUME NEW o \in Sources
        PROVE  Fits(run'[o], status', limited', consumer', sent')
    <2>1. PICK r \in RunRecords : r = run[o]
      BY HandFacts
    <2>2. Fits(r, status, limited, consumer, sent) /\ KeepsPlace(r, run'[o])
      BY <2>1, HandFacts
    <2> QED
      BY <2>2 DEF Fits, KeepsPlace, Routed
  <1>4. RunsFit'
    BY <1>1, <1>3 DEF IngressInv, RunsFit
  <1>5. \A o \in Sources : run'[o].pc = "idle" <=> run[o].pc = "idle"
    BY DEF KeepsPlace
  <1> QED
    BY <1>2, <1>4, <1>5

\* A run that is interrupted keeps its place in the stream.
LEMMA InterruptedKeepsPlace ==
    \A r \in RunRecords : Interrupted(r) \in RunRecords /\ KeepsPlace(r, Interrupted(r))
  <1> SUFFICES ASSUME NEW r \in RunRecords
               PROVE  Interrupted(r) \in RunRecords /\ KeepsPlace(r, Interrupted(r))
    OBVIOUS
  <1>1. PICK x : x = Interrupted(r)
    OBVIOUS
  <1>2. CASE r.pc = "polling"
    <2>1. x = [r EXCEPT !.pc = "pollcut"]
      BY <1>1, <1>2, Zenon DEF Interrupted
    <2>2. "pollcut" \in Points
      BY DEF Points
    <2>3. x \in RunRecords /\ x.pc = "pollcut" /\ x.next = r.next /\ x.last = r.last
      BY <2>1, <2>2, Zenon DEF RunRecords
    <2> QED
      BY <1>1, <1>2, <2>3 DEF KeepsPlace
  <1>3. CASE r.pc = "rendering"
    <2>1. x = [r EXCEPT !.pc = "rendercut"]
      BY <1>1, <1>3 DEF Interrupted
    <2>2. "rendercut" \in Points
      BY DEF Points
    <2>3. x \in RunRecords /\ x.pc = "rendercut" /\ x.next = r.next /\ x.last = r.last
      BY <2>1, <2>2, Zenon DEF RunRecords
    <2> QED
      BY <1>1, <1>3, <2>3 DEF KeepsPlace
  <1>4. CASE r.pc # "polling" /\ r.pc # "rendering"
    <2>1. x = r
      BY <1>1, <1>4, Zenon DEF Interrupted
    <2> QED
      BY <1>1, <2>1 DEF KeepsPlace
  <1> QED
    BY <1>2, <1>3, <1>4

\* Lemma: a registration sets the timer of the source in the map, or makes a new one.
LEMMA UpsertFacts ==
    ASSUME IngressInv, made < MaxSources, NEW cur \in {None, current},
           NEW f \in [Sources -> SourceRecords], Upsert(cur, f)
    PROVE  /\ src' \in [Sources -> SourceRecords] /\ current' \in Sources /\ current' # None
           /\ src'[current'].timer = TRUE
           /\ src'[current'].cursor \in {cursor, f[current'].cursor}
           /\ \A o \in Sources : o # current' => src'[o] = f[o]
           /\ cur # None => /\ current' = current /\ made' = made
                            /\ src'[current'].inFlight = f[current'].inFlight
           /\ cur = None => /\ current' = made + 1 /\ made' = made + 1
                            /\ src'[current'].inFlight = FALSE
  <1>1. cursor \in Messages \cup {None} /\ made \in Nat
    BY DEF IngressInv, TypeOK, StoreTypeOK, None
  <1>2. CASE cur # None
    <2>1. cur \in Sources /\ current' = current /\ cur = current /\ made' = made
      BY <1>2, CurrentSource, Zenon DEF Upsert, IngressInv
    <2>2. PICK c \in Messages \cup {None} : c = IF cursor = None THEN f[cur].cursor ELSE cursor
      <3>1. f[cur].cursor \in Messages \cup {None}
        BY <2>1, RecordTypes
      <3> QED
        BY <1>1, <3>1
    <2>3. src' = [f EXCEPT ![cur].cursor = c, ![cur].timer = TRUE]
      BY <1>2, <2>2, Zenon DEF Upsert
    <2>4. PICK s : s = [f[cur] EXCEPT !.cursor = c, !.timer = TRUE]
      OBVIOUS
    <2>5. f[cur] \in SourceRecords
      BY <2>1
    <2>6. s \in SourceRecords /\ s.cursor = c /\ s.timer = TRUE /\ s.inFlight = f[cur].inFlight
      BY <2>4, <2>5, Zenon DEF SourceRecords
    <2>7. src' = [f EXCEPT ![cur] = s]
      BY <2>1, <2>3, <2>4, Zenon DEF SourceRecords
    <2> QED
      BY <1>2, <2>1, <2>2, <2>6, <2>7
  <1>3. CASE cur = None
    <2>1. made + 1 \in Sources /\ made + 1 # None
      BY <1>1, FaultsAssumption DEF Sources, None
    <2>2. current' = made + 1 /\ made' = made + 1
          /\ src' = [f EXCEPT ![made + 1] = [NewSource EXCEPT !.cursor = cursor, !.timer = TRUE]]
      BY <1>3 DEF Upsert
    <2>3. PICK s : s = [NewSource EXCEPT !.cursor = cursor, !.timer = TRUE]
      OBVIOUS
    <2>4. s \in SourceRecords /\ s.cursor = cursor /\ s.timer = TRUE /\ s.inFlight = FALSE
      BY <1>1, <2>3, Zenon DEF NewSource, SourceRecords
    <2>5. src' = [f EXCEPT ![made + 1] = s]
      BY <2>2, <2>3, Zenon
    <2> QED
      BY <1>3, <2>1, <2>2, <2>4, <2>5
  <1> QED
    BY <1>2, <1>3

\* Lemma: ... and whichever it is, it will be polled.
LEMMA RegisterKeeps ==
    ASSUME IngressInv, made < MaxSources, NEW cur \in {None, current},
           NEW f \in [Sources -> SourceRecords], Upsert(cur, f),
           \A o \in Sources : f[o].inFlight => src[o].inFlight,
           cur # None => f = src,
           startup' = "none", ready' \in BOOLEAN, held' \in BOOLEAN,
           \A o \in Sources : run'[o].pc = "idle" <=> run[o].pc = "idle"
    PROVE  SourcesFit' /\ SessionTypes'
  <1>1. made \in Nat /\ MaxSources \in Nat /\ made \in 0..MaxSources /\ current \in 0..made
    BY FaultsAssumption DEF IngressInv, TypeOK
  <1>2. PICK new \in Sources : new = current'
    BY UpsertFacts
  <1>3. /\ new # None /\ src'[new].timer = TRUE
        /\ \A o \in Sources : o # new => src'[o] = f[o]
        /\ cur # None => /\ new = current /\ made' = made
                         /\ src'[new].inFlight = f[new].inFlight
        /\ cur = None => /\ new = made + 1 /\ made' = made + 1
                         /\ src'[new].inFlight = FALSE
    BY <1>2, UpsertFacts
  <1>4. SessionTypes'
    BY <1>1, <1>2, <1>3 DEF SessionTypes, None
  <1>5. SourcesFit
    BY DEF IngressInv
  <1>6. ASSUME NEW o \in Sources
        PROVE  /\ src'[o].inFlight => run'[o].pc # "idle"
               /\ current' = o /\ run'[o].pc # "idle" => src'[o].inFlight
               /\ o > made' => run'[o].pc = "idle"
    <2>1. CASE o # new
      <3>1. o > made' => o > made
        BY <1>1, <1>3 DEF Sources
      <3> QED
        BY <1>2, <1>3, <1>5, <2>1, <3>1 DEF SourcesFit
    <2>2. CASE o = new /\ cur # None
      BY <1>2, <1>3, <1>5, <2>2 DEF SourcesFit
    <2>3. CASE o = new /\ cur = None
      <3>1. o > made /\ ~(o > made')
        BY <1>1, <1>3, <2>3
      <3> QED
        BY <1>2, <1>3, <1>5, <2>3, <3>1 DEF SourcesFit
    <2> QED
      BY <2>1, <2>2, <2>3
  <1> QED
    BY <1>2, <1>3, <1>4, <1>6 DEF SourcesFit, SourceStaysScheduled

\* Lemma: a source that is taken out of the map is not in flight.
LEMMA CancelFacts ==
    ASSUME IngressInv, current # None
    PROVE  /\ Cancelled(current) \in [Sources -> SourceRecords]
           /\ \A o \in Sources : /\ Cancelled(current)[o].cursor = src[o].cursor
                                 /\ Cancelled(current)[o].inFlight => src[o].inFlight
  <1>1. current \in Sources /\ src \in [Sources -> SourceRecords]
    BY CurrentSource, StateTypes DEF IngressInv
  <1>2. PICK s : s = [src[current] EXCEPT !.timer = FALSE, !.inFlight = FALSE]
    OBVIOUS
  <1>3. src[current] \in SourceRecords
    BY <1>1
  <1>4. s \in SourceRecords /\ s.cursor = src[current].cursor /\ s.inFlight = FALSE
    BY <1>2, <1>3, Zenon DEF SourceRecords
  <1>5. Cancelled(current) = [src EXCEPT ![current] = s]
    BY <1>1, <1>2, Zenon DEF Cancelled, SourceRecords
  <1> QED
    BY <1>1, <1>4, <1>5

\* Lemma: the tables and the turns stay as they are.
LEMMA SessionKeeps ==
    ASSUME IngressInv, run' \in [Sources -> RunRecords],
           \A o \in Sources : KeepsPlace(run[o], run'[o]),
           UNCHANGED <<storeVars, window, threadVars, faultVars>>,
           context' \in [Messages -> Messages \cup {None}],
           SessionTypes', src' \in [Sources -> SourceRecords],
           SourcesFit', \A o \in Sources : src'[o].cursor \in {cursor, src[o].cursor}
    PROVE  IngressInv'
  <1>1. UNCHANGED <<status, limited, binding, code, consumer, cursor, turn, sent, deleted,
                    crashes, lost>>
    BY DEF storeVars, threadVars, faultVars
  <1>2. RunsFit' /\ NothingForgotten'
    BY <1>1, PlacesKept
  <1>3. TablesFit'
    BY <1>1, TablesStay
  <1>4. CursorsFit'
    BY <1>1 DEF IngressInv, CursorsFit
  <1>5. TypeOK'
    <2>1. Types
      BY TypeParts DEF IngressInv
    <2>2. StoreTypeOK' /\ RoutingTypes' /\ FaultTypes'
      BY <1>1, <2>1 DEF Types, StoreTypeOK, RoutingTypes, FaultTypes
    <2> QED
      BY <2>2, TypeParts DEF Types
  <1> QED
    BY <1>2, <1>3, <1>4, <1>5 DEF IngressInv

\* Batches that did not move keep their places.
LEMMA SameRunKeepsPlace ==
    ASSUME IngressInv, run' = run
    PROVE  run' \in [Sources -> RunRecords] /\ \A o \in Sources : KeepsPlace(run[o], run'[o])
  BY StateTypes DEF IngressInv, KeepsPlace

\* A table of reply contexts without an entry is well typed.
LEMMA NoContext == [t \in Messages |-> None] \in [Messages -> Messages \cup {None}]
  OBVIOUS

\* Lemma: sessions come and go.
LEMMA SessionStepKeeps ==
    ASSUME IngressInv, StartSession \/ FinishStartup \/ Resync \/ StopSession
    PROVE  IngressInv'
  <1>1. /\ run \in [Sources -> RunRecords] /\ src \in [Sources -> SourceRecords]
        /\ SessionTypes /\ SourcesFit /\ context \in [Messages -> Messages \cup {None}]
    BY StateTypes, TypeParts DEF IngressInv, Types, TypeOK
  <1>2. made \in Nat /\ made <= MaxSources /\ MaxSources \in Nat
    BY <1>1, FaultsAssumption DEF SessionTypes
  <1>3. CASE StartSession
    <2>1. /\ made < MaxSources /\ startup' = "live" /\ ready' = TRUE
          /\ UNCHANGED <<storeVars, held, made, schedulerVars, run, window, context,
                         threadVars, faultVars>>
      BY <1>3, Zenon DEF StartSession
    <2>2. UNCHANGED <<current, src>>
      BY <2>1 DEF schedulerVars
    <2>3. SourcesFit' /\ SessionTypes' /\ src' \in [Sources -> SourceRecords]
      BY <1>1, <2>1, <2>2 DEF SourcesFit, SourceStaysScheduled, SessionTypes
    <2> QED
      BY <1>1, <2>1, <2>2, <2>3, SameRunKeepsPlace, SessionKeeps
  <1>4. CASE FinishStartup
    <2>1. /\ startup # "none" /\ startup' = "none" /\ held' = (startup = "live")
          /\ context' = [t \in Messages |-> None] /\ Upsert(current, src)
          /\ UNCHANGED <<storeVars, ready, run, window, threadVars, faultVars>>
      BY <1>4, Zenon DEF FinishStartup
    <2>2. made < MaxSources
      BY <1>1, <2>1 DEF SourcesFit
    <2>3. PICK f \in [Sources -> SourceRecords] : f = src
      BY <1>1
    <2>4. PICK cur \in {None, current} : cur = current
      OBVIOUS
    <2>5. Upsert(cur, f)
      BY <2>1, <2>3, <2>4, Zenon
    <2>6. ready' \in BOOLEAN /\ held' \in BOOLEAN
      BY <1>1, <2>1 DEF SessionTypes
    <2>7. SourcesFit' /\ SessionTypes'
      BY <2>1, <2>2, <2>3, <2>5, <2>6, RegisterKeeps
    <2>8. src' \in [Sources -> SourceRecords]
          /\ \A o \in Sources : src'[o].cursor \in {cursor, src[o].cursor}
      BY <2>2, <2>3, <2>5, UpsertFacts
    <2> QED
      BY <2>1, <2>7, <2>8, NoContext, SameRunKeepsPlace, SessionKeeps
  <1>5. CASE Resync /\ held /\ current # None
    <2>1. /\ made < MaxSources /\ startup = "none" /\ held' = TRUE
          /\ context' = [t \in Messages |-> None] /\ Upsert(None, Cancelled(current))
          /\ run' = [run EXCEPT ![current].pc = IF @ = "polling" THEN "pollcut" ELSE @]
          /\ UNCHANGED <<storeVars, ready, startup, window, threadVars, faultVars>>
      BY <1>5, Zenon DEF Resync
    <2>2. PICK f \in [Sources -> SourceRecords] : f = Cancelled(current)
      BY <1>5, CancelFacts
    <2>3. PICK cur \in {None, current} : cur = None
      OBVIOUS
    <2>4. Upsert(cur, f)
      BY <2>1, <2>2, <2>3, Zenon
    <2>5. current \in Sources
      BY <1>5, CurrentSource DEF IngressInv
    <2>6. PICK r \in RunRecords : r = run[current]
      BY <1>1, <2>5
    <2>7. PICK x : x = [r EXCEPT !.pc = IF r.pc = "polling" THEN "pollcut" ELSE r.pc]
      OBVIOUS
    <2>8. x \in RunRecords /\ KeepsPlace(r, x)
      <3>1. PICK pc \in Points : pc = IF r.pc = "polling" THEN "pollcut" ELSE r.pc
        BY RecordTypes, PointFacts
      <3>2. x = [r EXCEPT !.pc = pc]
        BY <2>7, <3>1, Zenon
      <3>3. x \in RunRecords /\ x.pc = pc /\ x.next = r.next /\ x.last = r.last
        BY <2>6, <3>1, <3>2, RunAt
      <3> QED
        BY <3>1, <3>3 DEF KeepsPlace
    <2>9. run' = [run EXCEPT ![current] = x]
      BY <1>1, <2>1, <2>5, <2>6, <2>7, Zenon DEF RunRecords
    <2>10. run' \in [Sources -> RunRecords] /\ \A o \in Sources : KeepsPlace(run[o], run'[o])
      BY <1>1, <2>5, <2>6, <2>8, <2>9 DEF KeepsPlace
    <2>11. \A o \in Sources : run'[o].pc = "idle" <=> run[o].pc = "idle"
      BY <2>10 DEF KeepsPlace
    <2>12. \A o \in Sources : f[o].inFlight => src[o].inFlight
      BY <1>5, <2>2, CancelFacts
    <2>13. ready' \in BOOLEAN /\ held' \in BOOLEAN /\ startup' = "none"
      BY <1>1, <2>1 DEF SessionTypes
    <2>14. SourcesFit' /\ SessionTypes'
      BY <2>1, <2>3, <2>4, <2>11, <2>12, <2>13, RegisterKeeps
    <2>15. src' \in [Sources -> SourceRecords]
           /\ \A o \in Sources : src'[o].cursor \in {cursor, src[o].cursor}
      BY <1>5, <2>1, <2>2, <2>4, UpsertFacts, CancelFacts
    <2> QED
      BY <2>1, <2>10, <2>14, <2>15, NoContext, SessionKeeps
  <1>6. CASE Resync /\ ~(held /\ current # None)
    <2>1. /\ made < MaxSources /\ startup = "none" /\ held' = TRUE
          /\ context' = [t \in Messages |-> None] /\ Upsert(current, src)
          /\ UNCHANGED <<storeVars, ready, startup, run, window, threadVars, faultVars>>
      BY <1>6, Zenon DEF Resync
    <2>2. PICK f \in [Sources -> SourceRecords] : f = src
      BY <1>1
    <2>3. PICK cur \in {None, current} : cur = current
      OBVIOUS
    <2>4. Upsert(cur, f)
      BY <2>1, <2>2, <2>3, Zenon
    <2>5. ready' \in BOOLEAN /\ held' \in BOOLEAN /\ startup' = "none"
      BY <1>1, <2>1 DEF SessionTypes
    <2>6. SourcesFit' /\ SessionTypes'
      BY <2>1, <2>2, <2>3, <2>4, <2>5, RegisterKeeps
    <2>7. src' \in [Sources -> SourceRecords]
          /\ \A o \in Sources : src'[o].cursor \in {cursor, src[o].cursor}
      BY <2>1, <2>2, <2>4, UpsertFacts
    <2> QED
      BY <2>1, <2>6, <2>7, NoContext, SameRunKeepsPlace, SessionKeeps
  <1>7. CASE StopSession
    <2>1. /\ ready' = FALSE /\ held' = FALSE
          /\ startup' = IF startup = "live" THEN "dead" ELSE startup
          /\ context' = [t \in Messages |-> None]
          /\ run' = [o \in Sources |-> Interrupted(run[o])]
          /\ UNCHANGED <<storeVars, made, window, threadVars, faultVars>>
      BY <1>7, Zenon DEF StopSession
    <2>2. run' \in [Sources -> RunRecords] /\ \A o \in Sources : KeepsPlace(run[o], run'[o])
      BY <1>1, <2>1, InterruptedKeepsPlace
    <2>3. \A o \in Sources : run'[o].pc = "idle" <=> run[o].pc = "idle"
      BY <2>2 DEF KeepsPlace
    <2>4. \/ current # None /\ src' = Cancelled(current) /\ current' = None
          \/ UNCHANGED <<src, current>>
      BY <1>7, Zenon DEF StopSession
    <2>5. /\ src' \in [Sources -> SourceRecords]
          /\ \A o \in Sources : src'[o].cursor = src[o].cursor
          /\ \A o \in Sources : src'[o].inFlight => src[o].inFlight
      BY <1>1, <2>4, CancelFacts
    <2>6. SourcesFit'
      <3>1. startup' # "none" => startup # "none"
        BY <2>1
      <3>2. CASE current # None /\ src' = Cancelled(current) /\ current' = None
        BY <1>1, <2>1, <2>3, <2>5, <3>1, <3>2 DEF SourcesFit, SourceStaysScheduled, Sources, None
      <3>3. CASE UNCHANGED <<src, current>>
        <4>1. current # None => current \in Sources
          BY CurrentSource DEF IngressInv
        <4> QED
          BY <1>1, <2>1, <2>3, <3>1, <3>3, <4>1 DEF SourcesFit, SourceStaysScheduled
      <3> QED
        BY <2>4, <3>2, <3>3
    <2>7. SessionTypes'
      <3>1. startup' \in {"none", "live", "dead"} /\ made' = made
        BY <1>1, <2>1 DEF SessionTypes
      <3>2. current' \in 0..made
        BY <1>1, <1>2, <2>4 DEF SessionTypes, None
      <3> QED
        BY <1>1, <2>1, <3>1, <3>2 DEF SessionTypes
    <2> QED
      BY <2>1, <2>2, <2>5, <2>6, <2>7, NoContext, SessionKeeps
  <1> QED
    BY <1>3, <1>4, <1>5, <1>6, <1>7

\* Lemma: a timer that fires starts the poll of the source in the map, or finds it
\* in flight.
LEMMA TimerKeeps ==
    ASSUME IngressInv, NEW o \in Sources, TimerFires(o)
    PROVE  IngressInv'
  <1>1. /\ run \in [Sources -> RunRecords] /\ src \in [Sources -> SourceRecords] /\ Types
        /\ SourcesFit /\ CursorsFit
    BY StateTypes, TypeParts DEF IngressInv
  <1>2. PICK s : s = [src[o] EXCEPT !.timer = FALSE]
    OBVIOUS
  <1>3. src[o] \in SourceRecords
    BY <1>1
  <1>4. s \in SourceRecords /\ s.cursor = src[o].cursor /\ s.inFlight = src[o].inFlight
    BY <1>2, <1>3, Zenon DEF SourceRecords
  <1>5. PICK f : f = [src EXCEPT ![o].timer = FALSE]
    OBVIOUS
  <1>6. f = [src EXCEPT ![o] = s]
    BY <1>1, <1>2, <1>5, Zenon DEF SourceRecords
  <1>7. /\ f \in [Sources -> SourceRecords]
        /\ \A q \in Sources : f[q].cursor = src[q].cursor /\ f[q].inFlight = src[q].inFlight
    BY <1>1, <1>4, <1>6
  <1>8. UNCHANGED <<storeVars, sessionVars, current, window, context, threadVars, faultVars>>
    BY Zenon DEF TimerFires
  <1>9. UNCHANGED <<status, limited, binding, code, consumer, cursor, ready, held, startup, made,
                    turn, sent, deleted, crashes, lost>>
    BY <1>8 DEF storeVars, sessionVars, threadVars, faultVars
  <1>10. TablesFit' /\ StoreTypeOK' /\ SessionTypes' /\ RoutingTypes' /\ FaultTypes'
    BY <1>1, <1>8, <1>9, TablesStay
       DEF Types, StoreTypeOK, SessionTypes, RoutingTypes, FaultTypes
  <1>11. current # None => current \in Sources
    BY CurrentSource DEF IngressInv
  <1>12. CASE current # None /\ ~src[current].inFlight
    <2>1. StartPoll(f)
      BY <1>5, <1>12, Zenon DEF TimerFires
    <2>2. PICK c \in Messages \cup {None} : c = f[current].cursor
      BY <1>7, <1>11, <1>12, RecordTypes
    <2>3. PICK pc \in {"polling", "pollcut"} : pc = IF ready THEN "polling" ELSE "pollcut"
      OBVIOUS
    <2>4. PICK n \in Messages \cup {None, Len(Inbox) + 1} : n = c + 1 /\ n # None
      BY PlaceNumbers
    <2>5. PICK x : x = [Idle EXCEPT !.pc = pc, !.next = n, !.last = c]
      OBVIOUS
    <2>6. PICK z : z = [f[current] EXCEPT !.inFlight = TRUE]
      OBVIOUS
    <2>7. x \in RunRecords /\ x.pc = pc /\ x.next = n /\ x.last = c
      <3>1. pc \in Points
        BY PointFacts
      <3> QED
        BY <2>5, <3>1, Zenon DEF RunRecords, Idle
    <2>8. f[current] \in SourceRecords
      BY <1>7, <1>11, <1>12
    <2>9. z \in SourceRecords /\ z.cursor = c /\ z.inFlight = TRUE
      BY <2>2, <2>6, <2>8, Zenon DEF SourceRecords
    <2>10. run' = [run EXCEPT ![current] = x]
      BY <2>1, <2>2, <2>3, <2>4, <2>5, Zenon DEF StartPoll
    <2>11. src' = [f EXCEPT ![current] = z]
      BY <1>7, <2>1, <2>6, Zenon DEF StartPoll, SourceRecords
    <2>12. run[current].pc = "idle" /\ current \in Sources
      BY <1>1, <1>11, <1>12 DEF SourcesFit
    <2>13. x.pc # "idle" /\ x.pc \notin Routed \cup {"confirming", "answered"}
      BY <2>3, <2>7, PointFacts
    <2>14. Covered(n, status, limited)
      BY <1>1, <1>7, <2>2, <2>4, <2>12 DEF CursorsFit
    <2>15. Fits(x, status', limited', consumer', sent')
      BY <1>9, <2>4, <2>7, <2>13, <2>14 DEF Fits
    <2>16. Touches(current, None, x) /\ Remembers(current, None, x)
      <3>1. None \notin Messages /\ "idle" \notin Routed
        BY MessageNumbers, PointFacts
      <3> QED
        BY <1>9, <2>7, <2>10, <2>12, <2>13, <2>15, <3>1 DEF Touches, Remembers, Routes
    <2>17. RunsFit' /\ run' \in [Sources -> RunRecords] /\ NothingForgotten'
      BY <1>9, <2>12, <2>16, TouchFits, TouchRemembers
    <2>18. src' \in [Sources -> SourceRecords] /\ src'[current] = z
           /\ \A q \in Sources : q # current => src'[q] = f[q]
      BY <1>7, <2>9, <2>11, <2>12
    <2>19. run'[current] = x /\ \A q \in Sources : q # current => run'[q] = run[q]
      BY <1>1, <2>10, <2>12
    <2>20. SourcesFit'
      <3>1. \A q \in Sources : q # current =>
               /\ src'[q].inFlight => run'[q].pc # "idle"
               /\ q > made => run'[q].pc = "idle"
        BY <1>1, <1>7, <2>18, <2>19 DEF SourcesFit
      <3>2. ~(current > made)
        BY <1>1, <2>12, FaultsAssumption DEF SessionTypes, Types, Sources
      <3> QED
        BY <1>1, <1>8, <1>9, <2>9, <2>13, <2>18, <2>19, <3>1, <3>2
           DEF SourcesFit, SourceStaysScheduled
    <2>21. CursorsFit'
      BY <1>1, <1>7, <1>9, <2>2, <2>9, <2>18 DEF CursorsFit
    <2>22. TypeOK'
      BY <1>10, <2>17, <2>18, TypeParts DEF Types
    <2> QED
      BY <1>10, <2>17, <2>20, <2>21, <2>22 DEF IngressInv
  <1>13. CASE ~(current # None /\ ~src[current].inFlight)
    <2>1. src' = f /\ run' = run
      BY <1>5, <1>13, Zenon DEF TimerFires
    <2>2. RunsFit' /\ NothingForgotten'
      BY <1>9, <2>1, SameRunKeepsPlace, PlacesKept
    <2>3. SourcesFit'
      BY <1>1, <1>7, <1>8, <1>9, <1>11, <1>13, <2>1 DEF SourcesFit, SourceStaysScheduled
    <2>4. CursorsFit'
      BY <1>1, <1>7, <1>9, <2>1 DEF CursorsFit
    <2>5. TypeOK'
      BY <1>1, <1>7, <1>10, <2>1, TypeParts DEF Types
    <2> QED
      BY <1>10, <2>2, <2>3, <2>4, <2>5 DEF IngressInv
  <1> QED
    BY <1>12, <1>13

-----------------------------------------------------------------------------
(* The operator, the threads, time and crashes *)

\* Lemma: the operator makes codes and changes bindings; turns end, threads are
\* deleted, windows pass.
LEMMA OutsideKeeps ==
    ASSUME IngressInv, Administration \/ (\E t \in Messages : TurnEnds(t) \/ DeleteThread(t))
                       \/ (\E u \in Users : WindowPasses(u))
    PROVE  IngressInv'
  <1>1. Types /\ TablesFit
    BY TypeParts DEF IngressInv
  <1>2. UNCHANGED <<sessionVars, schedulerVars, run, context, faultVars>>
        /\ UNCHANGED <<status, limited, consumer, cursor, sent>>
    <2>1. CASE Administration
      BY <2>1 DEF Administration, CreateLinkCode, ExpireLinkCode, ChangeBinding, threadVars
    <2>2. CASE \E t \in Messages : TurnEnds(t) \/ DeleteThread(t)
      BY <2>2 DEF TurnEnds, DeleteThread, storeVars
    <2>3. CASE \E u \in Users : WindowPasses(u)
      BY <2>3 DEF WindowPasses, storeVars, threadVars
    <2> QED
      BY <2>1, <2>2, <2>3
  <1>3. /\ \A u \in Users : binding'[u] # "none" => u \in consumer
        /\ binding' \in [Users -> {"none", "enabled", "disabled"}]
        /\ code' \in {"none", "active", "expired", "consumed"}
    <2>1. CASE UNCHANGED binding /\ code' \in {"none", "active", "expired", "consumed"}
      BY <1>1, <2>1 DEF Types, StoreTypeOK, TablesFit
    <2>2. ASSUME NEW u \in Users, ChangeBinding(u)
          PROVE  /\ \A v \in Users : binding'[v] # "none" => v \in consumer
                 /\ binding' \in [Users -> {"none", "enabled", "disabled"}]
                 /\ code' = code
      BY <1>1, <2>2 DEF ChangeBinding, Types, StoreTypeOK, TablesFit
    <2>3. code \in {"none", "active", "expired", "consumed"}
      BY <1>1 DEF Types, StoreTypeOK
    <2>4. CASE Administration
      BY <2>1, <2>2, <2>3, <2>4 DEF Administration, CreateLinkCode, ExpireLinkCode
    <2>5. CASE \E t \in Messages : TurnEnds(t) \/ DeleteThread(t)
      BY <2>1, <2>3, <2>5 DEF TurnEnds, DeleteThread, storeVars
    <2>6. CASE \E u \in Users : WindowPasses(u)
      BY <2>1, <2>3, <2>6 DEF WindowPasses, storeVars
    <2> QED
      BY <2>4, <2>5, <2>6
  <1>4. RoutingTypes'
    <2>1. RoutingTypes
      BY <1>1 DEF Types
    <2>2. CASE Administration
      BY <2>1, <2>2 DEF Administration, RoutingTypes, threadVars
    <2>3. CASE \E t \in Messages : TurnEnds(t) \/ DeleteThread(t)
      BY <2>1, <2>3 DEF TurnEnds, DeleteThread, RoutingTypes
    <2>4. CASE \E u \in Users : WindowPasses(u)
      BY <2>1, <2>4 DEF WindowPasses, RoutingTypes, threadVars
    <2> QED
      BY <2>2, <2>3, <2>4
  <1>5. UNCHANGED <<ready, held, startup, made, current, src, crashes, lost>>
    BY <1>2 DEF sessionVars, schedulerVars, faultVars
  <1>6. RunsFit' /\ NothingForgotten'
    BY <1>2, <1>5, SameRunKeepsPlace, PlacesKept
  <1>7. SourcesFit' /\ CursorsFit' /\ TablesFit'
    BY <1>2, <1>3, <1>5 DEF IngressInv, SourcesFit, SourceStaysScheduled, CursorsFit, TablesFit
  <1>8. TypeOK'
    <2>1. StoreTypeOK' /\ SessionTypes' /\ FaultTypes'
      BY <1>1, <1>2, <1>3, <1>5 DEF Types, StoreTypeOK, SessionTypes, FaultTypes
    <2> QED
      BY <1>1, <1>2, <1>4, <1>5, <2>1, TypeParts DEF Types
  <1> QED
    BY <1>6, <1>7, <1>8 DEF IngressInv

\* Lemma: a state without polls, sources or sessions, as a start of the host finds it.
LEMMA HostStarts ==
    ASSUME StoreTypeOK', sent' \subseteq Messages, deleted' \subseteq Messages, FaultTypes',
           made' \in 0..MaxSources,
           ready' = FALSE, held' = FALSE, startup' = "none", current' = None,
           src' = [o \in Sources |-> NewSource], run' = [o \in Sources |-> Idle],
           window' = [u \in Users |-> None], context' = [t \in Messages |-> None],
           turn' = [t \in Messages |-> None],
           Covered(cursor' + 1, status', limited'), TablesFit',
           \A m \in Messages : status'[m] = "verified" => m \in lost'
    PROVE  IngressInv'
  <1>1. NewSource \in SourceRecords /\ NewSource.cursor = None /\ NewSource.inFlight = FALSE
    BY Zenon DEF NewSource, SourceRecords
  <1>2. Idle \in RunRecords /\ Idle.pc = "idle" /\ "idle" \notin Routed
    BY IdleRun, PointFacts
  <1>3. made' \in Nat /\ current' \in 0..made'
    BY FaultsAssumption DEF None
  <1>4. TypeOK'
    BY <1>1, <1>2, <1>3, TypeParts DEF Types, SessionTypes, RoutingTypes
  <1>5. RunsFit'
    BY <1>2, IdleFits DEF RunsFit, Routes
  <1>6. SourcesFit'
    BY <1>1, <1>2 DEF SourcesFit, SourceStaysScheduled
  <1>7. CursorsFit'
    <2>1. Covered(None + 1, status', limited')
      BY MessageNumbers DEF Covered, None
    <2> QED
      BY <1>1, <2>1 DEF CursorsFit
  <1>8. NothingForgotten'
    BY DEF NothingForgotten
  <1> QED
    BY <1>4, <1>5, <1>6, <1>7, <1>8 DEF IngressInv

\* Lemma: a crash leaves what is on disk, maybe with one link more.
LEMMA CrashKeeps ==
    ASSUME IngressInv, Crash
    PROVE  IngressInv'
  <1>1. Types /\ TablesFit /\ CursorsFit
    BY TypeParts DEF IngressInv
  <1>2. /\ crashes < MaxCrashes /\ crashes' = crashes + 1
        /\ lost' = lost \cup {m \in Messages : status[m] = "verified"}
        /\ UNCHANGED <<status, limited, cursor, made, sent, deleted>>
    BY DEF Crash
  <1>3. /\ consumer \subseteq consumer' /\ consumer' \subseteq Users
        /\ \A u \in Users : binding'[u] # "none" => u \in consumer'
        /\ binding' \in [Users -> {"none", "enabled", "disabled"}]
        /\ code' \in {"none", "active", "expired", "consumed"}
    <2>1. CASE UNCHANGED linkVars
      BY <1>1, <2>1 DEF Types, StoreTypeOK, TablesFit, linkVars
    <2>2. ASSUME NEW o \in Sources, run[o].pc = "message", run[o].next <= run[o].last,
                 Consume(Sender(InHand(o)))
          PROVE  /\ consumer \subseteq consumer' /\ consumer' \subseteq Users
                 /\ \A u \in Users : binding'[u] # "none" => u \in consumer'
                 /\ binding' \in [Users -> {"none", "enabled", "disabled"}]
                 /\ code' \in {"none", "active", "expired", "consumed"}
      <3>1. PICK u \in Users : u = Sender(InHand(o))
        BY <2>2, HandFacts, MessageNumbers DEF InHand
      <3>2. Consume(u)
        BY <2>2, <3>1
      <3> QED
        BY <1>1, <3>2 DEF Consume, Types, StoreTypeOK, TablesFit
    <2> QED
      BY <2>1, <2>2 DEF Crash
  <1>4. StoreTypeOK'
    BY <1>1, <1>2, <1>3 DEF Types, StoreTypeOK
  <1>5. FaultTypes'
    BY <1>1, <1>2, FaultsAssumption DEF Types, FaultTypes
  <1>6. TablesFit'
    BY <1>1, <1>2, <1>3 DEF TablesFit
  <1>7. Covered(cursor' + 1, status', limited')
    BY <1>1, <1>2 DEF CursorsFit
  <1>8. sent' \subseteq Messages /\ deleted' \subseteq Messages /\ made' \in 0..MaxSources
    BY <1>1, <1>2 DEF Types, RoutingTypes, SessionTypes
  <1>9. /\ ready' = FALSE /\ held' = FALSE /\ startup' = "none" /\ current' = None
        /\ src' = [o \in Sources |-> NewSource] /\ run' = [o \in Sources |-> Idle]
        /\ window' = [u \in Users |-> None] /\ context' = [t \in Messages |-> None]
        /\ turn' = [t \in Messages |-> None]
    BY Zenon DEF Crash
  <1>10. \A m \in Messages : status'[m] = "verified" => m \in lost'
    BY <1>2
  <1> QED
    BY <1>4, <1>5, <1>6, <1>7, <1>8, <1>9, <1>10, HostStarts

-----------------------------------------------------------------------------
(* The theorems *)

\* The initial state satisfies the invariant.
LEMMA IngressInit == Init => IngressInv
  <1> SUFFICES ASSUME Init PROVE IngressInv
    OBVIOUS
  <1>1. StoreTypeOK /\ TablesFit /\ NothingForgotten
    BY DEF Init, StoreInit, StoreTypeOK, TablesFit, NothingForgotten
  <1>2. /\ NewSource \in SourceRecords /\ NewSource.cursor = None /\ NewSource.inFlight = FALSE
        /\ Idle \in RunRecords /\ Idle.pc = "idle" /\ "idle" \notin Routed
    BY IdleRun, PointFacts, Zenon DEF NewSource, SourceRecords
  <1>3. TypeOK
    <2>1. SessionTypes /\ FaultTypes
      <3>1. /\ ready = FALSE /\ held = FALSE /\ startup = "none" /\ made = 0 /\ current = 0
            /\ crashes = 0 /\ lost = {}
        BY DEF Init, None
      <3>2. 0 \in 0..MaxSources /\ 0 \in 0..MaxCrashes /\ 0 \in 0..0
        BY FaultsAssumption
      <3> QED
        BY <3>1, <3>2 DEF SessionTypes, FaultTypes
    <2>2. RoutingTypes
      <3>1. /\ window = [u \in Users |-> None] /\ context = [t \in Messages |-> None]
            /\ turn = [t \in Messages |-> None] /\ sent = {} /\ deleted = {}
        BY DEF Init
      <3> QED
        BY <3>1 DEF RoutingTypes
    <2>3. src \in [Sources -> SourceRecords] /\ run \in [Sources -> RunRecords]
      BY <1>2 DEF Init
    <2> QED
      BY <1>1, <2>1, <2>2, <2>3, TypeParts DEF Types
  <1>4. RunsFit
    BY <1>2, IdleFits DEF Init, RunsFit, Routes
  <1>5. SourcesFit
    BY <1>2 DEF Init, SourcesFit, SourceStaysScheduled
  <1>6. CursorsFit
    <2>1. Covered(None + 1, status, limited)
      BY MessageNumbers DEF Covered, None
    <2> QED
      BY <1>2, <2>1 DEF CursorsFit, Init, StoreInit, None
  <1> QED
    BY <1>1, <1>3, <1>4, <1>5, <1>6 DEF IngressInv

\* Every step keeps the invariant.
LEMMA IngressStep == IngressInv /\ [Next]_vars => IngressInv'
  <1> SUFFICES ASSUME IngressInv, [Next]_vars PROVE IngressInv'
    OBVIOUS
  <1>1. CASE UNCHANGED vars
    <2>1. UNCHANGED <<status, limited, binding, code, consumer, cursor, ready, held, startup, made,
                      current, src, run, window, context, turn, sent, deleted, crashes, lost>>
      BY <1>1 DEF vars, storeVars, sessionVars, schedulerVars, threadVars, faultVars
    <2> QED
      BY <2>1, TypeParts DEF IngressInv, Types, StoreTypeOK, SessionTypes, RoutingTypes, FaultTypes,
         RunsFit, SourcesFit, SourceStaysScheduled, CursorsFit, TablesFit, NothingForgotten
  <1>2. CASE Next
    BY <1>2, SessionStepKeeps, TimerKeeps, PollAnswersKeeps, PollFailsKeeps, BatchStepKeeps,
       OutsideKeeps, CrashKeeps DEF Next
  <1> QED
    BY <1>1, <1>2

\* The invariant holds in every state.
LEMMA IngressAlways == Spec => []IngressInv
  BY IngressInit, IngressStep, PTL DEF Spec

\* The variables stay in their types: of the sources that were made, only those
\* take part, and every place in the stream is a message, the one before the first
\* or the one after the last.
THEOREM IngressTypes == Spec => []TypeOK
  <1>1. IngressInv => TypeOK
    BY DEF IngressInv
  <1> QED
    BY <1>1, IngressAlways, PTL

\* Whoever has a turn run for him consumed a link code before (OnlyLinkedUsers):
\* bindings may go while his message is in hand.
THEOREM TurnsAreOfLinkedUsers == Spec => []OnlyLinkedUsers
  <1>1. IngressInv => OnlyLinkedUsers
    BY DEF IngressInv, TablesFit, OnlyLinkedUsers, TypeOK
  <1> QED
    BY <1>1, IngressAlways, PTL

\* The stored cursor never passes a message that left no trace
\* (CursorCoversRecords), whatever the batches of removed sources store.
THEOREM NoMessageIsPassed == Spec => []CursorCoversRecords
  <1>1. IngressInv => CursorCoversRecords
    <2> SUFFICES ASSUME IngressInv, NEW m \in Messages, m <= cursor PROVE Accounted(m)
      BY DEF CursorCoversRecords
    <2>1. cursor \in Nat /\ m \in Nat
      BY MessageNumbers DEF IngressInv, TypeOK, StoreTypeOK
    <2>2. m < cursor + 1
      BY <2>1
    <2> QED
      BY <2>2 DEF IngressInv, CursorsFit, Covered, Accounted
  <1> QED
    BY <1>1, IngressAlways, PTL

\* The record says what became of the turn (RecordsMatchTurns).
THEOREM RecordsTellTheTurn == Spec => []RecordsMatchTurns
  <1>1. IngressInv => RecordsMatchTurns
    BY DEF IngressInv, TablesFit, RecordsMatchTurns
  <1> QED
    BY <1>1, IngressAlways, PTL

\* Polling goes on (SourceStaysScheduled): whatever fails, and however often the
\* source is registered, the source in the map is polled or has its timer set.
THEOREM PollingGoesOn == Spec => []SourceStaysScheduled
  <1>1. IngressInv => SourceStaysScheduled
    BY DEF IngressInv, SourcesFit
  <1> QED
    BY <1>1, IngressAlways, PTL

\* Only sendThreadMessage queues a turn, and not for a message that has one.
LEMMA OneTurnStep ==
    ASSUME IngressInv, [Next]_vars, NEW t \in Messages, NEW m \in Messages,
           turn'[t] = m, turn[t] # m
    PROVE  m \notin sent
  <1>1. None \notin Messages /\ turn \in [Messages -> Messages \cup {None}]
    BY MessageNumbers DEF IngressInv, TypeOK
  <1>2. ~(UNCHANGED turn) /\ ~(\E p \in Messages : turn' = [turn EXCEPT ![p] = None])
        /\ turn' # [p \in Messages |-> None]
    BY <1>1
  <1>3. ~(\E o \in Sources : TimerFires(o) \/ PollAnswers(o) \/ PollFails(o))
    BY <1>2, Zenon DEF TimerFires, PollAnswers, PollFails, threadVars
  <1>4. ~(StartSession \/ FinishStartup \/ Resync \/ StopSession \/ Administration \/ Crash)
    BY <1>2, Zenon DEF StartSession, FinishStartup, Resync, StopSession, Administration, Crash,
       threadVars
  <1>5. ~((\E p \in Messages : TurnEnds(p) \/ DeleteThread(p)) \/ (\E u \in Users : WindowPasses(u)))
    BY <1>2, Zenon DEF TurnEnds, DeleteThread, WindowPasses, threadVars
  <1>6. ~UNCHANGED vars
    BY <1>2 DEF vars, threadVars
  <1>7. PICK o \in Sources : BatchStep(o)
    BY <1>3, <1>4, <1>5, <1>6 DEF Next
  <1>8. SendMessage(o)
    BY <1>2, <1>7, Zenon DEF BatchStep, ResolveSource, ProcessMessage, LinkConfirmed, EndBatch,
       RouteKnown, PromptRendered, PromptFails, ThreadCreated, MarkProcessed, threadVars
  <1>9. run[o].pc = "sending" /\ turn' = [turn EXCEPT ![run[o].thread] = InHand(o)]
    BY <1>2, <1>8, Zenon DEF SendMessage
  <1>10. m = run[o].next
    BY <1>1, <1>9 DEF InHand
  <1>11. run[o].next \notin sent
    BY <1>9, HandFacts, PointFacts DEF Fits, Routed
  <1> QED
    BY <1>10, <1>11

\* A message gets at most one turn (OneTurnEach): the batches of two source objects
\* may poll it, and only the one that wrote its record sends it.
THEOREM OneTurnOnly == Spec => OneTurnEach
  <1>1. IngressInv /\ [Next]_vars
           => [\A t, m \in Messages : turn'[t] = m /\ turn[t] # m => m \notin sent]_vars
    BY OneTurnStep
  <1> QED
    BY <1>1, IngressAlways, PTL DEF Spec, OneTurnEach

\* A record is "verified" only while exactly one batch has its message in hand, or
\* since a crash (VerifiedIsInHand): no failure of the router forgets it.
THEOREM VerifiedIsRouted == Spec => []VerifiedIsInHand
  <1>1. IngressInv => VerifiedIsInHand
    <2> SUFFICES ASSUME IngressInv, NEW m \in Messages, status[m] = "verified", m \notin lost
                 PROVE  Cardinality({o \in Sources : Working(o) /\ InHand(o) = m
                                       /\ run[o].pc \notin {"answered", "message"}}) = 1
      BY DEF VerifiedIsInHand
    <2>1. PICK o \in Sources : Routes(run[o], m)
      BY DEF IngressInv, NothingForgotten
    <2>2. \A q \in Sources : Routes(run[q], m) <=> q = o
      BY <2>1 DEF IngressInv, RunsFit
    <2>3. ASSUME NEW q \in Sources
          PROVE  (Working(q) /\ InHand(q) = m /\ run[q].pc \notin {"answered", "message"})
                   <=> (Routes(run[q], m) \/ (run[q].pc = "confirming" /\ run[q].next = m))
      BY HandFacts, RecordTypes DEF Working, InHand, Routes, Routed, Points
    <2>4. ASSUME NEW q \in Sources, run[q].pc = "confirming", run[q].next = m
          PROVE  FALSE
      <3>1. Kind(m) = "link"
        BY <2>4, HandFacts DEF Fits
      <3>2. Kind(m) = "text"
        BY <2>1, HandFacts DEF Fits, Routes
      <3> QED
        BY <3>1, <3>2
    <2>5. {q \in Sources : Working(q) /\ InHand(q) = m
                             /\ run[q].pc \notin {"answered", "message"}} = {o}
      BY <2>2, <2>3, <2>4
    <2> QED
      BY <2>5, FS_Singleton
  <1> QED
    BY <1>1, IngressAlways, PTL

\* Lemma: a link code is consumed once.
LEMMA CodeStep ==
    ASSUME IngressInv, CodeFits, [Next]_vars
    PROVE  CodeFits'
  <1>1. CASE UNCHANGED <<code, consumer>>
    BY <1>1 DEF CodeFits
  <1>2. ASSUME NEW u \in Users, Consume(u)
        PROVE  CodeFits'
    BY <1>2 DEF CodeFits, Consume
  <1>3. ASSUME NEW o \in Sources, run[o].pc = "message", run[o].next <= run[o].last,
               Consume(Sender(InHand(o)))
        PROVE  CodeFits'
    BY <1>2, <1>3, HandFacts, MessageNumbers DEF InHand
  <1>4. CASE UNCHANGED vars
    BY <1>1, <1>4 DEF vars, storeVars
  <1>5. CASE StartSession \/ FinishStartup \/ Resync \/ StopSession
    BY <1>1, <1>5, Zenon DEF StartSession, FinishStartup, Resync, StopSession, storeVars
  <1>6. CASE Administration
    BY <1>6 DEF Administration, CreateLinkCode, ExpireLinkCode, ChangeBinding, CodeFits
  <1>7. CASE (\E t \in Messages : TurnEnds(t) \/ DeleteThread(t))
             \/ (\E u \in Users : WindowPasses(u))
    BY <1>1, <1>7, Zenon DEF TurnEnds, DeleteThread, WindowPasses, storeVars
  <1>8. CASE Crash
    BY <1>1, <1>3, <1>8, Zenon DEF Crash, linkVars
  <1>9. ASSUME NEW o \in Sources, TimerFires(o) \/ PollAnswers(o) \/ PollFails(o)
        PROVE  CodeFits'
    BY <1>1, <1>9, Zenon DEF TimerFires, PollAnswers, PollFails, storeVars
  <1>10. ASSUME NEW o \in Sources, BatchStep(o)
         PROVE  CodeFits'
    <2>1. CASE ProcessMessage(o)
      <3>1. run[o].pc = "message" /\ run[o].next <= run[o].last
        BY <2>1, Zenon DEF ProcessMessage
      <3>2. UNCHANGED linkVars \/ Consume(Sender(InHand(o)))
        BY <2>1, Zenon DEF ProcessMessage, SkipMessage, LinkMessage, RefusedMessage,
           UnverifiedMessage, VerifiedMessage
      <3> QED
        BY <1>1, <1>3, <3>1, <3>2 DEF linkVars
    <2>2. CASE ~ProcessMessage(o)
      <3>1. UNCHANGED linkVars \/ UNCHANGED storeVars
        BY <1>10, <2>2, Zenon DEF BatchStep, ResolveSource, LinkConfirmed, EndBatch, RouteKnown,
           PromptRendered, PromptFails, ThreadCreated, SendMessage, MarkProcessed
      <3> QED
        BY <1>1, <3>1 DEF linkVars, storeVars
    <2> QED
      BY <2>1, <2>2
  <1> QED
    BY <1>4, <1>5, <1>6, <1>7, <1>8, <1>9, <1>10 DEF Next

\* A link code links one user (CodeLinksOneUser), also when two batches carry it and
\* when the host dies between the consumption and the record.
THEOREM OneUserPerCode == Spec => []CodeLinksOneUser
  <1>1. Init => CodeFits
    BY DEF Init, StoreInit, CodeFits
  <1>2. IngressInv /\ CodeFits /\ [Next]_vars => CodeFits'
    BY CodeStep
  <1>3. CodeFits => CodeLinksOneUser
    <2>1. consumer = {} => Cardinality(consumer) = 0
      BY FS_EmptySet
    <2>2. ASSUME NEW u, consumer = {u} PROVE Cardinality(consumer) = 1
      BY <2>2, FS_Singleton
    <2> QED
      BY <2>1, <2>2 DEF CodeFits, CodeLinksOneUser
  <1> QED
    BY <1>1, <1>2, <1>3, IngressAlways, PTL DEF Spec
=============================================================================
