-------------------------- MODULE PluginCallsProofs --------------------------
(***************************************************************************)
(* Theorems about PluginCalls, for every set of calls, every number of     *)
(* sessions and every bound on calls in flight and queued writes.          *)
(*                                                                         *)
(* Only Invoke puts the request of a call anywhere.  Every other action    *)
(* moves requests along, from the write queue to the answers, or drops     *)
(* them; what has to be shown is that whoever drops one fails its call.    *)
(***************************************************************************)
EXTENDS PluginCalls, SequenceCounts

-----------------------------------------------------------------------------
(* Frames, sessions and processes *)

\* The frames the host writes.
SentFrames ==
    {Request(c) : c \in Calls} \cup {Cancel(c, ends) : c \in Calls, ends \in BOOLEAN}
        \cup {Shutdown}

SessionRecords == [stopping : BOOLEAN, writes : Seq(Frames)]

\* The fields of the three kinds of frame.
LEMMA FrameFields ==
    /\ \A c \in Calls : /\ Request(c).type = "request" /\ Request(c).call = c
                        /\ ~Request(c).ends
    /\ \A c \in Calls, ends \in BOOLEAN :
          Cancel(c, ends).type = "cancel" /\ Cancel(c, ends).ends = ends
    /\ Shutdown.type = "shutdown" /\ Shutdown.ends
BY DEF Request, Cancel, Shutdown

\* What the host sends are frames.
LEMMA FramesAreTyped == SentFrames \subseteq Frames
<1>1. \A c \in Calls : Request(c) \in Frames
  BY Zenon DEF Request, Frames
<1>2. \A c \in Calls, ends \in BOOLEAN : Cancel(c, ends) \in Frames
  BY Zenon DEF Cancel, Frames
<1>3. Shutdown \in Frames
  BY Zenon DEF Shutdown, Frames
<1>4. QED  BY <1>1, <1>2, <1>3 DEF SentFrames

\* A request is told by its type, and its call by the frame.
LEMMA RequestFrames ==
    ASSUME NEW f \in SentFrames
    PROVE  /\ f.type = "request" => f.call \in Calls /\ f = Request(f.call) /\ ~f.ends
           /\ f.type # "request" => \A c \in Calls : f # Request(c)
           /\ \A c \in Calls : f = Request(c) => f.type = "request" /\ f.call = c
           /\ f.type = "shutdown" <=> f = Shutdown
           /\ f.ends \in BOOLEAN
<1>1. CASE \E c \in Calls : f = Request(c)
  <2>1. PICK c \in Calls : f = Request(c)
    BY <1>1
  <2>2. f.type = "request" /\ f.call = c /\ ~f.ends
    BY <2>1, FrameFields
  <2>3. \A d \in Calls : f = Request(d) => f.call = d
    BY FrameFields
  <2>4. f.type # "shutdown" /\ f # Shutdown
    BY <2>2, FrameFields
  <2>5. f.ends \in BOOLEAN
    BY <2>1, Zenon DEF Request
  <2>6. QED  BY <2>1, <2>2, <2>3, <2>4, <2>5
<1>2. CASE \E c \in Calls, ends \in BOOLEAN : f = Cancel(c, ends)
  <2>1. PICK c \in Calls, ends \in BOOLEAN : f = Cancel(c, ends)
    BY <1>2
  <2>2. f.type = "cancel" /\ f.ends = ends
    BY <2>1, FrameFields
  <2>3. f # Shutdown /\ \A d \in Calls : f # Request(d)
    BY <2>2, FrameFields
  <2>4. QED  BY <2>2, <2>3
<1>3. CASE f = Shutdown
  <2>1. f.type = "shutdown" /\ f.ends
    BY <1>3, FrameFields
  <2>2. \A d \in Calls : f # Request(d)
    BY <2>1, FrameFields
  <2>3. f.ends \in BOOLEAN
    BY <1>3, Zenon DEF Shutdown
  <2>4. QED  BY <1>3, <2>1, <2>2, <2>3
<1>4. QED  BY <1>1, <1>2, <1>3 DEF SentFrames

\* Updates of one field of a session or of a process.
LEMMA SessionUpdates ==
    ASSUME NEW r \in SessionRecords
    PROVE  /\ r.stopping \in BOOLEAN /\ r.writes \in Seq(Frames)
           /\ \A w \in Seq(Frames) :
                 /\ [r EXCEPT !.writes = w] \in SessionRecords
                 /\ [r EXCEPT !.writes = w].writes = w
                 /\ [r EXCEPT !.writes = w].stopping = r.stopping
           /\ /\ [r EXCEPT !.stopping = TRUE] \in SessionRecords
              /\ [r EXCEPT !.stopping = TRUE].writes = r.writes
              /\ [r EXCEPT !.stopping = TRUE].stopping
BY Zenon DEF SessionRecords

\* The types of the fields of a sidecar process.
LEMMA ProcessFields ==
    ASSUME NEW p \in Processes
    PROVE  /\ p.life \in {"none", "alive", "dead", "gone"}
           /\ p.killed \in BOOLEAN /\ p.closed \in BOOLEAN
           /\ p.inbox \in Seq(Frames) /\ p.running \in Calls \cup {None}
           /\ p.answers \in Seq(Calls)
BY DEF Processes

\* The updates of a process that the actions make.
LEMMA Killed ==
    ASSUME NEW p \in Processes
    PROVE  LET q == [p EXCEPT !.killed = TRUE] IN
           /\ q \in Processes
           /\ q.life = p.life /\ q.closed = p.closed /\ q.inbox = p.inbox
           /\ q.running = p.running /\ q.answers = p.answers
BY Zenon DEF Processes

\* What a new inbox changes in a process.
LEMMA Received ==
    ASSUME NEW p \in Processes, NEW i \in Seq(Frames)
    PROVE  LET q == [p EXCEPT !.inbox = i] IN
           /\ q \in Processes
           /\ q.life = p.life /\ q.closed = p.closed /\ q.inbox = i
           /\ q.running = p.running /\ q.answers = p.answers
BY Zenon DEF Processes

\* What its start changes in a process.
LEMMA Started ==
    ASSUME NEW p \in Processes
    PROVE  LET q == [p EXCEPT !.life = "alive"] IN
           /\ q \in Processes
           /\ q.life = "alive" /\ q.inbox = p.inbox
           /\ q.running = p.running /\ q.answers = p.answers
BY Zenon DEF Processes

\* What the host's read of an answer changes in a process.
LEMMA Read ==
    ASSUME NEW p \in Processes, NEW a \in Seq(Calls)
    PROVE  LET q == [p EXCEPT !.answers = a] IN
           /\ q \in Processes
           /\ q.life = p.life /\ q.inbox = p.inbox
           /\ q.running = p.running /\ q.answers = a
BY Zenon DEF Processes

\* What the notice of its exit changes in a process.
LEMMA Buried ==
    ASSUME NEW p \in Processes
    PROVE  LET q == [p EXCEPT !.life = "gone", !.answers = <<>>] IN
           /\ q \in Processes
           /\ q.life = "gone" /\ q.inbox = p.inbox
           /\ q.running = p.running /\ q.answers = <<>>
<1>1. <<>> \in Seq(Calls)
  OBVIOUS
<1>2. QED  BY <1>1, Zenon DEF Processes

\* What an answer changes in a process.
LEMMA Answered ==
    ASSUME NEW p \in Processes, NEW a \in Seq(Calls)
    PROVE  LET q == [p EXCEPT !.running = None, !.answers = a] IN
           /\ q \in Processes
           /\ q.life = p.life /\ q.inbox = p.inbox
           /\ q.running = None /\ q.answers = a
<1>1. None \in Calls \cup {None}
  OBVIOUS
<1>2. QED  BY <1>1, Zenon DEF Processes

\* What its exit changes in a process.
LEMMA Died ==
    ASSUME NEW p \in Processes
    PROVE  LET q == [p EXCEPT !.life = "dead", !.inbox = <<>>, !.running = None] IN
           /\ q \in Processes
           /\ q.life = "dead" /\ q.inbox = <<>>
           /\ q.running = None /\ q.answers = p.answers
<1>1. None \in Calls \cup {None} /\ <<>> \in Seq(Frames)
  OBVIOUS
<1>2. QED  BY <1>1, Zenon DEF Processes

-----------------------------------------------------------------------------
(* Where the requests are *)

\* The places of the request of c in a session and its process: in the write queue,
\* in the sidecar's queue, running, or answered and not yet read.
InPlaces(r, p, c) ==
    CountOf(r.writes, {Request(c)}) + CountOf(p.inbox, {Request(c)})
        + (IF p.running = c THEN 1 ELSE 0) + CountOf(p.answers, {c})

InSession(s, c) == InPlaces(session[s], sidecar[s], c)

\* The shutdown frames under way.
ShutdownsIn(r, p) == CountOf(r.writes, {Shutdown}) + CountOf(p.inbox, {Shutdown})

\* A request is only in the session its call was registered with.
RequestsAreOwned ==
    \A c \in Calls, s \in Sessions : owner[c] # s => InSession(s, c) = 0

OneRequestEach == \A c \in Calls, s \in Sessions : InSession(s, c) <= 1

\* A call that was not made yet belongs to no session.
IdleIsUnowned == \A c \in Calls : call[c] = "idle" => owner[c] = None

PendingIsOwned ==
    \A c \in Calls : call[c] = "pending" =>
        /\ owner[c] # None /\ listed = owner[c]
        /\ InSession(owner[c], c) = 1 \/ sidecar[owner[c]].life = "dead"

\* The host writes nothing but these frames, and a shutdown only to a session that
\* it has stopped.
FramesAreSent ==
    \A s \in Sessions :
        session[s].writes \in Seq(SentFrames) /\ sidecar[s].inbox \in Seq(SentFrames)

ShutdownsAreStopped ==
    \A s \in Sessions :
        session[s].stopping \/ ShutdownsIn(session[s], sidecar[s]) = 0

\* The session in the map is not stopping.
ListedIsOpen == listed # None => ~session[listed].stopping

\* A session that was not opened yet is as it was at the start.
UnopenedIsUnused ==
    \A s \in Sessions : sidecar[s].life = "none" =>
        listed # s /\ ~session[s].stopping /\ session[s].writes = <<>>

CallsInv ==
    /\ TypeOK
    /\ RequestsAreOwned
    /\ OneRequestEach
    /\ IdleIsUnowned
    /\ PendingIsOwned
    /\ FramesAreSent
    /\ ShutdownsAreStopped
    /\ ListedIsOpen
    /\ UnopenedIsUnused

\* The counts of the places of a call are numbers.
LEMMA PlacesAreNumbers ==
    ASSUME NEW r \in SessionRecords, NEW p \in Processes, NEW c
    PROVE  /\ InPlaces(r, p, c) \in Nat /\ ShutdownsIn(r, p) \in Nat
           /\ CountOf(r.writes, {Request(c)}) \in Nat
           /\ CountOf(p.inbox, {Request(c)}) \in Nat
           /\ CountOf(p.answers, {c}) \in Nat
           /\ CountOf(r.writes, {Shutdown}) \in Nat
           /\ CountOf(p.inbox, {Shutdown}) \in Nat
<1>1. /\ r.writes \in Seq(Frames) /\ p.inbox \in Seq(Frames) /\ p.answers \in Seq(Calls)
  BY SessionUpdates, ProcessFields
<1>2. /\ CountOf(r.writes, {Request(c)}) \in Nat
      /\ CountOf(p.inbox, {Request(c)}) \in Nat
      /\ CountOf(p.answers, {c}) \in Nat
      /\ CountOf(r.writes, {Shutdown}) \in Nat
      /\ CountOf(p.inbox, {Shutdown}) \in Nat
  BY <1>1, CountType
<1>3. QED  BY <1>2 DEF InPlaces, ShutdownsIn

\* So is the count of shutdown frames.
LEMMA ShutdownsAreNumbers ==
    ASSUME NEW r \in SessionRecords, NEW p \in Processes
    PROVE  ShutdownsIn(r, p) \in Nat
BY PlacesAreNumbers

\* The initial state satisfies the invariant.
LEMMA CallsInit == Init => CallsInv
<1> SUFFICES ASSUME Init PROVE CallsInv
  OBVIOUS
<1>1. TypeOK
  <2>1. <<>> \in Seq(Frames) /\ <<>> \in Seq(Calls) /\ None \in Calls \cup {None}
    OBVIOUS
  <2>2. session \in [Sessions -> SessionRecords]
    BY <2>1, Zenon DEF Init, SessionRecords
  <2>3. sidecar \in [Sessions -> Processes]
    BY <2>1, Zenon DEF Init, Processes
  <2>4. \A s \in Sessions : Len(session[s].writes) <= MaxQueuedWrites
    <3>1. \A s \in Sessions : session[s].writes = <<>>
      BY Zenon DEF Init
    <3>2. QED  BY <3>1, CallsAssumption
  <2>5. QED  BY <2>2, <2>3, <2>4 DEF Init, TypeOK, Outcomes, SessionRecords
<1>2. \A s \in Sessions : /\ session[s].writes = <<>> /\ sidecar[s].inbox = <<>>
                          /\ sidecar[s].running = None /\ sidecar[s].answers = <<>>
  BY Zenon DEF Init
<1>3. \A s \in Sessions, c \in Calls : InSession(s, c) = 0
  BY <1>2, CountEmpty, CallsAssumption DEF InSession, InPlaces
<1>4. \A s \in Sessions : ShutdownsIn(session[s], sidecar[s]) = 0
  BY <1>2, CountEmpty DEF ShutdownsIn
<1>5. FramesAreSent
  <2>1. <<>> \in Seq(SentFrames)
    OBVIOUS
  <2>2. QED  BY <1>2, <2>1, Zenon DEF FramesAreSent
<1>6. /\ \A c \in Calls : call[c] = "idle" /\ owner[c] = None
      /\ listed = None
  BY Zenon DEF Init
<1>7. UnopenedIsUnused
  <2>1. \A s \in Sessions : ~session[s].stopping
    BY Zenon DEF Init
  <2>2. listed \notin Sessions
    BY <1>6, CallsAssumption DEF Sessions
  <2>3. QED  BY <1>2, <2>1, <2>2 DEF UnopenedIsUnused
<1>8. QED
  BY <1>1, <1>3, <1>4, <1>5, <1>6, <1>7
     DEF CallsInv, RequestsAreOwned, OneRequestEach, IdleIsUnowned, PendingIsOwned,
         ShutdownsAreStopped, ListedIsOpen

\* A step inside one session that brings in no request, and that ends every call
\* whose request it drops, keeps the invariant.
LEMMA CallsShrink ==
    ASSUME CallsInv, TypeOK', NEW s \in Sessions,
           \A r \in Sessions : r # s => session'[r] = session[r] /\ sidecar'[r] = sidecar[r],
           session'[s].writes \in Seq(SentFrames), sidecar'[s].inbox \in Seq(SentFrames),
           session[s].stopping => session'[s].stopping,
           \/ session'[s].stopping
           \/ ShutdownsIn(session'[s], sidecar'[s]) <= ShutdownsIn(session[s], sidecar[s]),
           listed' \in {listed, None},
           listed' = s => session'[s].stopping = session[s].stopping,
           sidecar'[s].life = "none" =>
               sidecar[s].life = "none" /\ session'[s] = session[s],
           UNCHANGED owner,
           \A c \in Calls : InPlaces(session'[s], sidecar'[s], c) <= InSession(s, c),
           \A c \in Calls : call'[c] = "idle" => call[c] = "idle",
           \A c \in Calls : call'[c] = "pending" =>
               /\ call[c] = "pending" /\ listed' = listed
               /\ owner[c] = s =>
                     \/ sidecar'[s].life = "dead"
                     \/ /\ InPlaces(session'[s], sidecar'[s], c) = InSession(s, c)
                        /\ sidecar'[s].life = sidecar[s].life
    PROVE  CallsInv'
<1>1. \A r \in Sessions : /\ session[r] \in SessionRecords /\ session'[r] \in SessionRecords
                          /\ sidecar[r] \in Processes /\ sidecar'[r] \in Processes
  BY DEF CallsInv, TypeOK, SessionRecords
<1>2. \A r \in Sessions, c \in Calls :
          /\ InSession(r, c) \in Nat
          /\ InPlaces(session'[r], sidecar'[r], c) \in Nat
          /\ InPlaces(session'[r], sidecar'[r], c) <= InSession(r, c)
          /\ r # s => InPlaces(session'[r], sidecar'[r], c) = InSession(r, c)
  <2> SUFFICES ASSUME NEW r \in Sessions, NEW c \in Calls
               PROVE  /\ InSession(r, c) \in Nat
                      /\ InPlaces(session'[r], sidecar'[r], c) \in Nat
                      /\ InPlaces(session'[r], sidecar'[r], c) <= InSession(r, c)
                      /\ r # s => InPlaces(session'[r], sidecar'[r], c) = InSession(r, c)
    OBVIOUS
  <2>1. InSession(r, c) \in Nat /\ InPlaces(session'[r], sidecar'[r], c) \in Nat
    BY <1>1, PlacesAreNumbers DEF InSession
  <2>2. r # s => InPlaces(session'[r], sidecar'[r], c) = InSession(r, c)
    BY DEF InSession
  <2>3. QED  BY <2>1, <2>2
<1>3. RequestsAreOwned' /\ OneRequestEach'
  <2> SUFFICES ASSUME NEW c \in Calls, NEW r \in Sessions
               PROVE  /\ owner[c] # r => InPlaces(session'[r], sidecar'[r], c) = 0
                      /\ InPlaces(session'[r], sidecar'[r], c) <= 1
    BY DEF RequestsAreOwned, OneRequestEach, InSession
  <2>1. (owner[c] # r => InSession(r, c) = 0) /\ InSession(r, c) <= 1
    BY DEF CallsInv, RequestsAreOwned, OneRequestEach
  <2>2. QED  BY <1>2, <2>1
<1>4. IdleIsUnowned'
  BY DEF CallsInv, IdleIsUnowned
<1>5. PendingIsOwned'
  <2> SUFFICES ASSUME NEW c \in Calls, call'[c] = "pending"
               PROVE  /\ owner[c] # None /\ listed' = owner[c]
                      /\ \/ InPlaces(session'[owner[c]], sidecar'[owner[c]], c) = 1
                         \/ sidecar'[owner[c]].life = "dead"
    BY DEF PendingIsOwned, InSession
  <2>1. /\ owner[c] # None /\ listed' = owner[c]
        /\ InSession(owner[c], c) = 1 \/ sidecar[owner[c]].life = "dead"
    BY DEF CallsInv, PendingIsOwned
  <2>2. owner[c] \in Sessions
    BY <2>1 DEF CallsInv, TypeOK
  <2>3. QED  BY <1>2, <2>1, <2>2
<1>6. FramesAreSent'
  BY DEF CallsInv, FramesAreSent
<1>7. ShutdownsAreStopped'
  <2> SUFFICES ASSUME NEW r \in Sessions
               PROVE  session'[r].stopping \/ ShutdownsIn(session'[r], sidecar'[r]) = 0
    BY DEF ShutdownsAreStopped
  <2>1. session[r].stopping \/ ShutdownsIn(session[r], sidecar[r]) = 0
    BY DEF CallsInv, ShutdownsAreStopped
  <2>2. /\ ShutdownsIn(session'[r], sidecar'[r]) \in Nat
        /\ ShutdownsIn(session[r], sidecar[r]) \in Nat
    BY <1>1, PlacesAreNumbers
  <2>3. QED  BY <2>1, <2>2
<1>8. ListedIsOpen'
  BY DEF CallsInv, ListedIsOpen, TypeOK
<1>9. UnopenedIsUnused'
  <2> SUFFICES ASSUME NEW r \in Sessions, sidecar'[r].life = "none"
               PROVE  /\ listed' # r /\ ~session'[r].stopping
                      /\ session'[r].writes = <<>>
    BY DEF UnopenedIsUnused
  <2>1. sidecar[r].life = "none" /\ session'[r] = session[r]
    OBVIOUS
  <2>2. listed # r /\ ~session[r].stopping /\ session[r].writes = <<>>
    BY <2>1 DEF CallsInv, UnopenedIsUnused
  <2>3. listed' # r
    BY <2>2, CallsAssumption DEF Sessions
  <2>4. QED  BY <2>1, <2>2, <2>3
<1>10. QED  BY <1>3, <1>4, <1>5, <1>6, <1>7, <1>8, <1>9 DEF CallsInv

\* The same, for a step that gives one session and its process new records.
StepsInside(s, r, p) ==
    /\ session' = [session EXCEPT ![s] = r]
    /\ sidecar' = [sidecar EXCEPT ![s] = p]
    /\ UNCHANGED owner
    /\ call' \in [Calls -> Outcomes]
    /\ listed' \in {listed, None}
    /\ Len(r.writes) <= MaxQueuedWrites
    /\ r.writes \in Seq(SentFrames) /\ p.inbox \in Seq(SentFrames)
    /\ session[s].stopping => r.stopping
    /\ r.stopping \/ ShutdownsIn(r, p) <= ShutdownsIn(session[s], sidecar[s])
    /\ listed' = s => r.stopping = session[s].stopping
    /\ p.life = "none" => sidecar[s].life = "none" /\ r = session[s]
    /\ \A c \in Calls : InPlaces(r, p, c) <= InSession(s, c)
    /\ \A c \in Calls : call'[c] = "idle" => call[c] = "idle"
    /\ \A c \in Calls : call'[c] = "pending" =>
          /\ call[c] = "pending" /\ listed' = listed
          /\ owner[c] = s =>
                \/ p.life = "dead"
                \/ InPlaces(r, p, c) = InSession(s, c) /\ p.life = sidecar[s].life

\* A step inside one session that respects its counts keeps the invariant.
LEMMA OneSessionStep ==
    ASSUME CallsInv, NEW s \in Sessions, NEW r \in SessionRecords, NEW p \in Processes,
           StepsInside(s, r, p)
    PROVE  CallsInv'
<1>1. /\ session'[s] = r /\ sidecar'[s] = p
      /\ \A q \in Sessions : q # s => session'[q] = session[q] /\ sidecar'[q] = sidecar[q]
  BY DEF CallsInv, TypeOK, StepsInside
<1>2. TypeOK'
  <2>1. session' \in [Sessions -> SessionRecords] /\ sidecar' \in [Sessions -> Processes]
    BY DEF CallsInv, TypeOK, SessionRecords, StepsInside
  <2>2. \A q \in Sessions : Len(session'[q].writes) <= MaxQueuedWrites
    BY <1>1 DEF CallsInv, TypeOK, StepsInside
  <2>3. listed' \in Sessions \cup {None} /\ owner' \in [Calls -> Sessions \cup {None}]
    BY DEF CallsInv, TypeOK, StepsInside
  <2>4. QED  BY <2>1, <2>2, <2>3 DEF TypeOK, SessionRecords, StepsInside
<1>3. QED  BY <1>1, <1>2, CallsShrink DEF StepsInside

\* A session or a process that a step leaves alone.
LEMMA SameRecords ==
    ASSUME CallsInv, NEW s \in Sessions
    PROVE  /\ session[s] \in SessionRecords /\ sidecar[s] \in Processes
           /\ session = [session EXCEPT ![s] = session[s]]
           /\ sidecar = [sidecar EXCEPT ![s] = sidecar[s]]
           /\ Len(session[s].writes) <= MaxQueuedWrites
           /\ session[s].writes \in Seq(SentFrames) /\ sidecar[s].inbox \in Seq(SentFrames)
           /\ sidecar[s].running \in Calls \cup {None} /\ sidecar[s].answers \in Seq(Calls)
           /\ session[s].stopping \in BOOLEAN
           /\ \A c : InSession(s, c) \in Nat
           /\ ShutdownsIn(session[s], sidecar[s]) \in Nat
<1>1. session[s] \in SessionRecords /\ sidecar[s] \in Processes
  BY DEF CallsInv, TypeOK, SessionRecords
<1>2. \A c : InSession(s, c) \in Nat
  BY <1>1, PlacesAreNumbers DEF InSession
<1>3. sidecar[s].running \in Calls \cup {None} /\ sidecar[s].answers \in Seq(Calls)
  BY <1>1, ProcessFields
<1>4. session[s].stopping \in BOOLEAN
  BY <1>1, SessionUpdates
<1>5. ShutdownsIn(session[s], sidecar[s]) \in Nat
  BY <1>1, ShutdownsAreNumbers
<1>6. QED  BY <1>1, <1>2, <1>3, <1>4, <1>5 DEF CallsInv, TypeOK, FramesAreSent

\* Ending the calls in flight of a session leaves none of its calls pending.
LEMMA FailEnds ==
    ASSUME CallsInv, NEW s \in Sessions, NEW o \in Outcomes \ {"idle", "pending"}
    PROVE  /\ Fail(s, o) \in [Calls -> Outcomes]
           /\ \A c \in Calls : Fail(s, o)[c] = "idle" => call[c] = "idle"
           /\ \A c \in Calls : Fail(s, o)[c] = "pending" =>
                 call[c] = "pending" /\ owner[c] # s /\ listed # s /\ listed # None
<1>1. \A c \in Calls : call[c] = "pending" => listed = owner[c] /\ owner[c] # None
  BY DEF CallsInv, PendingIsOwned
<1>2. QED  BY <1>1 DEF Fail, InFlight, CallsInv, TypeOK, Outcomes

\* A session that is stopping, or not the listed one, has no call in flight.
LEMMA OnlyListedHasCalls ==
    ASSUME CallsInv, NEW c \in Calls, call[c] = "pending"
    PROVE  /\ owner[c] \in Sessions /\ listed = owner[c]
           /\ ~session[owner[c]].stopping /\ sidecar[owner[c]].life # "none"
BY DEF CallsInv, PendingIsOwned, ListedIsOpen, UnopenedIsUnused, TypeOK

\* A process with the queues that the one of the session has.
SameQueues(p, s) ==
    /\ p.inbox = sidecar[s].inbox /\ p.running = sidecar[s].running
    /\ p.answers = sidecar[s].answers /\ p.life = sidecar[s].life

\* A frame that is no request, at the end of the write queue.
LEMMA EnqueueCounts ==
    ASSUME CallsInv, NEW s \in Sessions, Room(s), NEW f \in SentFrames,
           f.type # "request", NEW r \in SessionRecords, NEW p \in Processes,
           r.writes = Append(session[s].writes, f), SameQueues(p, s)
    PROVE  /\ r.writes \in Seq(SentFrames) /\ Len(r.writes) <= MaxQueuedWrites
           /\ \A c \in Calls : InPlaces(r, p, c) = InSession(s, c)
           /\ f.type # "shutdown" => ShutdownsIn(r, p) = ShutdownsIn(session[s], sidecar[s])
<1>1. session[s].writes \in Seq(SentFrames)
  BY SameRecords
<1>2. r.writes \in Seq(SentFrames) /\ Len(r.writes) <= MaxQueuedWrites
  BY <1>1, CallsAssumption DEF Room
<1>3. ASSUME NEW c \in Calls PROVE InPlaces(r, p, c) = InSession(s, c)
  <2>1. f \notin {Request(c)}
    BY RequestFrames
  <2>2. CountOf(r.writes, {Request(c)}) = CountOf(session[s].writes, {Request(c)})
    <3>1. CountOf(Append(session[s].writes, f), {Request(c)})
            = CountOf(session[s].writes, {Request(c)}) + 0
      BY <1>1, <2>1, CountAppend
    <3>2. CountOf(session[s].writes, {Request(c)}) \in Nat
      BY <1>1, CountType
    <3>3. QED  BY <3>1, <3>2
  <2>3. QED  BY <2>2 DEF InPlaces, InSession, SameQueues
<1>4. ASSUME f.type # "shutdown"
      PROVE  ShutdownsIn(r, p) = ShutdownsIn(session[s], sidecar[s])
  <2>1. f \notin {Shutdown}
    BY <1>4, RequestFrames
  <2>2. CountOf(Append(session[s].writes, f), {Shutdown})
          = CountOf(session[s].writes, {Shutdown}) + 0
    BY <1>1, <2>1, CountAppend
  <2>3. CountOf(session[s].writes, {Shutdown}) \in Nat
    BY <1>1, CountType
  <2>4. QED  BY <2>2, <2>3 DEF ShutdownsIn, SameQueues
<1>5. QED  BY <1>2, <1>3, <1>4

-----------------------------------------------------------------------------
(* Calls that are withdrawn, sessions that are stopped *)

\* What appending to a write queue, stopping a session and killing a process do to
\* their records.
LEMMA Enqueued ==
    ASSUME CallsInv, NEW s \in Sessions, NEW f \in SentFrames, Enqueue(s, f)
    PROVE  \E r \in SessionRecords :
              /\ session' = [session EXCEPT ![s] = r]
              /\ r.writes = Append(session[s].writes, f)
              /\ r.stopping = session[s].stopping
<1>1. session[s] \in SessionRecords
  BY SameRecords
<1>2. PICK w \in Seq(Frames) : w = Append(session[s].writes, f)
  <2>1. session[s].writes \in Seq(Frames) /\ f \in Frames
    BY <1>1, SessionUpdates, FramesAreTyped
  <2>2. Append(session[s].writes, f) \in Seq(Frames)
    BY <2>1
  <2>3. QED  BY <2>2
<1>3. PICK q \in SessionRecords : q = [session[s] EXCEPT !.writes = w]
  BY <1>1, SessionUpdates
<1>4. q.writes = w /\ q.stopping = session[s].stopping
  BY <1>1, <1>3, SessionUpdates
<1>5. session' = [session EXCEPT ![s] = q]
  BY <1>2, <1>3, Zenon DEF Enqueue
<1>6. QED  BY <1>2, <1>4, <1>5

\* Marking a session as stopping leaves its writes alone.
LEMMA Stopped ==
    ASSUME CallsInv, NEW s \in Sessions, session' = [session EXCEPT ![s].stopping = TRUE]
    PROVE  \E r \in SessionRecords :
              /\ session' = [session EXCEPT ![s] = r]
              /\ r.writes = session[s].writes /\ r.stopping
<1>1. session[s] \in SessionRecords
  BY SameRecords
<1>2. PICK q \in SessionRecords : q = [session[s] EXCEPT !.stopping = TRUE]
  BY <1>1, SessionUpdates
<1>3. q.writes = session[s].writes /\ q.stopping
  BY <1>1, <1>2, SessionUpdates
<1>4. session' = [session EXCEPT ![s] = q]
  BY <1>2, Zenon
<1>5. QED  BY <1>3, <1>4

\* Killing a process leaves its queues alone.
LEMMA KilledProcess ==
    ASSUME CallsInv, NEW s \in Sessions, sidecar' = [sidecar EXCEPT ![s].killed = TRUE]
    PROVE  \E p \in Processes : sidecar' = [sidecar EXCEPT ![s] = p] /\ SameQueues(p, s)
<1>1. sidecar[s] \in Processes
  BY SameRecords
<1>2. PICK q \in Processes : q = [sidecar[s] EXCEPT !.killed = TRUE]
  BY <1>1, Killed
<1>3. q.inbox = sidecar[s].inbox /\ q.running = sidecar[s].running
      /\ q.answers = sidecar[s].answers /\ q.life = sidecar[s].life
  BY <1>1, <1>2, Killed
<1>4. sidecar' = [sidecar EXCEPT ![s] = q]
  BY <1>2, Zenon
<1>5. QED  BY <1>3, <1>4 DEF SameQueues

\* A step that withdraws one call and announces it.
LEMMA WithdrawKeeps ==
    ASSUME CallsInv, NEW c \in Calls, NEW ends \in BOOLEAN, NEW s \in Sessions,
           NEW o \in Outcomes \ {"idle", "pending"},
           call' = [call EXCEPT ![c] = o], UNCHANGED <<owner, sidecar, listed>>,
           \/ Room(s) /\ Enqueue(s, Cancel(c, ends)) /\ sidecar[s].life # "none"
           \/ UNCHANGED session
    PROVE  CallsInv'
<1>1. /\ call' \in [Calls -> Outcomes]
      /\ \A d \in Calls : call'[d] = "idle" => call[d] = "idle"
      /\ \A d \in Calls : call'[d] = "pending" => call[d] = "pending"
  BY DEF CallsInv, TypeOK, Outcomes
<1>2. sidecar' = [sidecar EXCEPT ![s] = sidecar[s]]
  BY SameRecords
<1>3. CASE Room(s) /\ Enqueue(s, Cancel(c, ends)) /\ sidecar[s].life # "none"
  <2>1. PICK f \in SentFrames : f = Cancel(c, ends) /\ f.type = "cancel"
    BY FrameFields DEF SentFrames
  <2>2. PICK r \in SessionRecords :
            /\ session' = [session EXCEPT ![s] = r]
            /\ r.writes = Append(session[s].writes, f)
            /\ r.stopping = session[s].stopping
    BY <1>3, <2>1, Enqueued
  <2>3. /\ r.writes \in Seq(SentFrames) /\ Len(r.writes) <= MaxQueuedWrites
        /\ \A d \in Calls : InPlaces(r, sidecar[s], d) = InSession(s, d)
        /\ ShutdownsIn(r, sidecar[s]) = ShutdownsIn(session[s], sidecar[s])
    <3>1. sidecar[s] \in Processes /\ SameQueues(sidecar[s], s)
      BY SameRecords DEF SameQueues
    <3>2. f.type # "request" /\ f.type # "shutdown" /\ Room(s)
      BY <1>3, <2>1
    <3>3. QED  BY <2>2, <3>1, <3>2, EnqueueCounts
  <2>4. /\ \A d \in Calls : InPlaces(r, sidecar[s], d) <= InSession(s, d)
        /\ ShutdownsIn(r, sidecar[s]) <= ShutdownsIn(session[s], sidecar[s])
    BY <2>3, SameRecords
  <2>5. StepsInside(s, r, sidecar[s])
    BY <1>1, <1>2, <1>3, <2>2, <2>3, <2>4, SameRecords DEF StepsInside
  <2>6. QED  BY <2>5, SameRecords, OneSessionStep
<1>4. CASE UNCHANGED session
  <2>1. session' = [session EXCEPT ![s] = session[s]]
    BY <1>4, SameRecords
  <2>2. ShutdownsIn(session[s], sidecar[s]) <= ShutdownsIn(session[s], sidecar[s])
    BY SameRecords
  <2>3. /\ \A d \in Calls : InPlaces(session[s], sidecar[s], d) = InSession(s, d)
        /\ \A d \in Calls : InPlaces(session[s], sidecar[s], d) <= InSession(s, d)
    <3>1. \A d \in Calls : InPlaces(session[s], sidecar[s], d) = InSession(s, d)
      BY DEF InSession
    <3>2. QED  BY <3>1, SameRecords
  <2>4. StepsInside(s, session[s], sidecar[s])
    BY <1>1, <1>2, <2>1, <2>2, <2>3, SameRecords DEF StepsInside
  <2>5. QED  BY <2>4, SameRecords, OneSessionStep
<1>5. QED  BY <1>3, <1>4

\* The caller's abort keeps the invariant.
LEMMA AbortKeeps ==
    ASSUME CallsInv, NEW c \in Calls, CallerAborts(c)
    PROVE  CallsInv'
<1>1. PICK s \in Sessions : s = owner[c] /\ sidecar[s].life # "none"
  BY OnlyListedHasCalls DEF CallerAborts
<1>2. /\ call' = [call EXCEPT ![c] = "cancelled"]
      /\ UNCHANGED <<owner, sidecar, listed>>
      /\ (Room(s) /\ Enqueue(s, Cancel(c, FALSE))) \/ UNCHANGED session
  BY <1>1 DEF CallerAborts
<1>3. "cancelled" \in Outcomes \ {"idle", "pending"}
  BY DEF Outcomes
<1>4. QED  BY <1>1, <1>2, <1>3, WithdrawKeeps

\* Ending a session: its calls fail, no frame moves but a last one that may be
\* written, and its process may be killed.
LEMMA EndingKeeps ==
    ASSUME CallsInv, NEW s \in Sessions, NEW o \in Outcomes \ {"idle", "pending"},
           NEW r \in SessionRecords, NEW p \in Processes,
           session' = [session EXCEPT ![s] = r], sidecar' = [sidecar EXCEPT ![s] = p],
           call' = Fail(s, o), UNCHANGED owner,
           listed' = IF listed = s THEN None ELSE listed,
           r.stopping, p.life # "none",
           r.writes \in Seq(SentFrames), Len(r.writes) <= MaxQueuedWrites,
           p.inbox \in Seq(SentFrames),
           \A c \in Calls : InPlaces(r, p, c) <= InSession(s, c)
    PROVE  CallsInv'
<1>1. /\ call' \in [Calls -> Outcomes]
      /\ \A c \in Calls : call'[c] = "idle" => call[c] = "idle"
      /\ \A c \in Calls : call'[c] = "pending" =>
            call[c] = "pending" /\ owner[c] # s /\ listed # s
  BY FailEnds
<1>2. listed' \in {listed, None} /\ listed' # s
  BY CallsAssumption DEF Sessions
<1>3. \A c \in Calls : call'[c] = "pending" =>
          call[c] = "pending" /\ owner[c] # s /\ listed' = listed
  BY <1>1
<1>4. StepsInside(s, r, p)
  BY <1>1, <1>2, <1>3 DEF StepsInside
<1>5. QED  BY <1>4, OneSessionStep

\* ... its process killed, its frames left where they are.
LEMMA TerminateKeeps ==
    ASSUME CallsInv, NEW s \in Sessions, NEW o \in Outcomes \ {"idle", "pending"},
           session' = [session EXCEPT ![s].stopping = TRUE],
           sidecar' = [sidecar EXCEPT ![s].killed = TRUE],
           call' = Fail(s, o), UNCHANGED owner,
           listed' = IF listed = s THEN None ELSE listed,
           sidecar[s].life # "none"
    PROVE  CallsInv'
<1>1. PICK r \in SessionRecords : /\ session' = [session EXCEPT ![s] = r]
                                  /\ r.writes = session[s].writes /\ r.stopping
  BY Stopped
<1>2. PICK p \in Processes : sidecar' = [sidecar EXCEPT ![s] = p] /\ SameQueues(p, s)
  BY KilledProcess
<1>3. \A d \in Calls : InPlaces(r, p, d) <= InSession(s, d)
  <2>1. \A d \in Calls : InPlaces(r, p, d) = InSession(s, d)
    BY <1>1, <1>2 DEF InPlaces, InSession, SameQueues
  <2>2. QED  BY <2>1, SameRecords
<1>4. p.inbox \in Seq(SentFrames) /\ p.life # "none"
  BY <1>2, SameRecords DEF SameQueues
<1>5. QED  BY <1>1, <1>2, <1>3, <1>4, SameRecords, EndingKeeps

\* The timeout of a call keeps the invariant.
LEMMA TimerKeeps ==
    ASSUME CallsInv, NEW c \in Calls, TimerFires(c)
    PROVE  CallsInv'
<1>1. PICK s \in Sessions : s = owner[c] /\ sidecar[s].life # "none"
  BY OnlyListedHasCalls DEF TimerFires
<1>2. "timeout" \in Outcomes \ {"idle", "pending"}
  BY DEF Outcomes
<1>3. CASE Room(s)
  <2>1. /\ call' = [call EXCEPT ![c] = "timeout"]
        /\ Enqueue(s, Cancel(c, TRUE))
        /\ UNCHANGED <<owner, sidecar, listed>>
    BY <1>1, <1>3 DEF TimerFires
  <2>2. QED  BY <1>1, <1>2, <1>3, <2>1, WithdrawKeeps
<1>4. CASE ~Room(s)
  <2>1. /\ session' = [session EXCEPT ![s].stopping = TRUE]
        /\ sidecar' = [sidecar EXCEPT ![s].killed = TRUE]
        /\ call' = Fail(s, "timeout") /\ UNCHANGED owner
        /\ listed' = IF listed = s THEN None ELSE listed
    BY <1>1, <1>4, Zenon DEF TimerFires
  <2>2. QED  BY <1>1, <1>2, <2>1, TerminateKeeps
<1>5. QED  BY <1>3, <1>4

\* The stop of the session keeps the invariant.
LEMMA StopKeeps ==
    ASSUME CallsInv, StopSession
    PROVE  CallsInv'
<1>1. PICK s \in Sessions : s = listed /\ sidecar[s].life # "none"
  BY DEF StopSession, CallsInv, TypeOK, UnopenedIsUnused
<1>2. "failed" \in Outcomes \ {"idle", "pending"}
  BY DEF Outcomes
<1>3. /\ call' = Fail(s, "failed") /\ UNCHANGED owner
      /\ listed' = IF listed = s THEN None ELSE listed
      /\ session' = [session EXCEPT ![s] =
            [stopping |-> TRUE,
             writes |-> IF Room(s) THEN Append(@.writes, Shutdown) ELSE @.writes]]
      /\ sidecar' = IF Room(s) THEN sidecar ELSE [sidecar EXCEPT ![s].killed = TRUE]
  BY <1>1, Zenon DEF StopSession
<1>4. PICK f \in SentFrames : f = Shutdown /\ f.type = "shutdown"
  BY FrameFields DEF SentFrames
<1>5. session[s].writes \in Seq(Frames) /\ f \in Frames
  BY <1>4, SameRecords, SessionUpdates, FramesAreTyped
<1>6. CASE Room(s)
  <2>1. PICK w \in Seq(Frames) : w = Append(session[s].writes, f)
    <3>1. Append(session[s].writes, f) \in Seq(Frames)
      BY <1>5
    <3>2. QED  BY <3>1
  <2>2. PICK r \in SessionRecords : r = [stopping |-> TRUE, writes |-> w]
    BY Zenon DEF SessionRecords
  <2>3. r.stopping /\ r.writes = w
    BY <2>2, Zenon
  <2>4. session' = [session EXCEPT ![s] = r]
    BY <1>3, <1>4, <1>6, <2>1, <2>2, Zenon
  <2>5. sidecar' = [sidecar EXCEPT ![s] = sidecar[s]]
    BY <1>3, <1>6, SameRecords
  <2>6. /\ r.writes \in Seq(SentFrames) /\ Len(r.writes) <= MaxQueuedWrites
        /\ \A d \in Calls : InPlaces(r, sidecar[s], d) = InSession(s, d)
    <3>1. sidecar[s] \in Processes /\ SameQueues(sidecar[s], s)
      BY SameRecords DEF SameQueues
    <3>2. f.type # "request" /\ r.writes = Append(session[s].writes, f)
      BY <1>4, <2>1, <2>3
    <3>3. QED  BY <1>6, <3>1, <3>2, EnqueueCounts
  <2>7. \A d \in Calls : InPlaces(r, sidecar[s], d) <= InSession(s, d)
    BY <2>6, SameRecords
  <2>8. QED
    BY <1>1, <1>2, <1>3, <2>3, <2>4, <2>5, <2>6, <2>7, SameRecords, EndingKeeps
<1>7. CASE ~Room(s)
  <2>1. PICK r \in SessionRecords : r = [stopping |-> TRUE, writes |-> session[s].writes]
    BY <1>5, Zenon DEF SessionRecords
  <2>2. r.stopping /\ r.writes = session[s].writes
    BY <2>1, Zenon
  <2>3. session' = [session EXCEPT ![s] = r]
    BY <1>3, <1>7, <2>1, Zenon
  <2>4. sidecar' = [sidecar EXCEPT ![s].killed = TRUE]
    BY <1>3, <1>7, Zenon
  <2>5. PICK p \in Processes : sidecar' = [sidecar EXCEPT ![s] = p] /\ SameQueues(p, s)
    BY <2>4, KilledProcess
  <2>6. \A d \in Calls : InPlaces(r, p, d) <= InSession(s, d)
    <3>1. \A d \in Calls : InPlaces(r, p, d) = InSession(s, d)
      BY <2>2, <2>5 DEF InPlaces, InSession, SameQueues
    <3>2. QED  BY <3>1, SameRecords
  <2>7. p.inbox \in Seq(SentFrames) /\ p.life # "none"
    BY <1>1, <2>5, SameRecords DEF SameQueues
  <2>8. QED  BY <1>2, <1>3, <2>2, <2>3, <2>5, <2>6, <2>7, SameRecords, EndingKeeps
<1>8. QED  BY <1>6, <1>7

-----------------------------------------------------------------------------
(* Writes, answers, and the end of a process *)

\* A frame that goes from the head of one queue to the end of another, or is lost.
Moves(x, from, rest, to, new) ==
    /\ from # <<>> /\ x = Head(from) /\ rest = Tail(from)
    /\ new = to \/ new = Append(to, x)

\* Moving an element from one queue to another changes no sum of their counts, unless it is dropped.
LEMMA MovedCounts ==
    ASSUME NEW S, NEW from \in Seq(S), NEW to \in Seq(S), NEW rest \in Seq(S),
           NEW new \in Seq(S), NEW x \in S, Moves(x, from, rest, to, new), NEW V
    PROVE  /\ CountOf(rest, V) + CountOf(new, V) <= CountOf(from, V) + CountOf(to, V)
           /\ new = Append(to, x) \/ x \notin V =>
                 CountOf(rest, V) + CountOf(new, V) = CountOf(from, V) + CountOf(to, V)
<1>1. /\ CountOf(rest, V) \in Nat /\ CountOf(from, V) \in Nat
      /\ CountOf(to, V) \in Nat /\ CountOf(new, V) \in Nat
  BY CountType
<1>2. CountOf(from, V) = CountOf(rest, V) + (IF x \in V THEN 1 ELSE 0)
  BY CountTail DEF Moves
<1>3. CASE new = Append(to, x)
  <2>1. CountOf(Append(to, x), V) = CountOf(to, V) + (IF x \in V THEN 1 ELSE 0)
    BY CountAppend
  <2>2. CountOf(new, V) = CountOf(to, V) + (IF x \in V THEN 1 ELSE 0)
    BY <1>3, <2>1
  <2>3. QED  BY <1>1, <1>2, <2>2
<1>4. CASE new = to /\ new # Append(to, x)
  <2>1. CountOf(new, V) = CountOf(to, V)
    BY <1>4
  <2>2. QED  BY <1>1, <1>2, <1>4, <2>1
<1>5. QED  BY <1>3, <1>4 DEF Moves

\* What the end of a write leaves in the two queues.
LEMMA WrittenCounts ==
    ASSUME CallsInv, NEW s \in Sessions, session[s].writes # <<>>,
           NEW f, f = Head(session[s].writes),
           NEW r \in SessionRecords, r.writes = Tail(session[s].writes),
           NEW p \in Processes,
           p.inbox = sidecar[s].inbox \/ p.inbox = Append(sidecar[s].inbox, f),
           p.running = sidecar[s].running, p.answers = sidecar[s].answers
    PROVE  /\ f \in SentFrames
           /\ r.writes \in Seq(SentFrames) /\ Len(r.writes) <= MaxQueuedWrites
           /\ p.inbox \in Seq(SentFrames)
           /\ \A c \in Calls : InPlaces(r, p, c) <= InSession(s, c)
           /\ \A c \in Calls : p.inbox = Append(sidecar[s].inbox, f) \/ f # Request(c) =>
                 InPlaces(r, p, c) = InSession(s, c)
           /\ ShutdownsIn(r, p) <= ShutdownsIn(session[s], sidecar[s])
<1>1. session[s].writes \in Seq(SentFrames) /\ sidecar[s].inbox \in Seq(SentFrames)
  BY SameRecords
<1>2. f \in SentFrames
  BY <1>1
<1>3. r.writes \in Seq(SentFrames) /\ Len(r.writes) = Len(session[s].writes) - 1
  BY <1>1
<1>4. Len(r.writes) <= MaxQueuedWrites
  BY <1>1, <1>3, SameRecords, CallsAssumption
<1>5. p.inbox \in Seq(SentFrames)
  <2>1. Append(sidecar[s].inbox, f) \in Seq(SentFrames)
    BY <1>1, <1>2
  <2>2. QED  BY <1>1, <2>1
<1>6. ASSUME NEW V
      PROVE  /\ CountOf(r.writes, V) + CountOf(p.inbox, V)
                   <= CountOf(session[s].writes, V) + CountOf(sidecar[s].inbox, V)
             /\ p.inbox = Append(sidecar[s].inbox, f) \/ f \notin V =>
                   CountOf(r.writes, V) + CountOf(p.inbox, V)
                     = CountOf(session[s].writes, V) + CountOf(sidecar[s].inbox, V)
  <2>1. Moves(f, session[s].writes, r.writes, sidecar[s].inbox, p.inbox)
    BY DEF Moves
  <2>2. PICK from \in Seq(SentFrames), rest \in Seq(SentFrames) :
            from = session[s].writes /\ rest = r.writes
    BY <1>1, <1>3
  <2>3. PICK to \in Seq(SentFrames), new \in Seq(SentFrames) :
            to = sidecar[s].inbox /\ new = p.inbox
    BY <1>1, <1>5
  <2>4. Moves(f, from, rest, to, new)
    BY <2>1, <2>2, <2>3
  <2>5. /\ CountOf(rest, V) + CountOf(new, V) <= CountOf(from, V) + CountOf(to, V)
        /\ new = Append(to, f) \/ f \notin V =>
              CountOf(rest, V) + CountOf(new, V) = CountOf(from, V) + CountOf(to, V)
    BY <1>2, <2>4, MovedCounts
  <2>6. QED  BY <2>2, <2>3, <2>5
<1>7. ASSUME NEW c \in Calls
      PROVE  /\ InPlaces(r, p, c) <= InSession(s, c)
             /\ p.inbox = Append(sidecar[s].inbox, f) \/ f # Request(c) =>
                   InPlaces(r, p, c) = InSession(s, c)
  <2>1. /\ CountOf(r.writes, {Request(c)}) + CountOf(p.inbox, {Request(c)})
             <= CountOf(session[s].writes, {Request(c)})
                  + CountOf(sidecar[s].inbox, {Request(c)})
        /\ p.inbox = Append(sidecar[s].inbox, f) \/ f # Request(c) =>
             CountOf(r.writes, {Request(c)}) + CountOf(p.inbox, {Request(c)})
               = CountOf(session[s].writes, {Request(c)})
                  + CountOf(sidecar[s].inbox, {Request(c)})
    BY <1>6
  <2>2. /\ CountOf(r.writes, {Request(c)}) \in Nat /\ CountOf(p.inbox, {Request(c)}) \in Nat
        /\ CountOf(session[s].writes, {Request(c)}) \in Nat
        /\ CountOf(sidecar[s].inbox, {Request(c)}) \in Nat
        /\ CountOf(sidecar[s].answers, {c}) \in Nat
    BY SameRecords, PlacesAreNumbers
  <2>3. QED  BY <2>1, <2>2 DEF InPlaces, InSession
<1>8. ShutdownsIn(r, p) <= ShutdownsIn(session[s], sidecar[s])
  BY <1>6 DEF ShutdownsIn
<1>9. QED  BY <1>2, <1>3, <1>4, <1>5, <1>7, <1>8

\* What a write leaves of the processes: the one of the session may have been sent
\* a frame, which makes its queue i, and may have been killed as well.
Leaves(s, i, received, left) ==
    /\ \/ received = sidecar /\ i = sidecar[s].inbox
       \/ received = [sidecar EXCEPT ![s].inbox = i]
    /\ left = received \/ left = [received EXCEPT ![s].killed = TRUE]

\* Delivering a frame changes the inbox of one process.
LEMMA ReceivedProcess ==
    ASSUME CallsInv, NEW s \in Sessions, NEW i \in Seq(Frames), NEW received, NEW left,
           Leaves(s, i, received, left)
    PROVE  \E p \in Processes :
              /\ left = [sidecar EXCEPT ![s] = p]
              /\ p.inbox = i
              /\ p.running = sidecar[s].running /\ p.answers = sidecar[s].answers
              /\ p.life = sidecar[s].life
<1>1. sidecar[s] \in Processes /\ sidecar \in [Sessions -> Processes]
  BY SameRecords DEF CallsInv, TypeOK
<1>2. PICK q \in Processes :
          /\ received = [sidecar EXCEPT ![s] = q]
          /\ q.inbox = i
          /\ q.running = sidecar[s].running /\ q.answers = sidecar[s].answers
          /\ q.life = sidecar[s].life
  <2>1. CASE received = [sidecar EXCEPT ![s].inbox = i]
    <3>1. PICK q \in Processes : q = [sidecar[s] EXCEPT !.inbox = i]
      BY <1>1, Received
    <3>2. /\ q.inbox = i /\ q.running = sidecar[s].running
          /\ q.answers = sidecar[s].answers /\ q.life = sidecar[s].life
      BY <1>1, <3>1, Received
    <3>3. received = [sidecar EXCEPT ![s] = q]
      BY <2>1, <3>1, Zenon
    <3>4. QED  BY <3>2, <3>3
  <2>2. CASE received = sidecar /\ i = sidecar[s].inbox
    BY <1>1, <2>2, SameRecords
  <2>3. QED  BY <2>1, <2>2, Zenon DEF Leaves
<1>3. CASE left = [received EXCEPT ![s].killed = TRUE]
  <2>1. PICK p \in Processes : p = [q EXCEPT !.killed = TRUE]
    BY Killed
  <2>2. /\ p.inbox = q.inbox /\ p.running = q.running /\ p.answers = q.answers
        /\ p.life = q.life
    BY <2>1, Killed
  <2>3. left = [sidecar EXCEPT ![s] = p]
    <3>1. received[s] = q /\ received \in [Sessions -> Processes]
      BY <1>1, <1>2
    <3>2. left = [received EXCEPT ![s] = [received[s] EXCEPT !.killed = TRUE]]
      BY <1>3, Zenon
    <3>3. left = [received EXCEPT ![s] = p]
      BY <2>1, <3>1, <3>2, Zenon
    <3>4. QED  BY <1>1, <1>2, <3>1, <3>3
  <2>4. QED  BY <1>2, <2>2, <2>3
<1>4. CASE left = received
  BY <1>2, <1>4
<1>5. QED  BY <1>3, <1>4, Zenon DEF Leaves

\* The end of a write keeps the invariant.
LEMMA WriteKeeps ==
    ASSUME CallsInv, NEW s \in Sessions, NEW delivered \in BOOLEAN, NEW ok \in BOOLEAN,
           WriteEnds(s, delivered, ok)
    PROVE  CallsInv'
<1>1. session[s].writes # <<>> /\ (ok => delivered) /\ UNCHANGED owner
  BY DEF WriteEnds
<1>2. PICK f \in SentFrames : f = Head(session[s].writes)
  BY <1>1, SameRecords
<1>3. sidecar[s].life # "none"
  BY <1>1 DEF CallsInv, UnopenedIsUnused
<1>4. PICK w \in Seq(Frames) : w = Tail(session[s].writes)
  <2>1. session[s].writes \in Seq(Frames)
    BY SameRecords, SessionUpdates
  <2>2. Tail(session[s].writes) \in Seq(Frames)
    BY <1>1, <2>1
  <2>3. QED  BY <2>2
<1>5. PICK received :
        received = IF delivered THEN [sidecar EXCEPT ![s].inbox = Append(@, f)] ELSE sidecar
  OBVIOUS
<1>6. PICK i \in Seq(Frames) :
        /\ \/ received = sidecar /\ i = sidecar[s].inbox
           \/ received = [sidecar EXCEPT ![s].inbox = i] /\ i = Append(sidecar[s].inbox, f)
        /\ delivered => i = Append(sidecar[s].inbox, f)
  <2>1. sidecar[s].inbox \in Seq(Frames) /\ f \in Frames
    BY SameRecords, ProcessFields, FramesAreTyped
  <2>2. Append(sidecar[s].inbox, f) \in Seq(Frames)
    BY <2>1
  <2>3. CASE delivered
    <3>1. PICK i \in Seq(Frames) : i = Append(sidecar[s].inbox, f)
      BY <2>2
    <3>2. received = [sidecar EXCEPT ![s].inbox = i]
      BY <1>5, <2>3, <3>1, Zenon
    <3>3. QED  BY <3>1, <3>2
  <2>4. CASE ~delivered
    BY <1>5, <2>1, <2>4
  <2>5. QED  BY <2>3, <2>4
<1>7. CASE ~session[s].stopping /\ (f.ends \/ (f.type = "request" /\ ~ok))
  <2>1. /\ session' = [session EXCEPT ![s] = [stopping |-> TRUE, writes |-> w]]
        /\ call' = Fail(s, IF f.ends THEN "timeout" ELSE "failed")
        /\ listed' = IF listed = s THEN None ELSE listed
        /\ sidecar' = [received EXCEPT ![s].killed = TRUE]
    BY <1>2, <1>4, <1>5, <1>7, Zenon DEF WriteEnds
  <2>2. PICK r \in SessionRecords : r = [stopping |-> TRUE, writes |-> w]
    BY Zenon DEF SessionRecords
  <2>3. r.stopping /\ r.writes = w
    BY <2>2, Zenon
  <2>4. PICK p \in Processes :
          /\ sidecar' = [sidecar EXCEPT ![s] = p]
          /\ p.inbox = i
          /\ p.running = sidecar[s].running /\ p.answers = sidecar[s].answers
          /\ p.life = sidecar[s].life
    <3>1. Leaves(s, i, received, sidecar')
      BY <1>6, <2>1, Zenon DEF Leaves
    <3>2. QED  BY <3>1, ReceivedProcess
  <2>5. /\ r.writes \in Seq(SentFrames) /\ Len(r.writes) <= MaxQueuedWrites
        /\ p.inbox \in Seq(SentFrames)
        /\ \A c \in Calls : InPlaces(r, p, c) <= InSession(s, c)
    BY <1>1, <1>2, <1>4, <1>6, <2>3, <2>4, WrittenCounts
  <2>6. PICK o \in Outcomes \ {"idle", "pending"} : o = IF f.ends THEN "timeout" ELSE "failed"
    BY DEF Outcomes
  <2>7. session' = [session EXCEPT ![s] = r]
    BY <2>1, <2>2
  <2>8. QED  BY <1>1, <1>3, <2>1, <2>3, <2>4, <2>5, <2>6, <2>7, EndingKeeps
<1>8. CASE ~(~session[s].stopping /\ (f.ends \/ (f.type = "request" /\ ~ok)))
  <2>1. /\ session' = [session EXCEPT ![s].writes = w]
        /\ sidecar' = IF f.type = "shutdown" THEN [received EXCEPT ![s].killed = TRUE]
                      ELSE received
        /\ UNCHANGED <<call, listed>>
    BY <1>2, <1>4, <1>5, <1>8, Zenon DEF WriteEnds
  <2>2. PICK r \in SessionRecords : r = [session[s] EXCEPT !.writes = w]
    BY SameRecords, SessionUpdates
  <2>3. r.stopping = session[s].stopping /\ r.writes = w
    BY <2>2, SameRecords, SessionUpdates
  <2>4. session' = [session EXCEPT ![s] = r]
    BY <2>1, <2>2, Zenon
  <2>5. PICK p \in Processes :
          /\ sidecar' = [sidecar EXCEPT ![s] = p]
          /\ p.inbox = i
          /\ p.running = sidecar[s].running /\ p.answers = sidecar[s].answers
          /\ p.life = sidecar[s].life
    <3>1. Leaves(s, i, received, sidecar')
      BY <1>6, <2>1, Zenon DEF Leaves
    <3>2. QED  BY <3>1, ReceivedProcess
  <2>6. /\ r.writes \in Seq(SentFrames) /\ Len(r.writes) <= MaxQueuedWrites
        /\ p.inbox \in Seq(SentFrames)
        /\ \A c \in Calls : InPlaces(r, p, c) <= InSession(s, c)
        /\ \A c \in Calls : p.inbox = Append(sidecar[s].inbox, f) \/ f # Request(c) =>
              InPlaces(r, p, c) = InSession(s, c)
        /\ ShutdownsIn(r, p) <= ShutdownsIn(session[s], sidecar[s])
    <3>1. /\ r.writes = Tail(session[s].writes)
          /\ p.inbox = sidecar[s].inbox \/ p.inbox = Append(sidecar[s].inbox, f)
      BY <1>4, <1>6, <2>3, <2>5
    <3>2. p.running = sidecar[s].running /\ p.answers = sidecar[s].answers
      BY <2>5
    <3>3. QED  BY <1>1, <1>2, <3>1, <3>2, WrittenCounts
  <2>7. ASSUME NEW c \in Calls, call[c] = "pending", owner[c] = s
        PROVE  InPlaces(r, p, c) = InSession(s, c)
    <3>1. ~session[s].stopping
      BY <2>7, OnlyListedHasCalls
    <3>2. f.type # "request" \/ delivered
      BY <1>1, <1>8, <3>1
    <3>3. p.inbox = Append(sidecar[s].inbox, f) \/ f # Request(c)
      BY <1>6, <2>5, <3>2, RequestFrames
    <3>4. QED  BY <2>6, <3>3
  <2>8. call' \in [Calls -> Outcomes] /\ listed' \in {listed, None} /\ p.life # "none"
    BY <1>3, <2>1, <2>5 DEF CallsInv, TypeOK
  <2>9. \A c \in Calls : call'[c] = "pending" =>
           /\ call[c] = "pending" /\ listed' = listed
           /\ owner[c] = s => InPlaces(r, p, c) = InSession(s, c) /\ p.life = sidecar[s].life
    BY <2>1, <2>5, <2>7
  <2>10. StepsInside(s, r, p)
    BY <1>1, <2>1, <2>3, <2>4, <2>5, <2>6, <2>8, <2>9 DEF StepsInside
  <2>11. QED  BY <2>10, OneSessionStep
<1>9. QED  BY <1>7, <1>8

\* What an inner step of the sidecar leaves of its process, the session untouched.
InnerStep(s, p) ==
    /\ sidecar' = [sidecar EXCEPT ![s] = p]
    /\ UNCHANGED <<call, owner, session, listed>>
    /\ p.inbox \in Seq(SentFrames)
    /\ p.life = "none" => sidecar[s].life = "none"
    /\ CountOf(p.inbox, {Shutdown}) <= CountOf(sidecar[s].inbox, {Shutdown})
    /\ \A c \in Calls : InPlaces(session[s], p, c) <= InSession(s, c)
    /\ \A c \in Calls : call[c] = "pending" /\ owner[c] = s =>
          \/ p.life = "dead"
          \/ InPlaces(session[s], p, c) = InSession(s, c) /\ p.life = sidecar[s].life

\* A step of the process alone that respects its counts keeps the invariant.
LEMMA ProcessStep ==
    ASSUME CallsInv, NEW s \in Sessions, NEW p \in Processes, InnerStep(s, p)
    PROVE  CallsInv'
<1>1. session' = [session EXCEPT ![s] = session[s]]
  BY SameRecords DEF InnerStep
<1>2. ShutdownsIn(session[s], p) <= ShutdownsIn(session[s], sidecar[s])
  <2>1. /\ CountOf(session[s].writes, {Shutdown}) \in Nat
        /\ CountOf(sidecar[s].inbox, {Shutdown}) \in Nat
        /\ CountOf(p.inbox, {Shutdown}) \in Nat
    BY SameRecords, PlacesAreNumbers
  <2>2. QED  BY <2>1 DEF ShutdownsIn, InnerStep
<1>3. call' \in [Calls -> Outcomes] /\ listed' \in {listed, None}
  BY DEF CallsInv, TypeOK, InnerStep
<1>4. StepsInside(s, session[s], p)
  BY <1>1, <1>2, <1>3, SameRecords DEF StepsInside, InnerStep
<1>5. QED  BY <1>4, SameRecords, OneSessionStep

\* The read of an answer keeps the invariant.
LEMMA ReadKeeps ==
    ASSUME CallsInv, NEW s \in Sessions, HostReads(s)
    PROVE  CallsInv'
<1>1. sidecar[s] \in Processes /\ sidecar[s].answers \in Seq(Calls)
      /\ sidecar[s].answers # <<>>
  BY SameRecords DEF HostReads
<1>2. PICK c \in Calls : c = Head(sidecar[s].answers)
  BY <1>1
<1>3. PICK a \in Seq(Calls) : a = Tail(sidecar[s].answers)
  <2>1. Tail(sidecar[s].answers) \in Seq(Calls)
    BY <1>1
  <2>2. QED  BY <2>1
<1>4. PICK p \in Processes : p = [sidecar[s] EXCEPT !.answers = a]
  BY <1>1, Read
<1>5. /\ p.inbox = sidecar[s].inbox /\ p.running = sidecar[s].running /\ p.answers = a
      /\ p.life = sidecar[s].life
  BY <1>1, <1>4, Read
<1>6. sidecar' = [sidecar EXCEPT ![s] = p]
  BY <1>3, <1>4, Zenon DEF HostReads
<1>7. /\ call' = IF c \in InFlight(s) THEN [call EXCEPT ![c] = "answered"]
                 ELSE Fail(s, "wrong_id")
      /\ UNCHANGED <<owner, session, listed>>
  BY <1>2 DEF HostReads
<1>8. ASSUME NEW d \in Calls
      PROVE  /\ InPlaces(session[s], p, d) <= InSession(s, d)
             /\ d # c => InPlaces(session[s], p, d) = InSession(s, d)
  <2>1. CountOf(sidecar[s].answers, {d}) = CountOf(a, {d}) + (IF c \in {d} THEN 1 ELSE 0)
    BY <1>1, <1>2, <1>3, CountTail
  <2>2. /\ CountOf(session[s].writes, {Request(d)}) \in Nat
        /\ CountOf(sidecar[s].inbox, {Request(d)}) \in Nat
        /\ CountOf(a, {d}) \in Nat /\ CountOf(sidecar[s].answers, {d}) \in Nat
    BY <1>1, SameRecords, PlacesAreNumbers, CountType
  <2>3. QED  BY <1>5, <2>1, <2>2 DEF InPlaces, InSession
<1>9. /\ call' \in [Calls -> Outcomes]
      /\ \A d \in Calls : call'[d] = "idle" => call[d] = "idle"
      /\ \A d \in Calls : call'[d] = "pending" => call[d] = "pending" /\ (owner[d] = s => d # c)
  <2>1. CASE c \in InFlight(s)
    BY <1>7, <2>1 DEF CallsInv, TypeOK, Outcomes
  <2>2. CASE c \notin InFlight(s)
    <3>1. "wrong_id" \in Outcomes \ {"idle", "pending"} /\ call' = Fail(s, "wrong_id")
      BY <1>7, <2>2 DEF Outcomes
    <3>2. QED  BY <3>1, FailEnds
  <2>3. QED  BY <2>1, <2>2
<1>10. session' = [session EXCEPT ![s] = session[s]] /\ p.inbox \in Seq(SentFrames)
  BY <1>5, <1>7, SameRecords
<1>11. ShutdownsIn(session[s], p) <= ShutdownsIn(session[s], sidecar[s])
  <2>1. ShutdownsIn(session[s], p) = ShutdownsIn(session[s], sidecar[s])
    BY <1>5 DEF ShutdownsIn
  <2>2. QED  BY <2>1, SameRecords
<1>12. StepsInside(s, session[s], p)
  BY <1>5, <1>6, <1>7, <1>8, <1>9, <1>10, <1>11, SameRecords DEF StepsInside
<1>13. QED  BY <1>12, SameRecords, OneSessionStep

\* The notice of an exit keeps the invariant.
LEMMA ExitKeeps ==
    ASSUME CallsInv, NEW s \in Sessions, ExitNoticed(s)
    PROVE  CallsInv'
<1>1. sidecar[s] \in Processes /\ session[s] \in SessionRecords
  BY SameRecords
<1>2. PICK p \in Processes : p = [sidecar[s] EXCEPT !.life = "gone", !.answers = <<>>]
  BY <1>1, Buried
<1>3. /\ p.inbox = sidecar[s].inbox /\ p.running = sidecar[s].running /\ p.answers = <<>>
      /\ p.life = "gone"
  BY <1>1, <1>2, Buried
<1>4. sidecar' = [sidecar EXCEPT ![s] = p]
  BY <1>2, Zenon DEF ExitNoticed
<1>5. <<>> \in Seq(Frames) /\ <<>> \in Seq(SentFrames)
  OBVIOUS
<1>6. PICK w \in Seq(Frames) : w = <<>>
  BY <1>5
<1>7. PICK r \in SessionRecords : r = [session[s] EXCEPT !.writes = w]
  BY <1>1, SessionUpdates
<1>8. r.writes = <<>> /\ r.stopping = session[s].stopping
  BY <1>1, <1>6, <1>7, SessionUpdates
<1>9. session' = [session EXCEPT ![s] = r]
  BY <1>6, <1>7, Zenon DEF ExitNoticed
<1>10. /\ call' = Fail(s, "failed") /\ UNCHANGED owner
       /\ listed' = IF listed = s THEN None ELSE listed
  BY DEF ExitNoticed
<1>11. /\ call' \in [Calls -> Outcomes]
       /\ \A c \in Calls : call'[c] = "idle" => call[c] = "idle"
       /\ \A c \in Calls : call'[c] = "pending" =>
             call[c] = "pending" /\ owner[c] # s /\ listed # s
  <2>1. "failed" \in Outcomes \ {"idle", "pending"}
    BY DEF Outcomes
  <2>2. QED  BY <1>10, <2>1, FailEnds
<1>12. listed' \in {listed, None} /\ listed' # s
  BY <1>10, CallsAssumption DEF Sessions
<1>13. ASSUME NEW c \in Calls PROVE InPlaces(r, p, c) <= InSession(s, c)
  <2>1. /\ CountOf(session[s].writes, {Request(c)}) \in Nat
        /\ CountOf(sidecar[s].inbox, {Request(c)}) \in Nat
        /\ CountOf(sidecar[s].answers, {c}) \in Nat
    BY <1>1, PlacesAreNumbers
  <2>2. CountOf(r.writes, {Request(c)}) = 0 /\ CountOf(p.answers, {c}) = 0
    BY <1>3, <1>8, CountEmpty
  <2>3. QED  BY <1>3, <2>1, <2>2 DEF InPlaces, InSession
<1>14. ShutdownsIn(r, p) <= ShutdownsIn(session[s], sidecar[s])
  <2>1. /\ CountOf(session[s].writes, {Shutdown}) \in Nat
        /\ CountOf(sidecar[s].inbox, {Shutdown}) \in Nat
    BY <1>1, PlacesAreNumbers
  <2>2. CountOf(r.writes, {Shutdown}) = 0
    BY <1>8, CountEmpty
  <2>3. QED  BY <1>3, <2>1, <2>2 DEF ShutdownsIn
<1>15. Len(r.writes) <= MaxQueuedWrites
  BY <1>8, CallsAssumption
<1>16. StepsInside(s, r, p)
  BY <1>3, <1>4, <1>5, <1>8, <1>9, <1>10, <1>11, <1>12, <1>13, <1>14, <1>15, SameRecords
     DEF StepsInside
<1>17. QED  BY <1>16, OneSessionStep

\* A frame taken from the inbox keeps the invariant.
LEMMA TakeKeeps ==
    ASSUME CallsInv, NEW s \in Sessions, TakeFrame(s)
    PROVE  CallsInv'
<1>1. /\ sidecar[s] \in Processes /\ sidecar[s].inbox \in Seq(SentFrames)
      /\ sidecar[s].inbox # <<>> /\ sidecar[s].running = None
  BY SameRecords DEF TakeFrame
<1>2. PICK f \in SentFrames : f = Head(sidecar[s].inbox)
  BY <1>1
<1>3. PICK rest \in Seq(SentFrames) : rest = Tail(sidecar[s].inbox)
  <2>1. Tail(sidecar[s].inbox) \in Seq(SentFrames)
    BY <1>1
  <2>2. QED  BY <2>1
<1>4. PICK i \in Seq(SentFrames) : i = IF f.type = "shutdown" THEN <<>> ELSE rest
  <2>1. <<>> \in Seq(SentFrames)
    OBVIOUS
  <2>2. QED  BY <2>1
<1>5. PICK closed \in BOOLEAN : closed = (f.type = "shutdown")
  OBVIOUS
<1>6. PICK x \in Calls \cup {None} : x = IF f.type = "request" THEN f.call ELSE None
  BY RequestFrames
<1>7. i \in Seq(Frames)
  BY <1>4, FramesAreTyped
<1>8. PICK p \in Processes :
        /\ p = [sidecar[s] EXCEPT !.inbox = i, !.closed = closed, !.running = x]
        /\ p.life = sidecar[s].life /\ p.inbox = i
        /\ p.running = x /\ p.answers = sidecar[s].answers
  <2>1. PICK p : p = [sidecar[s] EXCEPT !.inbox = i, !.closed = closed, !.running = x]
    OBVIOUS
  <2>2. /\ p \in Processes /\ p.life = sidecar[s].life /\ p.inbox = i
        /\ p.running = x /\ p.answers = sidecar[s].answers
    BY <1>1, <1>7, <2>1, Zenon DEF Processes
  <2>3. QED  BY <2>1, <2>2
<1>9. /\ p.inbox = i /\ p.running = x /\ p.answers = sidecar[s].answers
      /\ p.life = sidecar[s].life
  BY <1>8
<1>10. /\ sidecar' = [sidecar EXCEPT ![s] = p]
       /\ UNCHANGED <<call, owner, session, listed>>
  BY <1>2, <1>3, <1>4, <1>5, <1>6, <1>8, Zenon DEF TakeFrame
<1>11. ASSUME NEW V
       PROVE  /\ CountOf(i, V) \in Nat /\ CountOf(sidecar[s].inbox, V) \in Nat
              /\ CountOf(i, V) <= CountOf(sidecar[s].inbox, V)
              /\ f \in V => CountOf(i, V) + 1 <= CountOf(sidecar[s].inbox, V)
              /\ f.type # "shutdown" =>
                    CountOf(sidecar[s].inbox, V) = CountOf(i, V) + (IF f \in V THEN 1 ELSE 0)
  <2>1. CountOf(sidecar[s].inbox, V) = CountOf(rest, V) + (IF f \in V THEN 1 ELSE 0)
    BY <1>1, <1>2, <1>3, CountTail
  <2>2. CountOf(rest, V) \in Nat /\ CountOf(i, V) \in Nat
    BY CountType
  <2>3. i = <<>> => CountOf(i, V) = 0
    BY CountEmpty
  <2>4. QED  BY <1>4, <2>1, <2>2, <2>3
<1>12. ASSUME NEW c \in Calls
       PROVE  /\ InPlaces(session[s], p, c) <= InSession(s, c)
              /\ f.type # "shutdown" => InPlaces(session[s], p, c) = InSession(s, c)
  <2>1. f \in {Request(c)} <=> x = c
    BY <1>6, RequestFrames, CallsAssumption
  <2>2. None # c
    BY CallsAssumption
  <2>3. /\ CountOf(session[s].writes, {Request(c)}) \in Nat
        /\ CountOf(sidecar[s].answers, {c}) \in Nat
    BY SameRecords, PlacesAreNumbers
  <2>4. /\ CountOf(i, {Request(c)}) \in Nat
        /\ CountOf(sidecar[s].inbox, {Request(c)}) \in Nat
        /\ CountOf(i, {Request(c)}) + (IF x = c THEN 1 ELSE 0)
              <= CountOf(sidecar[s].inbox, {Request(c)})
        /\ f.type # "shutdown" =>
              CountOf(i, {Request(c)}) + (IF x = c THEN 1 ELSE 0)
                = CountOf(sidecar[s].inbox, {Request(c)})
    BY <1>11, <2>1
  <2>5. QED  BY <1>1, <1>9, <2>2, <2>3, <2>4 DEF InPlaces, InSession
<1>13. f.type = "shutdown" => session[s].stopping
  <2>1. f.type = "shutdown" => f \in {Shutdown}
    BY RequestFrames
  <2>2. f.type = "shutdown" => CountOf(sidecar[s].inbox, {Shutdown}) # 0
    BY <1>11, <2>1
  <2>3. session[s].stopping \/ CountOf(sidecar[s].inbox, {Shutdown}) = 0
    <3>1. /\ CountOf(session[s].writes, {Shutdown}) \in Nat
          /\ CountOf(sidecar[s].inbox, {Shutdown}) \in Nat
      BY SameRecords, PlacesAreNumbers
    <3>2. session[s].stopping \/ ShutdownsIn(session[s], sidecar[s]) = 0
      BY DEF CallsInv, ShutdownsAreStopped
    <3>3. QED  BY <3>1, <3>2 DEF ShutdownsIn
  <2>4. QED  BY <2>2, <2>3
<1>14. \A c \in Calls : call[c] = "pending" /\ owner[c] = s =>
           InPlaces(session[s], p, c) = InSession(s, c) /\ p.life = sidecar[s].life
  BY <1>9, <1>12, <1>13, OnlyListedHasCalls
<1>15. CountOf(p.inbox, {Shutdown}) <= CountOf(sidecar[s].inbox, {Shutdown})
  BY <1>9, <1>11
<1>16. p.inbox \in Seq(SentFrames)
  BY <1>9
<1>17. InnerStep(s, p)
  BY <1>9, <1>10, <1>12, <1>14, <1>15, <1>16 DEF InnerStep
<1>18. QED  BY <1>17, ProcessStep

\* An answer keeps the invariant.
LEMMA AnswerKeeps ==
    ASSUME CallsInv, NEW s \in Sessions, Answer(s)
    PROVE  CallsInv'
<1>1. /\ sidecar[s] \in Processes /\ sidecar[s].answers \in Seq(Calls)
      /\ sidecar[s].inbox \in Seq(SentFrames) /\ sidecar[s].running \in Calls
  BY SameRecords DEF Answer
<1>2. PICK c \in Calls : c = sidecar[s].running
  BY <1>1
<1>3. PICK a \in Seq(Calls) : a = Append(sidecar[s].answers, c)
  <2>1. Append(sidecar[s].answers, c) \in Seq(Calls)
    BY <1>1
  <2>2. QED  BY <2>1
<1>4. PICK p \in Processes : p = [sidecar[s] EXCEPT !.running = None, !.answers = a]
  BY <1>1, Answered
<1>5. /\ p.inbox = sidecar[s].inbox /\ p.running = None /\ p.answers = a
      /\ p.life = sidecar[s].life
  BY <1>1, <1>4, Answered
<1>6. /\ sidecar' = [sidecar EXCEPT ![s] = p]
      /\ UNCHANGED <<call, owner, session, listed>>
  BY <1>2, <1>3, <1>4, Zenon DEF Answer
<1>7. ASSUME NEW d \in Calls
      PROVE  /\ InPlaces(session[s], p, d) = InSession(s, d)
             /\ InPlaces(session[s], p, d) <= InSession(s, d)
  <2>1. CountOf(a, {d}) = CountOf(sidecar[s].answers, {d}) + (IF c \in {d} THEN 1 ELSE 0)
    BY <1>1, <1>3, CountAppend
  <2>2. /\ CountOf(session[s].writes, {Request(d)}) \in Nat
        /\ CountOf(sidecar[s].inbox, {Request(d)}) \in Nat
        /\ CountOf(a, {d}) \in Nat /\ CountOf(sidecar[s].answers, {d}) \in Nat
    BY <1>1, SameRecords, PlacesAreNumbers, CountType
  <2>3. None # d
    BY CallsAssumption
  <2>4. QED  BY <1>2, <1>5, <2>1, <2>2, <2>3 DEF InPlaces, InSession
<1>8. CountOf(p.inbox, {Shutdown}) <= CountOf(sidecar[s].inbox, {Shutdown})
  BY <1>1, <1>5, CountType
<1>9. p.inbox \in Seq(SentFrames)
  BY <1>1, <1>5
<1>10. InnerStep(s, p)
  BY <1>5, <1>6, <1>7, <1>8, <1>9 DEF InnerStep
<1>11. QED  BY <1>10, ProcessStep

\* The exit of a process keeps the invariant.
LEMMA DeathKeeps ==
    ASSUME CallsInv, NEW s \in Sessions, Exits(s)
    PROVE  CallsInv'
<1>1. sidecar[s] \in Processes /\ sidecar[s].inbox \in Seq(SentFrames)
  BY SameRecords
<1>2. PICK p \in Processes :
        p = [sidecar[s] EXCEPT !.life = "dead", !.inbox = <<>>, !.running = None]
  BY <1>1, Died
<1>3. /\ p.inbox = <<>> /\ p.running = None /\ p.answers = sidecar[s].answers
      /\ p.life = "dead"
  BY <1>1, <1>2, Died
<1>4. /\ sidecar' = [sidecar EXCEPT ![s] = p]
      /\ UNCHANGED <<call, owner, session, listed>>
  BY <1>2, Zenon DEF Exits
<1>5. ASSUME NEW d \in Calls
      PROVE  InPlaces(session[s], p, d) <= InSession(s, d)
  <2>1. /\ CountOf(session[s].writes, {Request(d)}) \in Nat
        /\ CountOf(sidecar[s].inbox, {Request(d)}) \in Nat
        /\ CountOf(sidecar[s].answers, {d}) \in Nat
    BY SameRecords, PlacesAreNumbers
  <2>2. None # d /\ CountOf(p.inbox, {Request(d)}) = 0
    BY <1>3, CountEmpty, CallsAssumption
  <2>3. QED  BY <1>3, <2>1, <2>2 DEF InPlaces, InSession
<1>6. CountOf(p.inbox, {Shutdown}) <= CountOf(sidecar[s].inbox, {Shutdown})
  <2>1. CountOf(p.inbox, {Shutdown}) = 0
    BY <1>3, CountEmpty
  <2>2. QED  BY <1>1, <2>1, CountType
<1>7. p.inbox \in Seq(SentFrames)
  BY <1>3
<1>8. InnerStep(s, p)
  BY <1>3, <1>4, <1>5, <1>6, <1>7 DEF InnerStep
<1>9. QED  BY <1>8, ProcessStep

-----------------------------------------------------------------------------
(* New sessions and new calls *)

\* A new session keeps the invariant.
LEMMA OpenKeeps ==
    ASSUME CallsInv, Open
    PROVE  CallsInv'
<1>1. PICK s \in Sessions :
        /\ sidecar[s].life = "none" /\ sidecar' = [sidecar EXCEPT ![s].life = "alive"]
        /\ listed' = s
  BY DEF Open
<1>2. listed = None /\ UNCHANGED <<call, owner, session>>
  BY DEF Open
<1>3. sidecar[s] \in Processes
  BY SameRecords
<1>4. PICK p \in Processes : p = [sidecar[s] EXCEPT !.life = "alive"]
  BY <1>3, Started
<1>5. /\ p.life = "alive" /\ p.inbox = sidecar[s].inbox
      /\ p.running = sidecar[s].running /\ p.answers = sidecar[s].answers
  BY <1>3, <1>4, Started
<1>6. sidecar' = [sidecar EXCEPT ![s] = p]
  BY <1>1, <1>4, Zenon
<1>7. /\ sidecar'[s] = p /\ \A r \in Sessions : r # s => sidecar'[r] = sidecar[r]
      /\ sidecar' \in [Sessions -> Processes]
  BY <1>6 DEF CallsInv, TypeOK
<1>8. TypeOK'
  BY <1>1, <1>2, <1>7 DEF CallsInv, TypeOK
<1>9. \A r \in Sessions : /\ sidecar'[r].inbox = sidecar[r].inbox
                          /\ sidecar'[r].running = sidecar[r].running
                          /\ sidecar'[r].answers = sidecar[r].answers
  BY <1>5, <1>7
<1>10. ASSUME NEW r \in Sessions
       PROVE  /\ \A c : InPlaces(session'[r], sidecar'[r], c) = InSession(r, c)
              /\ ShutdownsIn(session'[r], sidecar'[r]) = ShutdownsIn(session[r], sidecar[r])
  BY <1>2, <1>9 DEF InPlaces, InSession, ShutdownsIn
<1>11. RequestsAreOwned' /\ OneRequestEach'
  BY <1>2, <1>10 DEF CallsInv, RequestsAreOwned, OneRequestEach, InSession
<1>12. IdleIsUnowned' /\ PendingIsOwned'
  <2>1. \A c \in Calls : call[c] # "pending"
    BY <1>2 DEF CallsInv, PendingIsOwned
  <2>2. QED  BY <1>2, <2>1 DEF CallsInv, IdleIsUnowned, PendingIsOwned
<1>13. FramesAreSent'
  BY <1>2, <1>9 DEF CallsInv, FramesAreSent
<1>14. ShutdownsAreStopped'
  BY <1>2, <1>10 DEF CallsInv, ShutdownsAreStopped
<1>15. ListedIsOpen'
  BY <1>1, <1>2 DEF CallsInv, UnopenedIsUnused, ListedIsOpen
<1>16. UnopenedIsUnused'
  BY <1>1, <1>2, <1>5, <1>7 DEF CallsInv, UnopenedIsUnused
<1>17. QED
  BY <1>8, <1>11, <1>12, <1>13, <1>14, <1>15, <1>16 DEF CallsInv

\* A call refused keeps the invariant.
LEMMA RefuseKeeps ==
    ASSUME CallsInv, NEW c \in Calls, Refuse(c)
    PROVE  CallsInv'
<1>1. 1 \in Sessions
  BY CallsAssumption DEF Sessions
<1>2. "failed" \in Outcomes \ {"idle", "pending"} /\ TRUE \in BOOLEAN
  BY DEF Outcomes
<1>3. /\ call' = [call EXCEPT ![c] = "failed"]
      /\ UNCHANGED <<owner, sidecar, listed>> /\ UNCHANGED session
  BY DEF Refuse
<1>4. QED  BY <1>1, <1>2, <1>3, WithdrawKeeps

\* A new call is registered with the listed session, which gets the record r, and
\* its process p: it is pending and its request is in the session, or it fails, and
\* with it the session.
Registers(c, s, r, p) ==
    /\ call[c] = "idle" /\ listed = s
    /\ session' = [session EXCEPT ![s] = r]
    /\ sidecar' = [sidecar EXCEPT ![s] = p]
    /\ owner' = [owner EXCEPT ![c] = s]
    /\ call' \in [Calls -> Outcomes]
    /\ r.writes \in Seq(SentFrames) /\ Len(r.writes) <= MaxQueuedWrites
    /\ p.inbox \in Seq(SentFrames) /\ p.life = sidecar[s].life
    /\ ShutdownsIn(r, p) = ShutdownsIn(session[s], sidecar[s])
    /\ \A d \in Calls : d # c => InPlaces(r, p, d) = InSession(s, d)
    /\ \A d \in Calls : call'[d] = "idle" => call[d] = "idle" /\ d # c
    /\ \A d \in Calls : call'[d] = "pending" => listed' = s /\ (d # c => call[d] = "pending")
    /\ \/ listed' = s /\ ~r.stopping /\ InPlaces(r, p, c) = 1
       \/ listed' = None /\ r.stopping /\ InPlaces(r, p, c) = 0

\* A call registered with a session keeps the invariant.
LEMMA RegisterKeeps ==
    ASSUME CallsInv, NEW c \in Calls, NEW s \in Sessions, NEW r \in SessionRecords,
           NEW p \in Processes, Registers(c, s, r, p)
    PROVE  CallsInv'
<1>1. /\ session'[s] = r /\ sidecar'[s] = p
      /\ \A q \in Sessions : q # s => session'[q] = session[q] /\ sidecar'[q] = sidecar[q]
      /\ owner'[c] = s /\ \A d \in Calls : d # c => owner'[d] = owner[d]
      /\ owner[c] = None /\ s # None /\ listed' \in {s, None}
  BY CallsAssumption DEF CallsInv, TypeOK, IdleIsUnowned, Registers, Sessions
<1>2. TypeOK'
  <2>1. session' \in [Sessions -> SessionRecords] /\ sidecar' \in [Sessions -> Processes]
    BY DEF CallsInv, TypeOK, SessionRecords, Registers
  <2>2. \A q \in Sessions : Len(session'[q].writes) <= MaxQueuedWrites
    BY <1>1 DEF CallsInv, TypeOK, Registers
  <2>3. listed' \in Sessions \cup {None} /\ owner' \in [Calls -> Sessions \cup {None}]
        /\ call' \in [Calls -> Outcomes]
    BY DEF CallsInv, TypeOK, Registers
  <2>4. QED  BY <2>1, <2>2, <2>3 DEF TypeOK, SessionRecords
<1>3. ASSUME NEW d \in Calls, NEW q \in Sessions
      PROVE  /\ InSession(q, d) \in Nat
             /\ d # c \/ q # s => InPlaces(session'[q], sidecar'[q], d) = InSession(q, d)
  <2>1. InSession(q, d) \in Nat
    BY SameRecords
  <2>2. CASE q = s
    BY <1>1, <2>1, <2>2 DEF Registers
  <2>3. CASE q # s
    BY <1>1, <2>1, <2>3 DEF InSession
  <2>4. QED  BY <2>2, <2>3
<1>4. /\ InPlaces(session'[s], sidecar'[s], c) \in {0, 1}
      /\ listed' = s => InPlaces(session'[s], sidecar'[s], c) = 1
  BY <1>1 DEF Registers
<1>5. RequestsAreOwned' /\ OneRequestEach'
  <2> SUFFICES ASSUME NEW d \in Calls, NEW q \in Sessions
               PROVE  /\ owner'[d] # q => InPlaces(session'[q], sidecar'[q], d) = 0
                      /\ InPlaces(session'[q], sidecar'[q], d) <= 1
    BY DEF RequestsAreOwned, OneRequestEach, InSession
  <2>1. (owner[d] # q => InSession(q, d) = 0) /\ InSession(q, d) <= 1
    BY DEF CallsInv, RequestsAreOwned, OneRequestEach
  <2>2. CASE d = c /\ q = s
    BY <1>1, <1>4, <2>2
  <2>3. CASE d # c \/ q # s
    <3>1. InPlaces(session'[q], sidecar'[q], d) = InSession(q, d)
      BY <1>3, <2>3
    <3>2. owner'[d] # q => owner[d] # q
      BY <1>1, CallsAssumption DEF Sessions
    <3>3. QED  BY <2>1, <3>1, <3>2
  <2>4. QED  BY <2>2, <2>3
<1>6. IdleIsUnowned'
  BY <1>1 DEF CallsInv, IdleIsUnowned, Registers
<1>7. PendingIsOwned'
  <2> SUFFICES ASSUME NEW d \in Calls, call'[d] = "pending"
               PROVE  /\ owner'[d] # None /\ listed' = owner'[d]
                      /\ \/ InPlaces(session'[owner'[d]], sidecar'[owner'[d]], d) = 1
                         \/ sidecar'[owner'[d]].life = "dead"
    BY DEF PendingIsOwned, InSession
  <2>1. listed' = s /\ (d # c => call[d] = "pending")
    BY DEF Registers
  <2>2. CASE d = c
    BY <1>1, <1>4, <2>1, <2>2
  <2>3. CASE d # c
    <3>1. /\ owner[d] = s
          /\ InSession(s, d) = 1 \/ sidecar[s].life = "dead"
      BY <2>1, <2>3 DEF CallsInv, PendingIsOwned, Registers
    <3>2. owner'[d] = s /\ p.life = sidecar[s].life
      BY <1>1, <2>3, <3>1 DEF Registers
    <3>3. QED  BY <1>1, <1>3, <2>1, <2>3, <3>1, <3>2
  <2>4. QED  BY <2>2, <2>3
<1>8. FramesAreSent'
  BY <1>1 DEF CallsInv, FramesAreSent, Registers
<1>9. ShutdownsAreStopped'
  <2> SUFFICES ASSUME NEW q \in Sessions
               PROVE  session'[q].stopping \/ ShutdownsIn(session'[q], sidecar'[q]) = 0
    BY DEF ShutdownsAreStopped
  <2>1. session[q].stopping \/ ShutdownsIn(session[q], sidecar[q]) = 0
    BY DEF CallsInv, ShutdownsAreStopped
  <2>2. ~session[s].stopping
    BY <1>1 DEF CallsInv, ListedIsOpen, Registers
  <2>3. CASE q = s
    BY <1>1, <2>1, <2>2, <2>3 DEF Registers
  <2>4. CASE q # s
    BY <1>1, <2>1, <2>4
  <2>5. QED  BY <2>3, <2>4
<1>10. ListedIsOpen'
  BY <1>1 DEF ListedIsOpen, Registers
<1>11. UnopenedIsUnused'
  <2>1. sidecar[s].life # "none" /\ p.life = sidecar[s].life
    BY <1>1 DEF CallsInv, UnopenedIsUnused, Registers
  <2>2. QED  BY <1>1, <2>1, CallsAssumption DEF CallsInv, UnopenedIsUnused, Sessions
<1>12. QED
  BY <1>2, <1>5, <1>6, <1>7, <1>8, <1>9, <1>10, <1>11 DEF CallsInv

\* A call invoked keeps the invariant.
LEMMA InvokeKeeps ==
    ASSUME CallsInv, NEW c \in Calls, Invoke(c)
    PROVE  CallsInv'
<1>1. PICK s \in Sessions : s = listed /\ ~session[s].stopping
  BY DEF Invoke, CallsInv, TypeOK, ListedIsOpen
<1>2. PICK f \in SentFrames : f = Request(c) /\ f.type = "request"
  BY FrameFields DEF SentFrames
<1>3. /\ call[c] = "idle" /\ Room(s) /\ Enqueue(s, f)
      /\ call' = [call EXCEPT ![c] = "pending"]
      /\ owner' = [owner EXCEPT ![c] = s] /\ UNCHANGED <<sidecar, listed>>
  BY <1>1, <1>2 DEF Invoke
<1>4. PICK r \in SessionRecords :
          /\ session' = [session EXCEPT ![s] = r]
          /\ r.writes = Append(session[s].writes, f)
          /\ r.stopping = session[s].stopping
  BY <1>3, Enqueued
<1>5. session[s].writes \in Seq(SentFrames)
  BY SameRecords
<1>6. r.writes \in Seq(SentFrames) /\ Len(r.writes) <= MaxQueuedWrites
  BY <1>3, <1>4, <1>5, CallsAssumption DEF Room
<1>7. ASSUME NEW d \in Calls
      PROVE  InPlaces(r, sidecar[s], d) = InSession(s, d) + (IF d = c THEN 1 ELSE 0)
  <2>1. CountOf(r.writes, {Request(d)})
          = CountOf(session[s].writes, {Request(d)}) + (IF f \in {Request(d)} THEN 1 ELSE 0)
    BY <1>4, <1>5, CountAppend
  <2>2. f \in {Request(d)} <=> d = c
    BY <1>2, RequestFrames
  <2>3. /\ CountOf(session[s].writes, {Request(d)}) \in Nat
        /\ CountOf(sidecar[s].inbox, {Request(d)}) \in Nat
        /\ CountOf(sidecar[s].answers, {d}) \in Nat
    BY SameRecords, PlacesAreNumbers
  <2>4. QED  BY <2>1, <2>2, <2>3 DEF InPlaces, InSession
<1>8. InSession(s, c) = 0
  <2>1. owner[c] = None
    BY <1>3 DEF CallsInv, IdleIsUnowned
  <2>2. owner[c] # s
    BY <2>1, CallsAssumption DEF Sessions
  <2>3. QED  BY <2>2 DEF CallsInv, RequestsAreOwned
<1>9. /\ \A d \in Calls : d # c => InPlaces(r, sidecar[s], d) = InSession(s, d)
      /\ InPlaces(r, sidecar[s], c) = 1
  BY <1>7, <1>8, SameRecords
<1>10. ShutdownsIn(r, sidecar[s]) = ShutdownsIn(session[s], sidecar[s])
  <2>1. f \notin {Shutdown}
    BY <1>2, FrameFields
  <2>2. CountOf(r.writes, {Shutdown}) = CountOf(session[s].writes, {Shutdown}) + 0
    BY <1>4, <1>5, <2>1, CountAppend
  <2>3. CountOf(session[s].writes, {Shutdown}) \in Nat
    BY <1>5, CountType
  <2>4. QED  BY <2>2, <2>3 DEF ShutdownsIn
<1>11. sidecar' = [sidecar EXCEPT ![s] = sidecar[s]]
  BY <1>3, SameRecords
<1>12. /\ call' \in [Calls -> Outcomes]
       /\ \A d \in Calls : call'[d] = "idle" => call[d] = "idle" /\ d # c
       /\ \A d \in Calls : call'[d] = "pending" => (d # c => call[d] = "pending")
  BY <1>3 DEF CallsInv, TypeOK, Outcomes
<1>13. Registers(c, s, r, sidecar[s])
  BY <1>1, <1>3, <1>4, <1>6, <1>9, <1>10, <1>11, <1>12, SameRecords DEF Registers
<1>14. QED  BY <1>13, SameRecords, RegisterKeeps

\* A call that overran its queue keeps the invariant.
LEMMA OverrunKeeps ==
    ASSUME CallsInv, NEW c \in Calls, Overrun(c)
    PROVE  CallsInv'
<1>1. PICK s \in Sessions : s = listed
  BY DEF Overrun, CallsInv, TypeOK
<1>2. /\ call[c] = "idle" /\ owner' = [owner EXCEPT ![c] = s]
      /\ session' = [session EXCEPT ![s].stopping = TRUE]
      /\ sidecar' = [sidecar EXCEPT ![s].killed = TRUE]
      /\ call' = [Fail(s, "failed") EXCEPT ![c] = "failed"]
      /\ listed' = None
  BY <1>1, Zenon DEF Overrun
<1>3. PICK r \in SessionRecords : /\ session' = [session EXCEPT ![s] = r]
                                  /\ r.writes = session[s].writes /\ r.stopping
  BY <1>2, Stopped
<1>4. PICK p \in Processes : sidecar' = [sidecar EXCEPT ![s] = p] /\ SameQueues(p, s)
  BY <1>2, KilledProcess
<1>5. /\ \A d \in Calls : InPlaces(r, p, d) = InSession(s, d)
      /\ ShutdownsIn(r, p) = ShutdownsIn(session[s], sidecar[s])
  BY <1>3, <1>4 DEF InPlaces, InSession, SameQueues, ShutdownsIn
<1>6. InSession(s, c) = 0
  <2>1. owner[c] = None
    BY <1>2 DEF CallsInv, IdleIsUnowned
  <2>2. owner[c] # s
    BY <2>1, CallsAssumption DEF Sessions
  <2>3. QED  BY <2>2 DEF CallsInv, RequestsAreOwned
<1>7. /\ call' \in [Calls -> Outcomes]
      /\ \A d \in Calls : call'[d] = "idle" => call[d] = "idle" /\ d # c
      /\ \A d \in Calls : call'[d] # "pending"
  <2>1. "failed" \in Outcomes \ {"idle", "pending"}
    BY DEF Outcomes
  <2>2. /\ Fail(s, "failed") \in [Calls -> Outcomes]
        /\ \A d \in Calls : Fail(s, "failed")[d] = "idle" => call[d] = "idle"
        /\ \A d \in Calls : Fail(s, "failed")[d] # "pending"
    BY <1>1, <2>1, FailEnds
  <2>3. QED  BY <1>2, <2>1, <2>2
<1>8. p.inbox \in Seq(SentFrames) /\ p.life = sidecar[s].life
  BY <1>4, SameRecords DEF SameQueues
<1>9. Registers(c, s, r, p)
  BY <1>1, <1>2, <1>3, <1>4, <1>5, <1>6, <1>7, <1>8, SameRecords DEF Registers
<1>10. QED  BY <1>9, RegisterKeeps

-----------------------------------------------------------------------------
(* The invariant *)

\* Every step keeps the invariant.
LEMMA CallsStep == CallsInv /\ [Next]_vars => CallsInv'
<1> SUFFICES ASSUME CallsInv, [Next]_vars PROVE CallsInv'
  OBVIOUS
<1>1. CASE Open
  BY <1>1, OpenKeeps
<1>2. CASE StopSession
  BY <1>2, StopKeeps
<1>3. ASSUME NEW c \in Calls,
             Refuse(c) \/ Invoke(c) \/ Overrun(c) \/ CallerAborts(c) \/ TimerFires(c)
      PROVE  CallsInv'
  BY <1>3, RefuseKeeps, InvokeKeeps, OverrunKeeps, AbortKeeps, TimerKeeps
<1>4. ASSUME NEW s \in Sessions, HostReads(s) \/ ExitNoticed(s)
      PROVE  CallsInv'
  BY <1>4, ReadKeeps, ExitKeeps
<1>5. ASSUME NEW s \in Sessions, WriteStep(s)
      PROVE  CallsInv'
  BY <1>5, WriteKeeps DEF WriteStep
<1>6. ASSUME NEW s \in Sessions, SidecarStep(s) \/ Exits(s)
      PROVE  CallsInv'
  BY <1>6, TakeKeeps, AnswerKeeps, DeathKeeps DEF SidecarStep
<1>7. CASE UNCHANGED vars
  <2>1. TypeOK'
    BY <1>7 DEF CallsInv, TypeOK, vars
  <2>2. RequestsAreOwned' /\ OneRequestEach' /\ PendingIsOwned'
    BY <1>7 DEF CallsInv, RequestsAreOwned, OneRequestEach, PendingIsOwned, InSession, vars
  <2>3. IdleIsUnowned' /\ FramesAreSent' /\ ShutdownsAreStopped' /\ ListedIsOpen'
    BY <1>7 DEF CallsInv, IdleIsUnowned, FramesAreSent, ShutdownsAreStopped,
                ListedIsOpen, vars
  <2>4. UnopenedIsUnused'
    BY <1>7 DEF CallsInv, UnopenedIsUnused, vars
  <2>5. QED  BY <2>1, <2>2, <2>3, <2>4 DEF CallsInv
<1>8. QED
  BY <1>1, <1>2, <1>3, <1>4, <1>5, <1>6, <1>7 DEF Next, HostStep

\* What the model counts at the places of a call is what InSession counts.
LEMMA PlacesOfCall ==
    ASSUME NEW c \in Calls
    PROVE  Places(c) = IF owner[c] = None THEN 0 ELSE InSession(owner[c], c)
<1>1. \A seq, x : {i \in 1..Len(seq) : seq[i] = x} = PositionsOf(seq, {x})
  BY DEF PositionsOf
<1>2. QED  BY <1>1 DEF Places, InSession, InPlaces, CountOf

\* The invariant implies PendingIsTracked: a pending call is in exactly one place.
LEMMA CallsInvTracks == CallsInv => PendingIsTracked
<1> SUFFICES ASSUME CallsInv, NEW c \in Calls
             PROVE  /\ Places(c) <= 1
                    /\ call[c] = "pending" =>
                          /\ listed = owner[c] /\ ~session[owner[c]].stopping
                          /\ Places(c) = 1 \/ sidecar[owner[c]].life = "dead"
  BY DEF PendingIsTracked
<1>1. Places(c) = IF owner[c] = None THEN 0 ELSE InSession(owner[c], c)
  BY PlacesOfCall
<1>2. owner[c] # None => owner[c] \in Sessions
  BY DEF CallsInv, TypeOK
<1>3. Places(c) <= 1
  BY <1>1, <1>2 DEF CallsInv, OneRequestEach
<1>4. ASSUME call[c] = "pending"
      PROVE  Places(c) = 1 \/ sidecar[owner[c]].life = "dead"
  BY <1>1, <1>4 DEF CallsInv, PendingIsOwned
<1>5. QED  BY <1>3, <1>4, OnlyListedHasCalls

\* The variables keep their types, and a write queue stays within its bound:
\* writeSessionFrame rejects a frame that does not fit.
THEOREM CallTypes == Spec => []TypeOK
<1>1. Init => CallsInv
  BY CallsInit
<1>2. CallsInv /\ [Next]_vars => CallsInv'
  BY CallsStep
<1>3. CallsInv => TypeOK
  BY DEF CallsInv
<1>4. QED  BY <1>1, <1>2, <1>3, PTL DEF Spec

\* A pending call is on its way in exactly one place of the listed session, or its
\* process is dead and the exit handler about to fail it: whoever drops a request,
\* a write that breaks, a shutdown that empties the sidecar's queue or a process
\* that ends, settles its call, and no request is sent twice.
THEOREM CallsAreTracked == Spec => []PendingIsTracked
<1>1. Init => CallsInv
  BY CallsInit
<1>2. CallsInv /\ [Next]_vars => CallsInv'
  BY CallsStep
<1>3. CallsInv => PendingIsTracked
  BY CallsInvTracks
<1>4. QED  BY <1>1, <1>2, <1>3, PTL DEF Spec
=============================================================================
