------------------------------ MODULE Ingress ------------------------------
(***************************************************************************)
(* Plugin ingress, from the poll timer to the queued turn: the scheduler   *)
(* (ingress-poll-scheduler.ts), the session bookkeeping and the reply      *)
(* contexts (ingress-capability.ts), the batches (ingress-batch-           *)
(* processor.ts) and the router (ingress-thread-router.ts), over the       *)
(* tables of IngressStore, for one source of one plugin.                   *)
(*                                                                         *)
(* A source object is a MutableSource.  Removing one does not stop the     *)
(* poll it is in: the poll goes on, writes to the tables and sets a timer  *)
(* on its way out.  A thread is named by the message it was created for.   *)
(***************************************************************************)
EXTENDS IngressStore

CONSTANTS
    MaxSources,     \* source objects made, over all registrations
    MaxCrashes,     \* crashes of the host
    Faults          \* what may go wrong

FaultKinds == {"poll", "reject", "render", "create", "send", "delete", "stop",
               "expire", "unbind"}

ASSUME FaultsAssumption ==
    /\ MaxSources \in Nat
    /\ MaxCrashes \in Nat
    /\ Faults \subseteq FaultKinds

Sources == 1..MaxSources
None == 0

VARIABLES
    ready,      \* findReadySession finds a session of the plugin
    held,       \* ... and its ingressSourceIds holds the source
    startup,    \* startPlugin is about to register: its session is live or dead
    made,       \* source objects made
    current,    \* the one in the scheduler's map
    src,        \* cursor, timer and inFlight of each
    run,        \* where the pollNow of each is
    window,     \* activeThreads of the router
    context,    \* activeReplyContexts: thread -> message
    turn,       \* the message whose turn runs in each thread
    sent,       \* messages whose turn was queued
    deleted,    \* threads the operator deleted
    crashes,
    lost        \* messages a crash left behind as "verified"

sessionVars == <<ready, held, startup, made>>
schedulerVars == <<current, src>>
threadVars == <<turn, sent, deleted>>
faultVars == <<crashes, lost>>
vars == <<storeVars, sessionVars, schedulerVars, run, window, context,
          threadVars, faultVars>>

Points == {"idle", "polling", "pollcut", "answered", "message", "confirming",
           "routing", "rendering", "rendercut", "creating", "sending", "marking"}

TypeOK ==
    /\ StoreTypeOK
    /\ ready \in BOOLEAN /\ held \in BOOLEAN
    /\ startup \in {"none", "live", "dead"}
    /\ made \in 0..MaxSources /\ current \in 0..made
    /\ src \in [Sources -> [cursor : Messages \cup {None}, timer : BOOLEAN, inFlight : BOOLEAN]]
    /\ run \in [Sources -> [pc : Points, next : Messages \cup {None, Len(Inbox) + 1},
                            last : Messages \cup {None}, thread : Messages \cup {None}]]
    /\ window \in [Users -> Messages \cup {None}]
    /\ context \in [Messages -> Messages \cup {None}]
    /\ turn \in [Messages -> Messages \cup {None}]
    /\ sent \subseteq Messages /\ deleted \subseteq Messages
    /\ crashes \in 0..MaxCrashes /\ lost \subseteq Messages

NewSource == [cursor |-> None, timer |-> FALSE, inFlight |-> FALSE]
Idle == [pc |-> "idle", next |-> None, last |-> None, thread |-> None]

Init ==
    /\ StoreInit
    /\ ready = FALSE /\ held = FALSE /\ startup = "none"
    /\ made = 0 /\ current = None
    /\ src = [o \in Sources |-> NewSource]
    /\ run = [o \in Sources |-> Idle]
    /\ window = [u \in Users |-> None]
    /\ context = [t \in Messages |-> None]
    /\ turn = [t \in Messages |-> None]
    /\ sent = {} /\ deleted = {}
    /\ crashes = 0 /\ lost = {}

-----------------------------------------------------------------------------
(* Sessions and the scheduler's map *)

\* cancel: the source object of a poll that may still be going on.  The signal
\* rejects the request, it does not reach the batch.
Cancelled(o) == [src EXCEPT ![o].timer = FALSE, ![o].inFlight = FALSE]

\* Variant: a registration of a source that is in the map sets no timer.
UpsertUntimed(cur, sources) ==
    IF cur # None
    THEN /\ UNCHANGED <<current, made>>
         /\ src' = [sources EXCEPT ![cur].timer = FALSE]
    ELSE /\ current' = made + 1
         /\ made' = made + 1
         /\ src' = [sources EXCEPT ![made + 1] =
                       [NewSource EXCEPT !.cursor = cursor, !.timer = TRUE]]

\* upsertSource, with the cursor of the table when there is one.
Upsert(cur, sources) ==
    IF cur # None
    THEN /\ UNCHANGED made
         /\ current' = cur
         /\ src' = [sources EXCEPT ![cur].cursor = IF cursor = None THEN @ ELSE cursor,
                                   ![cur].timer = TRUE]
    ELSE /\ current' = made + 1
         /\ made' = made + 1
         /\ src' = [sources EXCEPT ![made + 1] =
                       [NewSource EXCEPT !.cursor = cursor, !.timer = TRUE]]

\* A sidecar starts and handshakes: startPlugin goes on to note its activation.
StartSession ==
    /\ ~ready
    /\ startup = "none"
    /\ made < MaxSources
    /\ ready' = TRUE
    /\ startup' = "live"
    /\ UNCHANGED <<storeVars, held, made, schedulerVars, run, window, context,
                   threadVars, faultVars>>

\* The rest of startPlugin, which registers the sources of its session even
\* when that session has ended meanwhile.
FinishStartup ==
    /\ startup # "none"
    /\ startup' = "none"
    /\ held' = (startup = "live")
    /\ context' = [t \in Messages |-> None]
    /\ Upsert(current, src)
    /\ UNCHANGED <<storeVars, ready, run, window, threadVars, faultVars>>

\* A sync of the plugins finds the session current and registers it again.
Resync ==
    /\ ready
    /\ startup = "none"
    /\ made < MaxSources
    /\ held' = TRUE
    /\ context' = [t \in Messages |-> None]
    /\ IF held /\ current # None
       THEN /\ Upsert(None, Cancelled(current))
            /\ run' = [run EXCEPT ![current].pc = IF @ = "polling" THEN "pollcut" ELSE @]
       ELSE Upsert(current, src) /\ UNCHANGED run
    /\ UNCHANGED <<storeVars, ready, startup, window, threadVars, faultVars>>

\* What the end of its sidecar does to a poll: a pending request is rejected.
Interrupted(r) ==
    CASE r.pc = "polling" -> [r EXCEPT !.pc = "pollcut"]
      [] r.pc = "rendering" -> [r EXCEPT !.pc = "rendercut"]
      [] OTHER -> r

\* The session ends: its sidecar exits or times out, or the plugin is
\* stopped (removePlugin: also of a source no session holds).
StopSession ==
    /\ "stop" \in Faults
    /\ ready \/ current # None
    /\ ready' = FALSE
    /\ held' = FALSE
    /\ startup' = IF startup = "live" THEN "dead" ELSE startup
    /\ context' = [t \in Messages |-> None]
    /\ run' = [o \in Sources |-> Interrupted(run[o])]
    /\ \/ /\ current # None
          /\ src' = Cancelled(current)
          /\ current' = None
       \/ /\ ~held \/ current = None
          /\ ready
          /\ UNCHANGED <<src, current>>
    /\ UNCHANGED <<storeVars, made, window, threadVars, faultVars>>

-----------------------------------------------------------------------------
(* Polling *)

\* pollNow, started for the source in the map.
StartPoll(sources) ==
    LET from == sources[current].cursor IN
    /\ src' = [sources EXCEPT ![current].inFlight = TRUE]
    /\ run' = [run EXCEPT ![current] =
                  [Idle EXCEPT !.pc = IF ready THEN "polling" ELSE "pollcut",
                               !.next = from + 1, !.last = from]]

\* A timer fires.  It looks the source up by name: the timer of an object that
\* was removed starts a poll of the object that replaced it.
TimerFires(o) ==
    LET sources == [src EXCEPT ![o].timer = FALSE] IN
    /\ src[o].timer
    /\ IF current # None /\ ~src[current].inFlight
       THEN StartPoll(sources)
       ELSE src' = sources /\ UNCHANGED run
    /\ UNCHANGED <<storeVars, sessionVars, current, window, context, threadVars,
                   faultVars>>

\* Variant: the cursor is stored when the messages arrive.
PollAnswersStoringCursor(o) ==
    /\ run[o].pc = "polling"
    /\ \E k \in Messages :
          /\ k >= run[o].next
          /\ run' = [run EXCEPT ![o].pc = "answered", ![o].last = k]
          /\ cursor' = k
    /\ UNCHANGED <<status, limited, linkVars, sessionVars, schedulerVars, window, context,
                   threadVars, faultVars>>

\* The plugin answers with the messages that follow the cursor.
PollAnswers(o) ==
    /\ run[o].pc = "polling"
    /\ \E k \in Messages :
          /\ k >= run[o].next
          /\ run' = [run EXCEPT ![o].pc = "answered", ![o].last = k]
    /\ UNCHANGED <<storeVars, sessionVars, schedulerVars, window, context,
                   threadVars, faultVars>>

\* Variant: the finally of pollNow forgets inFlight.
EndPollInFlight(o, reached) ==
    /\ src' = [src EXCEPT ![o].cursor = reached, ![o].timer = TRUE]
    /\ run' = [run EXCEPT ![o] = Idle]

\* The finally of pollNow.
EndPoll(o, reached) ==
    /\ src' = [src EXCEPT ![o] = [cursor |-> reached, timer |-> TRUE, inFlight |-> FALSE]]
    /\ run' = [run EXCEPT ![o] = Idle]

\* The catch of pollNow: the plugin throws, its request is rejected.
PollFails(o) ==
    /\ \/ run[o].pc = "polling" /\ "poll" \in Faults
       \/ run[o].pc = "pollcut"
    /\ EndPoll(o, src[o].cursor)
    /\ UNCHANGED <<storeVars, sessionVars, current, window, context, threadVars,
                   faultVars>>

-----------------------------------------------------------------------------
(* Batches: the rest of pollNow, one message after the other *)

InHand(o) == run[o].next
Working(o) == run[o].pc \in Points \ {"idle", "polling", "pollcut"}

At(o, point) == run' = [run EXCEPT ![o].pc = point]
NextMessage(o) ==
    run' = [run EXCEPT ![o] = [@ EXCEPT !.pc = "message", !.next = InHand(o) + 1, !.thread = None]]

\* processBatch: recordInvalidSourceMessage for each message when no session is
\* there any more, its errors swallowed; else the messages one by one.
ResolveSource(o) ==
    /\ run[o].pc = "answered"
    /\ IF ready
       THEN At(o, "message") /\ UNCHANGED status
       ELSE /\ status' = [m \in Messages |->
                             IF m \in run[o].next..run[o].last /\ Kind(m) # "empty"
                             THEN Persist(m, "failed")[m] ELSE status[m]]
            /\ run' = [run EXCEPT ![o].pc = "message", ![o].next = run[o].last + 1]
    /\ UNCHANGED <<limited, linkVars, cursor, sessionVars, schedulerVars, window,
                   context, threadVars, faultVars>>

\* handlePollBatch stores the cursor, and pollNow ends.
EndBatch(o) ==
    /\ run[o].pc = "message" /\ run[o].next > run[o].last
    /\ cursor' = run[o].last
    /\ EndPoll(o, run[o].last)
    /\ UNCHANGED <<status, limited, linkVars, sessionVars, current, window, context,
                   threadVars, faultVars>>

\* processMessage, for a message that has its record already.
SkipMessage(o) ==
    /\ status[InHand(o)] # "none"
    /\ NextMessage(o)
    /\ UNCHANGED <<status, limited, linkVars, src>>

\* processLinkMessage.  After a success it waits for the confirmation.
LinkMessage(o) ==
    LET m == InHand(o) IN
    /\ status[m] = "none" /\ Kind(m) = "link"
    /\ \/ /\ Consume(Sender(m))
          /\ status' = Persist(m, "processed")
          /\ At(o, "confirming")
       \/ /\ code # "active"
          /\ status' = Persist(m, "failed")
          /\ UNCHANGED linkVars
          /\ NextMessage(o)
    /\ UNCHANGED <<limited, src>>

\* persistPluginIngressMessage throws: the poll fails and keeps its cursor.
RefusedMessage(o) ==
    /\ Kind(InHand(o)) = "empty"
    /\ EndPoll(o, src[o].cursor)
    /\ UNCHANGED <<status, limited, linkVars>>

UnverifiedMessage(o) ==
    LET m == InHand(o) IN
    /\ status[m] = "none" /\ Kind(m) = "text"
    /\ binding[Sender(m)] # "enabled"
    /\ PersistUnverified(m)
    /\ NextMessage(o)
    /\ UNCHANGED <<linkVars, src>>

\* Variant: a message of a user without a binding is routed too.
VerifiedMessageOfAnyone(o) ==
    LET m == InHand(o) IN
    /\ status[m] = "none" /\ Kind(m) = "text"
    /\ status' = Persist(m, "verified")
    /\ At(o, "routing")
    /\ UNCHANGED <<limited, linkVars, src>>

\* Variant: a message that was not brought to an end is taken up again.
VerifiedMessageAgain(o) ==
    LET m == InHand(o) IN
    /\ status[m] \in {"none", "verified"} /\ Kind(m) = "text"
    /\ binding[Sender(m)] = "enabled"
    /\ status' = Persist(m, "verified")
    /\ At(o, "routing")
    /\ UNCHANGED <<limited, linkVars, src>>

\* The record becomes "verified" and the route is looked up.
VerifiedMessage(o) ==
    LET m == InHand(o) IN
    /\ status[m] = "none" /\ Kind(m) = "text"
    /\ binding[Sender(m)] = "enabled"
    /\ status' = Persist(m, "verified")
    /\ At(o, "routing")
    /\ UNCHANGED <<limited, linkVars, src>>

\* processMessage, up to its first wait.
ProcessMessage(o) ==
    /\ run[o].pc = "message" /\ run[o].next <= run[o].last
    /\ \/ SkipMessage(o) \/ LinkMessage(o) \/ RefusedMessage(o)
       \/ UnverifiedMessage(o) \/ VerifiedMessage(o)
    /\ UNCHANGED <<cursor, sessionVars, current, window, context, threadVars, faultVars>>

\* confirmLinkedExternalUser has tried, with any result.
LinkConfirmed(o) ==
    /\ run[o].pc = "confirming"
    /\ NextMessage(o)
    /\ UNCHANGED <<storeVars, sessionVars, schedulerVars, window, context, threadVars,
                   faultVars>>

-----------------------------------------------------------------------------
(* Routing a verified message *)

\* registerReplyContext, which needs a session.
ContextOf(t, m) == IF ready THEN [context EXCEPT ![t] = m] ELSE context

\* Variant: the record of a message that fails after its thread is known stays
\* as it is.
RouteFailsQuietly(o) ==
    LET t == run[o].thread IN
    /\ status' = [status EXCEPT ![InHand(o)] = IF t = None THEN "failed" ELSE @]
    /\ context' = IF t = None THEN context ELSE [context EXCEPT ![t] = None]
    /\ NextMessage(o)

\* `fail` of routeVerifiedMessage and handleRouteFailure, which drops the reply
\* context of the thread, whichever message it is for.
RouteFails(o) ==
    LET t == run[o].thread IN
    /\ status' = [status EXCEPT ![InHand(o)] = "failed"]
    /\ context' = IF t = None THEN context ELSE [context EXCEPT ![t] = None]
    /\ NextMessage(o)

\* A group conversation, refused images, no route, or one whose permissions or
\* project are refused; else the prompt is asked for, of a sidecar that may be gone.
RouteKnown(o) ==
    /\ run[o].pc = "routing"
    /\ \/ "reject" \in Faults /\ RouteFails(o)
       \/ /\ At(o, IF ready THEN "rendering" ELSE "rendercut")
          /\ UNCHANGED <<status, context>>
    /\ UNCHANGED <<limited, linkVars, cursor, sessionVars, schedulerVars, window,
                   threadVars, faultVars>>

\* afterThreadResolved, and the send begins.
InThread(o, t) ==
    /\ context' = ContextOf(t, InHand(o))
    /\ run' = [run EXCEPT ![o].pc = "sending", ![o].thread = t]

\* The prompt is there: resolveThread takes the thread of the user's window, or
\* has one created.
PromptRendered(o) ==
    /\ run[o].pc = "rendering"
    /\ IF window[Sender(InHand(o))] # None
       THEN InThread(o, window[Sender(InHand(o))])
       ELSE At(o, "creating") /\ UNCHANGED context
    /\ UNCHANGED <<storeVars, sessionVars, schedulerVars, window, threadVars, faultVars>>

\* promptTemplate throws, or its sidecar went away.
PromptFails(o) ==
    /\ \/ run[o].pc = "rendercut"
       \/ run[o].pc = "rendering" /\ "render" \in Faults
    /\ RouteFails(o)
    /\ UNCHANGED <<limited, linkVars, cursor, sessionVars, schedulerVars, window,
                   threadVars, faultVars>>

\* createThread ends.  The window of the user is set to the new thread, also
\* when another batch has set it during the wait.
ThreadCreated(o) ==
    LET m == InHand(o) IN
    /\ run[o].pc = "creating"
    /\ \/ /\ window' = [window EXCEPT ![Sender(m)] = m]
          /\ InThread(o, m)
          /\ UNCHANGED status
       \/ "create" \in Faults /\ RouteFails(o) /\ UNCHANGED window
    /\ UNCHANGED <<limited, linkVars, cursor, sessionVars, schedulerVars, threadVars,
                   faultVars>>

\* Variant: the error of a refused message is swallowed.
SendMessageUnchecked(o) ==
    LET m == InHand(o)
        t == run[o].thread
    IN
    /\ run[o].pc = "sending"
    /\ At(o, "marking")
    /\ IF turn[t] = None /\ t \notin deleted
       THEN turn' = [turn EXCEPT ![t] = m] /\ sent' = sent \cup {m}
       ELSE UNCHANGED <<turn, sent>>
    /\ UNCHANGED <<storeVars, sessionVars, schedulerVars, window, context, deleted,
                   faultVars>>

\* sendThreadMessage.  It refuses a thread with a turn, and one that is gone.
SendMessage(o) ==
    LET m == InHand(o)
        t == run[o].thread
    IN
    /\ run[o].pc = "sending"
    /\ \/ /\ turn[t] = None /\ t \notin deleted
          /\ turn' = [turn EXCEPT ![t] = m]
          /\ sent' = sent \cup {m}
          /\ At(o, "marking")
          /\ UNCHANGED <<status, context>>
       \/ /\ turn[t] # None \/ t \in deleted \/ "send" \in Faults
          /\ RouteFails(o)
          /\ UNCHANGED <<turn, sent>>
    /\ UNCHANGED <<limited, linkVars, cursor, sessionVars, schedulerVars, window,
                   deleted, faultVars>>

\* markPluginIngressMessageProcessed and onRoutedMessage
MarkProcessed(o) ==
    /\ run[o].pc = "marking"
    /\ status' = [status EXCEPT ![InHand(o)] = "processed"]
    /\ context' = ContextOf(run[o].thread, InHand(o))
    /\ NextMessage(o)
    /\ UNCHANGED <<limited, linkVars, cursor, sessionVars, schedulerVars, window,
                   threadVars, faultVars>>

-----------------------------------------------------------------------------
(* The operator, the threads, time and crashes *)

Administration ==
    /\ \/ CreateLinkCode
       \/ "expire" \in Faults /\ ExpireLinkCode
       \/ "unbind" \in Faults /\ \E u \in Users : ChangeBinding(u)
    /\ UNCHANGED <<sessionVars, schedulerVars, run, window, context, threadVars, faultVars>>

TurnEnds(t) ==
    /\ turn[t] # None
    /\ turn' = [turn EXCEPT ![t] = None]
    /\ UNCHANGED <<storeVars, sessionVars, schedulerVars, run, window, context, sent,
                   deleted, faultVars>>

\* The operator deletes a thread, whose turn ends; the router is not told.
DeleteThread(t) ==
    /\ "delete" \in Faults
    /\ t \notin deleted
    /\ \E u \in Users : window[u] = t
    /\ deleted' = deleted \cup {t}
    /\ turn' = [turn EXCEPT ![t] = None]
    /\ UNCHANGED <<storeVars, sessionVars, schedulerVars, run, window, context, sent,
                   faultVars>>

\* PLUGIN_INGRESS_THREAD_REUSE_WINDOW_MS passes without a message of the user.
WindowPasses(u) ==
    /\ window[u] # None
    /\ window' = [window EXCEPT ![u] = None]
    /\ UNCHANGED <<storeVars, sessionVars, schedulerVars, run, context, threadVars,
                   faultVars>>

\* The host dies, maybe in the middle of a step: a link code was consumed and
\* the record of its message is not there yet.
Crash ==
    /\ crashes < MaxCrashes
    /\ crashes' = crashes + 1
    /\ \/ UNCHANGED linkVars
       \/ \E o \in Sources :
             /\ run[o].pc = "message" /\ run[o].next <= run[o].last
             /\ status[InHand(o)] = "none" /\ Kind(InHand(o)) = "link"
             /\ Consume(Sender(InHand(o)))
    /\ lost' = lost \cup {m \in Messages : status[m] = "verified"}
    /\ ready' = FALSE /\ held' = FALSE /\ startup' = "none"
    /\ current' = None
    /\ src' = [o \in Sources |-> NewSource]
    /\ run' = [o \in Sources |-> Idle]
    /\ window' = [u \in Users |-> None]
    /\ context' = [t \in Messages |-> None]
    /\ turn' = [t \in Messages |-> None]
    /\ UNCHANGED <<status, limited, cursor, made, sent, deleted>>

BatchStep(o) ==
    \/ ResolveSource(o) \/ ProcessMessage(o) \/ LinkConfirmed(o) \/ EndBatch(o)
    \/ RouteKnown(o) \/ PromptRendered(o) \/ PromptFails(o)
    \/ ThreadCreated(o) \/ SendMessage(o) \/ MarkProcessed(o)

Next ==
    \/ StartSession \/ FinishStartup \/ Resync \/ StopSession
    \/ \E o \in Sources :
          TimerFires(o) \/ PollAnswers(o) \/ PollFails(o) \/ BatchStep(o)
    \/ Administration
    \/ \E t \in Messages : TurnEnds(t) \/ DeleteThread(t)
    \/ \E u \in Users : WindowPasses(u)
    \/ Crash

\* Timers fire, sidecar requests have time limits, continuations run, turns
\* end.  A plugin asked for messages over and over answers at some time.
Fairness ==
    /\ WF_vars(FinishStartup)
    /\ \A o \in Sources :
          /\ WF_vars(TimerFires(o))
          /\ WF_vars(PollFails(o))
          /\ WF_vars(BatchStep(o))
          /\ SF_vars(PollAnswers(o))
    /\ \A t \in Messages : WF_vars(TurnEnds(t))

Spec == Init /\ [][Next]_vars

FairSpec == Spec /\ Fairness

-----------------------------------------------------------------------------
(* Properties *)

\* The message left a trace, or can leave none.
Accounted(m) == status[m] # "none" \/ m \in limited \/ Kind(m) = "empty"

\* The stored cursor never passes a message that left no trace, over failed
\* polls, batches that overlap and crashes: a message that is not accounted
\* for will be polled again.
CursorCoversRecords == \A m \in Messages : m <= cursor => Accounted(m)

\* A record is "verified" only while one batch, and no second one, has the
\* message in hand, or since a crash.
VerifiedIsInHand ==
    \A m \in Messages :
        status[m] = "verified" /\ m \notin lost
            => Cardinality({o \in Sources : Working(o) /\ InHand(o) = m
                                /\ run[o].pc \notin {"answered", "message"}}) = 1

\* A message gets at most one turn, however often it is polled.
OneTurnEach ==
    [][\A t, m \in Messages : turn'[t] = m /\ turn[t] # m => m \notin sent]_vars

\* Whoever has a turn run for him consumed a link code before.
OnlyLinkedUsers == \A m \in sent : Sender(m) \in consumer

\* A link code links one user, also when two batches carry it.
CodeLinksOneUser == Cardinality(consumer) <= 1

\* The record says what became of the turn: "processed" text was queued and
\* "failed" was not.
RecordsMatchTurns ==
    \A m \in Messages : Kind(m) # "link" =>
        /\ status[m] = "processed" => m \in sent
        /\ status[m] = "failed" => m \notin sent

\* The source in the map is polled or has its timer set: whatever fails, and
\* however often it is registered, polling goes on.
SourceStaysScheduled ==
    current # None => src[current].timer \/ run[current].pc # "idle"

\* While the plugin stays up with its source registered, each message of the
\* stream is accounted for at some time.
EveryMessageAccounted ==
    <>[](ready /\ startup = "none" /\ current # None)
        => <>(\A m \in Messages : Accounted(m))

\* A message that is verified is processed or failed at some time, unless the
\* host crashes.
VerifiedSettles ==
    \A m \in Messages : status[m] = "verified" ~> status[m] # "verified" \/ m \in lost

\* As long as its plugin stays registered, the turn of a thread keeps the reply
\* context that was set for it (the prompt orders the agent to use it).
TurnsKeepTheirContext ==
    [][\A t \in Messages :
          (/\ turn[t] # None /\ turn'[t] = turn[t]
           /\ ready /\ ready' /\ current' = current
           /\ context[t] # None)
          => context'[t] # None]_vars
=============================================================================
