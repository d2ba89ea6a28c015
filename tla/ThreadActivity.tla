--------------------------- MODULE ThreadActivity ---------------------------
(***************************************************************************)
(* What a turn does to the message rows of its thread, and what readers    *)
(* see of them: the buffered writer of thread-activity-persistence.ts,     *)
(* the calls runThreadMessageInBackground makes to it, and the cache of    *)
(* thread details in thread-runtime-lifecycle.ts.                          *)
(*                                                                         *)
(* A flush builds its inputs from promises that are already resolved and   *)
(* writes them in one transaction, so it is one step; it fails as a whole  *)
(* when SQLite is busy.  The writer chains its flushes, and a chain that   *)
(* was rejected once rejects every later flush.  A reader takes rows and   *)
(* thread in one step, then waits for image previews, then fills the       *)
(* cache.                                                                  *)
(***************************************************************************)
EXTENDS Naturals

CONSTANTS
    Activities,    \* projected activities; each belongs to one turn
    Readers,       \* detail reads in flight
    MaxVersions,   \* projected states of an activity
    MaxTurns,      \* turns of the thread
    None

ASSUME ActivityAssumption ==
    /\ MaxVersions \in Nat \ {0} /\ MaxTurns \in Nat \ {0}

VARIABLES
    turn,       \* the turn of the thread
    outcome,    \* of the last settlement
    stamp,      \* buildThreadDetailCacheValidationKey: thread.updatedAt and run status
    started,    \* turns so far
    mine,       \* activities of the turn, or of the last one
    version,    \* the last state of each activity that was projected
    rows,       \* the state each activity has in thread_messages
    entries,    \* the buffered writer: entries that are not terminal
    flushTimer,
    poisoned,   \* flushChain is rejected
    eventError, \* eventProcessingError
    up,         \* the process runs
    cache,      \* detailCache of the thread
    reader      \* the detail each read in flight has built

turnVars == <<turn, outcome, stamp, started>>
writerVars == <<mine, version, rows, entries, flushTimer, poisoned, eventError, up>>
vars == <<turnVars, writerVars, cache, reader>>

Versions == 0..MaxVersions
Details == [stamp : Nat, rows : [Activities -> Versions]]

TypeOK ==
    /\ turn \in {"quiet", "working", "stopping"}
    /\ outcome \in {"none", "ran", "stopped", "failed"}
    /\ stamp \in Nat /\ started \in 0..MaxTurns
    /\ mine \subseteq Activities
    /\ version \in [Activities -> Versions]
    /\ rows \in [Activities -> Versions]
    /\ entries \subseteq Activities
    /\ flushTimer \in BOOLEAN /\ poisoned \in BOOLEAN
    /\ eventError \in BOOLEAN /\ up \in BOOLEAN
    /\ cache \in Details \cup {None}
    /\ reader \in [Readers -> Details \cup {None}]

Init ==
    /\ turn = "quiet" /\ outcome = "none" /\ stamp = 0 /\ started = 0
    /\ mine = {}
    /\ version = [a \in Activities |-> 0]
    /\ rows = [a \in Activities |-> 0]
    /\ entries = {}
    /\ flushTimer = FALSE /\ poisoned = FALSE /\ eventError = FALSE
    /\ up = TRUE
    /\ cache = None
    /\ reader = [r \in Readers |-> None]

\* The thread row or the run status changes, and the detail is invalidated.
StatusChanges(to) ==
    /\ turn' = to
    /\ stamp' = stamp + 1
    /\ cache' = None

(***************************************************************************)
(* The buffered writer                                                     *)
(***************************************************************************)
\* flushEntries: the given entries are written; what is up to date is not
\* written again.
Flushed(due) ==
    /\ ~poisoned
    /\ rows' = [a \in Activities |-> IF a \in due THEN version'[a] ELSE rows[a]]
    /\ cache' = IF rows' = rows THEN cache ELSE None
    /\ UNCHANGED poisoned

\* The write fails, or an earlier one has.
Rejected(due) ==
    /\ poisoned \/ \E a \in due : version'[a] # rows[a]
    /\ poisoned' = TRUE
    /\ UNCHANGED <<rows, cache>>

\* The projection of an event: queue, without force.  Events of an aborted turn
\* are dropped.
Queue(a) ==
    /\ up /\ turn = "working"
    /\ version[a] < MaxVersions
    /\ version[a] = 0 \/ a \in entries
    /\ version' = [version EXCEPT ![a] = @ + 1]
    /\ mine' = mine \cup {a}
    /\ entries' = entries \cup {a}
    /\ flushTimer' = TRUE
    /\ UNCHANGED <<turnVars, rows, poisoned, eventError, up, cache, reader>>

\* ... of a terminal state: everything is flushed before the next event.
QueueTerminal(a) ==
    /\ up /\ turn = "working"
    /\ version[a] < MaxVersions
    /\ version[a] = 0 \/ a \in entries
    /\ version' = [version EXCEPT ![a] = @ + 1]
    /\ mine' = mine \cup {a}
    /\ entries' = entries \ {a}
    /\ \/ /\ Flushed(entries \cup {a})
          /\ flushTimer' = (entries' # {})
          /\ UNCHANGED eventError
       \/ /\ Rejected(entries \cup {a})
          /\ flushTimer' = FALSE
          /\ eventError' = TRUE
    /\ UNCHANGED <<turnVars, up, reader>>

\* Variant: the timer is not set again for entries that were not due.
FlushTimerFiresOnce(waiting) ==
    /\ up /\ flushTimer
    /\ waiting \subseteq {a \in entries : rows[a] > 0}
    /\ UNCHANGED <<mine, version, entries, eventError, turnVars, reader>>
    /\ \/ /\ Flushed(entries \ waiting)
          /\ flushTimer' = (waiting = {} /\ entries # {})
          /\ UNCHANGED up
       \/ /\ Rejected(entries \ waiting)
          /\ flushTimer' = FALSE
          /\ up' = FALSE

\* The timer's flush leaves entries out whose interval is not over by the clock,
\* and sets the timer again.  Nobody awaits it: a rejection reaches the
\* unhandledRejection listener, which ends the process (index.ts).
FlushTimerFires(waiting) ==
    /\ up /\ flushTimer
    /\ waiting \subseteq {a \in entries : rows[a] > 0}
    /\ UNCHANGED <<mine, version, entries, eventError, turnVars, reader>>
    /\ \/ /\ Flushed(entries \ waiting)
          /\ flushTimer' = (entries # {})
          /\ UNCHANGED up
       \/ /\ Rejected(entries \ waiting)
          /\ flushTimer' = FALSE
          /\ up' = FALSE

(***************************************************************************)
(* The turn                                                                *)
(***************************************************************************)
\* queueMessage and a new writer.
StartTurn ==
    /\ up /\ turn = "quiet"
    /\ started < MaxTurns
    /\ started' = started + 1
    /\ StatusChanges("working")
    /\ mine' = {} /\ entries' = {}
    /\ flushTimer' = FALSE /\ poisoned' = FALSE /\ eventError' = FALSE
    /\ UNCHANGED <<outcome, version, rows, up, reader>>

\* stopTurn, up to its wait for the turn.
Stop ==
    /\ up /\ turn = "working"
    /\ StatusChanges("stopping")
    /\ UNCHANGED <<outcome, started, writerVars, reader>>

\* Variant: an error of flushAll is only logged, whatever became of the prompt.
SettleAnyway(result) ==
    /\ up /\ turn # "quiet"
    /\ outcome' = result
    /\ result = "ran" => turn = "working" /\ ~eventError
    /\ result = "stopped" => turn = "stopping"
    /\ turn' = "quiet" /\ stamp' = stamp + 1 /\ cache' = None
    /\ flushTimer' = FALSE
    /\ \/ /\ ~poisoned
          /\ rows' = [a \in Activities |-> IF a \in entries THEN version[a] ELSE rows[a]]
          /\ UNCHANGED poisoned
       \/ /\ poisoned' = TRUE
          /\ UNCHANGED rows
    /\ UNCHANGED <<started, mine, version, entries, eventError, up, reader>>

\* The prompt resolves or rejects, flushAll, and the settlement.  An error of an
\* event or of the flush settles the turn as failed, unless the prompt rejected
\* with an abort error.
Settle(result) ==
    /\ up /\ turn # "quiet"
    /\ outcome' = result
    /\ result = "stopped" => turn = "stopping"
    /\ turn' = "quiet" /\ stamp' = stamp + 1 /\ cache' = None
    /\ flushTimer' = FALSE
    /\ \/ /\ ~poisoned
          /\ rows' = [a \in Activities |-> IF a \in entries THEN version[a] ELSE rows[a]]
          /\ result = "ran" => turn = "working" /\ ~eventError
          /\ UNCHANGED poisoned
       \/ /\ poisoned \/ \E a \in entries : version[a] # rows[a]
          /\ result # "ran"
          /\ poisoned' = TRUE
          /\ UNCHANGED rows
    /\ UNCHANGED <<started, mine, version, entries, eventError, up, reader>>

(***************************************************************************)
(* Readers                                                                 *)
(***************************************************************************)
\* Variant: the key of the cached thread is not compared.
CacheIsThere == cache # None

\* cacheIsFresh, for a reader that knows the thread (expectedThread).
CacheIsFresh == cache # None /\ cache.stamp = stamp

\* buildThreadDetailRaw, up to its wait for the previews.
ReadBegins(r) ==
    /\ up /\ reader[r] = None
    /\ ~CacheIsFresh
    /\ reader' = [reader EXCEPT ![r] = [stamp |-> stamp, rows |-> rows]]
    /\ UNCHANGED <<turnVars, writerVars, cache>>

\* writeLruValue, whatever was invalidated meanwhile.
ReadEnds(r) ==
    /\ up /\ reader[r] # None
    /\ cache' = reader[r]
    /\ reader' = [reader EXCEPT ![r] = None]
    /\ UNCHANGED <<turnVars, writerVars>>

(***************************************************************************)
(* Specification                                                           *)
(***************************************************************************)
Next ==
    \/ \E a \in Activities : Queue(a) \/ QueueTerminal(a)
    \/ \E waiting \in SUBSET Activities : FlushTimerFires(waiting)
    \/ StartTurn \/ Stop
    \/ \E result \in {"ran", "stopped", "failed"} : Settle(result)
    \/ \E r \in Readers : ReadBegins(r) \/ ReadEnds(r)

Spec == Init /\ [][Next]_vars

\* The timer fires again and again, and at some time finds every interval over.
Fairness == WF_vars(FlushTimerFires({}))

FairSpec == Spec /\ Fairness

(***************************************************************************)
(* Properties                                                              *)
(***************************************************************************)
\* A turn that is on record as completed lost nothing: each state its activities
\* reached is in the rows, although flushes fail and the timer's flushes, the
\* terminal ones and the last one share a chain.
CompletedTurnIsPersisted ==
    outcome = "ran" /\ turn = "quiet" => \A a \in mine : rows[a] = version[a]

\* Between turns a reader that knows the thread is never served old messages,
\* although a read that began before the settlement may fill the cache after it.
SettledReadsAreFresh == turn = "quiet" /\ CacheIsFresh => cache.rows = rows

\* What a running turn has projected reaches the rows without its help, as long
\* as no write failed.
ActivitiesLand ==
    \A a \in Activities, v \in 1..MaxVersions :
        (a \in mine /\ version[a] >= v) ~>
            (rows[a] >= v \/ turn # "working" \/ poisoned)

\* A reader is served what the rows say while the turn runs as well.
LiveReadsAreFresh == CacheIsFresh => cache.rows = rows
=============================================================================
