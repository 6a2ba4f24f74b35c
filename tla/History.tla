-------------------------------- MODULE History --------------------------------
(***************************************************************************)
(* What is done with the published state: the history store and its writer *)
(* thread (src/src/history.rs), the tasks that feed and supervise it       *)
(* (src/src/runtime.rs), and the queries of the dashboard (src/src/web.rs).*)
(*                                                                         *)
(* Every await is a step boundary.  A store is a handle: the bounded queue *)
(* of its writer thread, the count of dropped writes (here whether it is   *)
(* positive) and whether the thread is alive.  A handle that was replaced  *)
(* drains its queue and ends when nobody holds it any more.  A command is  *)
(* a transition, a port-forward observation or a flush.  The environment's *)
(* events (observations, requests, faults) are bounded by                  *)
(* MaxHistoryEvents.                                                       *)
(***************************************************************************)
EXTENDS Naturals, Sequences

CONSTANTS Store, NoStore,
          QueueCapacity, ChannelCapacity,
          MaxHistoryEvents

ASSUME HistoryAssumption ==
    /\ Store # {} /\ NoStore \notin Store
    /\ {QueueCapacity, ChannelCapacity, MaxHistoryEvents} \subseteq Nat \ {0}

VARIABLES check,                    \* history.persistence, as published
          channel,                  \* what the recorder has still to receive
          budget,                   \* environment events still to come
          phase,                    \* of run(): serving, shutting down, exited
          slot, stores,             \* SharedHistory, and every handle
          written,                  \* rows of the followed transition
          supervisor, query,        \* the supervisor and a dashboard request
          subscribed,               \* whether the recorder has started
          port_due, fresh,          \* whether change_sequence is not the recorder's,
                                    \* and whether it has a snapshot to read
          fate                      \* of the followed transition

published == <<check, channel>>
history_vars == <<published, budget, phase, slot, stores, written, supervisor, query,
                  subscribed, port_due, fresh, fate>>
storage == <<slot, stores, written>>
recording == <<subscribed, port_due>>

Healthy(reason) == [status |-> "Healthy", reason |-> reason]
Degraded(reason) == [status |-> "Degraded", reason |-> reason]
Command == {"followed", "other", "flush", "shutdown"}
\* Not published yet, on its way, or lost, and how.
Fate == {"unpublished", "recorded", "unheard", "lagged", "absent", "full", "died"}
Task == [at : {"idle", "send", "wait", "flushed", "failed", "report", "recovered", "open",
               "closing", "query"},
         store : Store \cup {NoStore}]
Idle == [at |-> "idle", store |-> NoStore]

Opened == [alive |-> TRUE, used |-> TRUE, queue |-> <<>>, dropped |-> FALSE]
Unused == [alive |-> FALSE, used |-> FALSE, queue |-> <<>>, dropped |-> FALSE]
----------------------------------------------------------------------------
Spend == budget > 0 /\ budget' = budget - 1
Unspent == UNCHANGED budget
Serving == phase = "serving"

\* run() until its tasks are spawned: the store is opened or not.
HistoryInit ==
    \E opened \in BOOLEAN :
        /\ check = IF opened THEN Healthy("ready") ELSE Degraded("unavailable")
        /\ channel = <<>>
        /\ budget = MaxHistoryEvents /\ phase = "serving"
        /\ LET s == CHOOSE t \in Store : TRUE
           IN /\ slot = IF opened THEN s ELSE NoStore
              /\ stores = [t \in Store |-> IF opened /\ t = s THEN Opened ELSE Unused]
        /\ written = 0
        /\ supervisor = Idle /\ query = Idle
        /\ subscribed = FALSE /\ port_due = FALSE /\ fresh = FALSE
        /\ fate = "unpublished"
----------------------------------------------------------------------------
\* The rest of the program: the transitions the publisher broadcasts and the
\* port coordinator's change_sequence.  Any one transition may be the followed
\* one.  A receiver that is a whole channel behind loses the oldest.
Published == fresh' = TRUE

Announce ==
    \E followed \in BOOLEAN :
        /\ followed => fate = "unpublished"
        /\ channel' = Append(IF Len(channel) < ChannelCapacity THEN channel ELSE Tail(channel),
                             followed)
        /\ fate' = IF followed THEN IF subscribed THEN "recorded" ELSE "unheard"
                   ELSE IF Len(channel) = ChannelCapacity /\ Head(channel) THEN "lagged"
                   ELSE fate

Transition ==
    /\ Serving /\ Spend /\ Published
    /\ Announce
    /\ UNCHANGED <<check, phase, storage, supervisor, query, recording>>

PortChange ==
    /\ Serving /\ Spend /\ Published
    /\ port_due' = TRUE
    /\ UNCHANGED <<published, phase, storage, supervisor, query, subscribed, fate>>
----------------------------------------------------------------------------
\* HistoryStore: what a handle accepts, and its writer thread.

Room(s) == stores[s].alive /\ Len(stores[s].queue) < QueueCapacity

try_send(s, command) ==
    stores' = IF Room(s) THEN [stores EXCEPT ![s].queue = Append(@, command)]
              ELSE [stores EXCEPT ![s].dropped = TRUE]

\* The positions of the followed transition in a queue
Copies(commands) == {i \in DOMAIN commands : commands[i] = "followed"}

Held(s) == s \in {slot, supervisor.store, query.store}

\* One command.  A write that fails ends the thread with what is queued; a
\* flush is answered, and so is a shutdown, which ends the thread.
WriterStep(s, ok) ==
    /\ stores[s].alive /\ stores[s].queue # <<>>
    /\ LET command == Head(stores[s].queue)
           barrier == command \in {"flush", "shutdown"}
           goes_on == ok /\ command # "shutdown"
           awaited == supervisor.store = s
                      /\ supervisor.at = (IF Serving THEN "wait" ELSE "closing")
           answer == IF command = (IF Serving THEN "flush" ELSE "shutdown") THEN "flushed"
                     ELSE IF goes_on THEN supervisor.at ELSE "failed"
       IN /\ ok \/ ~barrier
          /\ IF ok THEN Unspent ELSE Spend
          /\ stores' = [stores EXCEPT ![s].queue = IF goes_on THEN Tail(@) ELSE <<>>,
                                      ![s].alive = goes_on]
          /\ written' = IF ok /\ command = "followed" THEN written + 1 ELSE written
          /\ supervisor' = IF awaited THEN [supervisor EXCEPT !.at = answer] ELSE supervisor
          /\ fate' = IF ~goes_on /\ Copies(IF ok THEN Tail(stores[s].queue)
                                           ELSE stores[s].queue) # {}
                     THEN "died" ELSE fate
    /\ UNCHANGED <<published, phase, slot, query, recording, fresh>>

\* The last handle is gone, so the senders are closed and the thread returns.
WriterEnds(s) ==
    /\ stores[s].used /\ ~Held(s)
    /\ ~stores[s].alive \/ stores[s].queue = <<>>
    /\ stores' = [stores EXCEPT ![s] = Unused]
    /\ UNCHANGED <<published, budget, phase, slot, written, supervisor, query,
                   recording, fresh, fate>>
----------------------------------------------------------------------------
\* record_history: the task subscribes when it first runs, then takes
\* transitions and snapshots in either order.

Subscribe ==
    /\ Serving /\ ~subscribed /\ subscribed' = TRUE
    /\ channel' = <<>>
    /\ port_due' = FALSE /\ fresh' = FALSE
    /\ UNCHANGED <<check, budget, phase, storage, supervisor, query, fate>>

Recordable(t) == IF t THEN "followed" ELSE "other"
Taken(t) ==
    fate' = IF ~t THEN fate ELSE IF slot = NoStore THEN "absent"
            ELSE IF Room(slot) THEN fate ELSE "full"

\* Planted fault: of a burst of transitions only the last is recorded.
FaultyRecordTransition ==
    /\ Serving /\ subscribed /\ channel # <<>>
    /\ channel' = <<>>
    /\ LET t == channel[Len(channel)]
       IN /\ Taken(t)
          /\ IF slot = NoStore THEN UNCHANGED stores ELSE try_send(slot, Recordable(t))
    /\ UNCHANGED <<check, budget, phase, slot, written, supervisor, query, recording, fresh>>

RecordTransition ==
    /\ Serving /\ subscribed /\ channel # <<>>
    /\ channel' = Tail(channel)
    /\ LET t == Head(channel)
       IN /\ Taken(t)
          /\ IF slot = NoStore THEN UNCHANGED stores ELSE try_send(slot, Recordable(t))
    /\ UNCHANGED <<check, budget, phase, slot, written, supervisor, query, recording, fresh>>

RecordPort ==
    /\ Serving /\ subscribed /\ fresh
    /\ fresh' = FALSE
    /\ IF slot = NoStore \/ ~port_due THEN UNCHANGED <<stores, port_due>>
       ELSE port_due' = FALSE /\ try_send(slot, "other")
    /\ UNCHANGED <<published, budget, phase, slot, written, supervisor, query, subscribed, fate>>
----------------------------------------------------------------------------
\* supervise_history.  A flush is a blocking send and a wait of five seconds.

Supervise(at, store) == supervisor' = [at |-> at, store |-> store]

Report(now) ==
    /\ check' = now /\ Published
    /\ IF check = now THEN UNCHANGED <<channel, fate>> ELSE Announce

Tick ==
    /\ Serving /\ supervisor = Idle
    /\ Supervise(IF slot = NoStore THEN "open" ELSE "send", slot)
    /\ UNCHANGED <<published, budget, phase, storage, query, recording, fresh, fate>>

SendBarrier ==
    /\ supervisor.at = "send"
    /\ LET s == supervisor.store
       IN IF stores[s].alive
          THEN /\ Room(s)
               /\ stores' = [stores EXCEPT ![s].queue =
                                Append(@, IF Serving THEN "flush" ELSE "shutdown")]
               /\ Supervise(IF Serving THEN "wait" ELSE "closing", s)
          ELSE Supervise("failed", s) /\ UNCHANGED stores
    /\ UNCHANGED <<published, budget, phase, slot, written, query, recording, fresh, fate>>

FlushTimeout ==
    /\ supervisor.at \in {"wait", "closing"} /\ Spend
    /\ Supervise("failed", supervisor.store)
    /\ UNCHANGED <<published, phase, storage, query, recording, fresh, fate>>

\* Planted fault: a flush that succeeds says nothing of dropped writes.
FaultyFlushed ==
    /\ Serving /\ supervisor.at = "flushed"
    /\ Report(Healthy("ready"))
    /\ supervisor' = Idle
    /\ UNCHANGED <<budget, phase, storage, query, recording>>

Flushed ==
    /\ Serving /\ supervisor.at = "flushed"
    /\ IF stores[supervisor.store].dropped THEN Report(Degraded("dropped"))
       ELSE Report(Healthy("ready"))
    /\ supervisor' = Idle
    /\ UNCHANGED <<budget, phase, storage, query, recording>>

\* The failed store is given up: the slot is emptied, whatever it holds.
GiveUp == /\ slot' = NoStore
          /\ UNCHANGED <<published, phase, stores, written, recording, fresh, fate>>

FlushFailed ==
    /\ Serving /\ supervisor.at = "failed"
    /\ GiveUp /\ Supervise("report", NoStore)
    /\ UNCHANGED <<budget, query>>

ReportFailed ==
    /\ Serving /\ supervisor.at = "report"
    /\ Report(Degraded("writer_unavailable"))
    /\ supervisor' = Idle
    /\ UNCHANGED <<budget, phase, storage, query, recording>>

Reopen(ok) ==
    /\ Serving /\ supervisor.at = "open"
    /\ IF ok
       THEN \E s \in Store : /\ ~stores[s].used
                             /\ slot' = s
                             /\ stores' = [stores EXCEPT ![s] = Opened]
                             /\ Supervise("recovered", NoStore)
                             /\ Unspent
       ELSE supervisor' = Idle /\ Spend /\ UNCHANGED <<slot, stores>>
    /\ UNCHANGED <<published, phase, written, query, recording, fresh, fate>>

ReportRecovered ==
    /\ Serving /\ supervisor.at = "recovered"
    /\ Report(Healthy("recovered"))
    /\ supervisor' = Idle
    /\ UNCHANGED <<budget, phase, storage, query, recording>>
----------------------------------------------------------------------------
\* history_response: a dashboard query holds the handle it started with.

BeginQuery ==
    /\ query = Idle /\ Spend
    /\ query' = IF slot = NoStore THEN Idle ELSE [at |-> "query", store |-> slot]
    /\ UNCHANGED <<published, phase, storage, supervisor, recording, fresh, fate>>

EndQuery(ok) ==
    /\ query.at = "query"
    /\ IF ok THEN /\ query' = Idle /\ Unspent
                  /\ UNCHANGED <<published, phase, storage, recording, fresh, fate>>
       ELSE query' = [at |-> "report", store |-> NoStore] /\ Spend /\ GiveUp
    /\ UNCHANGED supervisor

ReportQuery ==
    /\ query.at = "report"
    /\ Report(Degraded("unavailable"))
    /\ query' = Idle
    /\ UNCHANGED <<budget, phase, storage, supervisor, recording>>
----------------------------------------------------------------------------
\* The end of run(): the tasks are aborted, then the writer is shut down.
\* Requests on open connections go on.

Stop ==
    /\ Serving
    /\ phase' = "stopping"
    /\ supervisor' = IF slot = NoStore THEN [at |-> "failed", store |-> NoStore]
                     ELSE [at |-> "send", store |-> slot]
    /\ UNCHANGED <<published, budget, storage, query, recording, fresh, fate>>

Exit ==
    /\ phase = "stopping" /\ supervisor.at \in {"flushed", "failed"}
    /\ phase' = IF supervisor.at = "flushed" THEN "drained" ELSE "exited"
    /\ UNCHANGED <<published, budget, storage, supervisor, query, recording, fresh, fate>>
----------------------------------------------------------------------------
Environment == \/ Transition \/ PortChange
               \/ BeginQuery \/ FlushTimeout \/ Stop
               \/ \E s \in Store : WriterStep(s, FALSE)
               \/ Reopen(FALSE) \/ EndQuery(FALSE)

Writer(s) == WriterStep(s, TRUE) \/ WriterEnds(s)
Supervision == \/ Tick \/ SendBarrier \/ Flushed \/ FlushFailed \/ ReportFailed
               \/ Reopen(TRUE) \/ ReportRecovered \/ Exit
Recorder == Subscribe \/ RecordTransition \/ RecordPort
Answering == EndQuery(TRUE) \/ ReportQuery

HistoryNext == \/ Environment \/ Supervision \/ Recorder \/ Answering
               \/ \E s \in Store : Writer(s)

HistorySpec == HistoryInit /\ [][HistoryNext]_history_vars

\* The tasks of the runtime, the writer threads and the requests run on; the
\* supervisor's timer ticks; SQLite answers.  The environment may stay quiet.
HistoryFairSpec ==
    /\ HistorySpec
    /\ WF_history_vars(Supervision) /\ WF_history_vars(Recorder) /\ WF_history_vars(Answering)
    /\ \A s \in Store : WF_history_vars(Writer(s))
----------------------------------------------------------------------------
\* Tasks, queue, counters and history variables have their shapes.
HistoryTypeOK ==
    /\ check.status \in {"Healthy", "Degraded"}
    /\ Len(channel) <= ChannelCapacity
    /\ fate \in Fate /\ written \in 0 .. 1
    /\ phase \in {"serving", "stopping", "drained", "exited"}
    /\ slot \in Store \cup {NoStore} /\ supervisor \in Task /\ query \in Task
    /\ \A s \in Store : /\ Len(stores[s].queue) <= QueueCapacity
                        /\ \A i \in DOMAIN stores[s].queue : stores[s].queue[i] \in Command
                        /\ stores[s].alive => stores[s].used
    /\ slot # NoStore => stores[slot].used

\* Where the followed transition is: its rows, and its positions in the channel and in
\* the queues of the writers
InChannel == {i \in DOMAIN channel : channel[i]}
Places == {<<"row", NoStore, n>> : n \in 1 .. written}
          \cup {<<"channel", NoStore, i>> : i \in InChannel}
          \cup UNION {{<<"queue", s, i>> : i \in Copies(stores[s].queue)} : s \in Store}

\* record_history, HistoryStore and writer_loop: a transition published after
\* the recorder subscribed is in its channel, in the queue of exactly one
\* living writer or in exactly one row.  Otherwise it was overwritten in the
\* channel, met an empty slot or a full queue, or its writer failed.
AccountedFor ==
    CASE fate = "recorded" -> \E p \in Places : Places = {p}
      [] fate = "unheard" /\ ~subscribed -> \A p, q \in Places : p = q
      [] OTHER -> Places = {}

\* supervise_history: once faults and requests cease, a store is in use for
\* good, the check says whether it has dropped writes, and the latest change
\* of the port has been taken up.
HistoryReturns ==
    [](phase = "serving")
    => <>[](/\ slot # NoStore /\ stores[slot].alive
            /\ check.status = IF stores[slot].dropped THEN "Degraded" ELSE "Healthy"
            /\ ~port_due)
==============================================================================
