----------------------------- MODULE WorkerPool -----------------------------
(***************************************************************************)
(* The life of the subscription manager's iterators and workers            *)
(* (internal/broker/subscription.go:131-360 and 592-627): who starts them, *)
(* on which iterator a worker waits, and who stops them.  In file mode the *)
(* features add subscriptions and CompositeApp.Run starts them; in KV mode *)
(* the rule watcher adds and starts them at any time.                      *)
(*                                                                         *)
(* startSubscription overwrites the subscription's iterator and cancel;    *)
(* the n-th start of a subject is its iterator n and its context n.  A     *)
(* subject that is removed and added again is a new Subscription, whose    *)
(* starts go on counting; only Run starts a Subscription a second time.    *)
(* A worker blocked in iterator.Next() does not see its context.           *)
(***************************************************************************)
EXTENDS Naturals

CONSTANTS Subjects,   \* trigger subjects
          Workers,    \* consumerCfg.WorkerCount, as a set
          MaxStarts   \* bound on starts of one subject

ASSUME StartsAssumption == MaxStarts \in Nat \ {0}
\* config.go:600 refuses a consumer without workers.
ASSUME WorkerAssumption == Workers # {}

Starts == 1 .. MaxStarts
Pool == Subjects \X Starts \X Workers

VARIABLES kvMode,     \* cfg.KV.Rules.Enabled
          added,      \* sm.subscriptions: the subjects in the map
          replaced,   \* iterators Run has overwritten: no entry holds them
          starts,     \* per subject, how often startSubscription has run
          open,       \* iterators that are not stopped
          cancelled,  \* contexts that are cancelled
          at,         \* per worker: where it is, and on which iterator
          phase       \* where the process is, see Phases

vars == <<kvMode, added, replaced, starts, open, cancelled, at, phase>>

Waiting(n) == [where |-> "next", on |-> n]
Place(p) == [where |-> p, on |-> 0]
Phases == {"create", "start", "run", "failed", "cancel", "stop", "stopped"}
Places == [where : {"none", "loop", "next", "busy", "exited"}, on : 0 .. MaxStarts]

TypeOK ==
  /\ kvMode \in BOOLEAN
  /\ added \in SUBSET Subjects /\ replaced \in SUBSET (Subjects \X Starts)
  /\ starts \in [Subjects -> 0 .. MaxStarts]
  /\ open \in SUBSET (Subjects \X Starts)
  /\ cancelled \in SUBSET (Subjects \X Starts)
  /\ at \in [Pool -> Places]
  /\ phase \in Phases

Init ==
  /\ kvMode \in BOOLEAN
  /\ added = {} /\ replaced = {}
  /\ starts = [s \in Subjects |-> 0]
  /\ open = {} /\ cancelled = {}
  /\ at = [w \in Pool |-> Place("none")]
  /\ phase = "create"

\* sub.iterator and sub.cancel are those of the last start.
Latest(s) == <<s, starts[s]>>

-----------------------------------------------------------------------------
\* startSubscription for each of a set of subjects: a new iterator, a new
\* context and a new set of workers.
StartAll(set) ==
  /\ \A s \in set : starts[s] < MaxStarts
  /\ starts' = [s \in Subjects |-> IF s \in set THEN starts[s] + 1 ELSE starts[s]]
  /\ open' = open \cup {<<s, starts[s] + 1>> : s \in set}
  /\ at' = [w \in Pool |-> IF w[1] \in set /\ w[2] = starts[w[1]] + 1
                           THEN Place("loop") ELSE at[w]]
  /\ UNCHANGED cancelled

\* File mode: setupSubscriptions adds an entry, not yet started.
AddSubscription(s) ==
  /\ ~kvMode
  /\ phase = "create"
  /\ s \notin added
  /\ added' = added \cup {s}
  /\ UNCHANGED <<kvMode, replaced, starts, open, cancelled, at, phase>>

\* The rule watcher works from createApp until RuleKVManager.Stop, which
\* precedes Broker.Close.
Watching == kvMode /\ phase \in {"create", "start", "run", "failed", "cancel"}

\* KV mode: the watcher adds and starts; an existing entry is skipped.
AddAndStartSubscription(s) ==
  /\ Watching
  /\ s \notin added
  /\ added' = added \cup {s}
  /\ StartAll({s})
  /\ UNCHANGED <<kvMode, replaced, phase>>

\* CompositeApp.Run counts the entries: it calls Start if there are any.
Run ==
  /\ phase = "create"
  /\ phase' = IF added = {} THEN "run" ELSE "start"
  /\ UNCHANGED <<kvMode, added, replaced, starts, open, cancelled, at>>

\* Run's starts of a set of entries, over the iterator an entry may have.
Restart(set) ==
  /\ StartAll(set)
  /\ replaced' = replaced \cup {Latest(s) : s \in {t \in set : starts[t] > 0}}
  /\ UNCHANGED <<kvMode, added>>

\* Start: every entry of the map is started, those the watcher has started too.
Start ==
  /\ phase = "start"
  /\ added # {}
  /\ phase' = "run"
  /\ Restart(added)

\* Start fails, and Run with it: "no subscriptions configured", when the
\* watcher has emptied the map since it was counted, or at the first iterator
\* that cannot be created; the entry it failed for keeps the iterator it has.
StartFails ==
  /\ phase = "start"
  /\ phase' = "failed"
  /\ \E set \in SUBSET added : (added # {} => set # added) /\ Restart(set)

\* Mutant: RemoveSubscription leaves the iterator to the workers.
RemoveNoStop(s) ==
  /\ Watching
  /\ s \in added
  /\ added' = added \ {s}
  /\ cancelled' = cancelled \cup {Latest(s)}
  /\ UNCHANGED <<kvMode, replaced, starts, open, at, phase>>

\* The entry is deleted, its iterator stopped, its context cancelled; the
\* wait for its workers is bounded and changes nothing.
RemoveSubscription(s) ==
  /\ Watching
  /\ s \in added
  /\ added' = added \ {s}
  /\ open' = open \ {Latest(s)}
  /\ cancelled' = cancelled \cup {Latest(s)}
  /\ UNCHANGED <<kvMode, replaced, starts, at, phase>>

-----------------------------------------------------------------------------
\* messageWorker.
ContextDone(w) == <<w[1], w[2]>> \in cancelled

\* sub.iterator, as the worker's own Subscription has it now.
Iterator(w) == IF <<w[1], w[2]>> \in replaced THEN w[2] + 1 ELSE w[2]

\* Mutant: the worker keeps the iterator it was started with.
LoopOwnIterator(w) ==
  /\ at[w].where = "loop"
  /\ at' = [at EXCEPT ![w] = IF ContextDone(w) THEN Place("exited") ELSE Waiting(w[2])]
  /\ UNCHANGED <<kvMode, added, replaced, starts, open, cancelled, phase>>

\* The top of the loop: return when the context is done, else wait on the
\* iterator the subscription has now.
Loop(w) ==
  /\ at[w].where = "loop"
  /\ at' = [at EXCEPT ![w] = IF ContextDone(w) THEN Place("exited") ELSE Waiting(Iterator(w))]
  /\ UNCHANGED <<kvMode, added, replaced, starts, open, cancelled, phase>>

\* Next() returns a message, as long as the server sends one.
Receive(w) ==
  /\ at[w].where = "next"
  /\ <<w[1], at[w].on>> \in open
  /\ at' = [at EXCEPT ![w] = Place("busy")]
  /\ UNCHANGED <<kvMode, added, replaced, starts, open, cancelled, phase>>

\* Next() fails because its iterator is stopped.
IteratorClosed(w) ==
  /\ at[w].where = "next"
  /\ <<w[1], at[w].on>> \notin open
  /\ at' = [at EXCEPT ![w] = Place("exited")]
  /\ UNCHANGED <<kvMode, added, replaced, starts, open, cancelled, phase>>

\* Any other failure, such as a missed heartbeat: back to the loop after a
\* pause.
NextFails(w) ==
  /\ at[w].where = "next"
  /\ at' = [at EXCEPT ![w] = Place(IF ContextDone(w) THEN "exited" ELSE "loop")]
  /\ UNCHANGED <<kvMode, added, replaced, starts, open, cancelled, phase>>

\* The message is settled.
Processed(w) ==
  /\ at[w].where = "busy"
  /\ at' = [at EXCEPT ![w] = Place("loop")]
  /\ UNCHANGED <<kvMode, added, replaced, starts, open, cancelled, phase>>

WorkerStep(w) == Loop(w) \/ IteratorClosed(w) \/ Processed(w)

-----------------------------------------------------------------------------
\* A shutdown, or a Run that failed, cancels Run's context.  In KV mode only the
\* starts Run made derive from it, the watcher's from the broker's.
FromRun(c) == ~kvMode \/ <<c[1], c[2] - 1>> \in replaced

Cancel ==
  /\ phase \in {"run", "failed"}
  /\ phase' = "cancel"
  /\ cancelled' = cancelled \cup {c \in Subjects \X Starts : c[2] <= starts[c[1]] /\ FromRun(c)}
  /\ UNCHANGED <<kvMode, added, replaced, starts, open, at>>

\* Mutant: Stop cancels the contexts and leaves the iterators.
StopContextsOnly ==
  /\ phase = "cancel"
  /\ phase' = "stop"
  /\ cancelled' = {c \in Subjects \X Starts : c[2] <= starts[c[1]]}
  /\ UNCHANGED <<kvMode, added, replaced, starts, open, at>>

\* Broker.Close cancels the broker's context; Stop, steps 1 and 2: the iterator
\* of every entry is stopped.
StopIterators ==
  /\ phase = "cancel"
  /\ phase' = "stop"
  /\ cancelled' = {c \in Subjects \X Starts : c[2] <= starts[c[1]]}
  /\ open' = open \ {Latest(s) : s \in added}
  /\ UNCHANGED <<kvMode, added, replaced, starts, at>>

\* Step 3: sm.wg.Wait().
StopReturns ==
  /\ phase = "stop"
  /\ \A w \in Pool : at[w].where \in {"none", "exited"}
  /\ phase' = "stopped"
  /\ UNCHANGED <<kvMode, added, replaced, starts, open, cancelled, at>>

Next ==
  \/ \E s \in Subjects : AddSubscription(s) \/ AddAndStartSubscription(s) \/ RemoveSubscription(s)
  \/ Run
  \/ Start
  \/ StartFails
  \/ \E w \in Pool : WorkerStep(w) \/ Receive(w) \/ NextFails(w)
  \/ Cancel
  \/ StopIterators
  \/ StopReturns

Spec == Init /\ [][Next]_vars

\* Workers that can go on do so, a failed Run ends the process and a shutdown
\* proceeds.  The server owes no message, and no heartbeat is missed for sure.
FairSpec ==
  /\ Spec
  /\ \A w \in Pool : WF_vars(WorkerStep(w))
  /\ WF_vars(phase = "failed" /\ Cancel)
  /\ WF_vars(StopIterators)
  /\ WF_vars(StopReturns)

-----------------------------------------------------------------------------
\* While the service runs, a subject in the map that has been started has an
\* open iterator and a worker that waits on it whenever it waits: no start,
\* removal, second start or failure leaves it silently unserved
\* (subscription.go:258-360).
Served ==
  \A s \in added : phase = "run" /\ starts[s] > 0 =>
    /\ Latest(s) \in open
    /\ \E w \in Pool : /\ w[1] = s /\ at[w].where \notin {"none", "exited"}
                       /\ at[w].where = "next" => at[w].on = starts[s]

\* Each subject has one iterator ("ONE Messages() iterator",
\* subscription.go:59-64): one that is open belongs to an entry of the map, so a
\* removed subject receives no more, unless Run has started over it.  That
\* happens to no subject in file mode, and once at most to each in KV mode.
OneIterator ==
  /\ open \subseteq {Latest(s) : s \in added} \cup replaced
  /\ ~kvMode => replaced = {} /\ \A s \in Subjects : starts[s] <= 1
  /\ \A c, d \in replaced : c[1] = d[1] => c = d

\* While the service runs each subject is served, by its one iterator, until
\* it is removed and no longer.
OnlyTheMapServes == Served /\ OneIterator

\* Open iterators that no entry of the map holds any more.
Orphans == open \ {Latest(s) : s \in added}

\* A worker that goes back to wait never waits on such an iterator, so an
\* iterator that Run has started over takes at most one more message for each
\* worker that was in Next() (subscription.go:338 reads sub.iterator anew
\* each time), and each worker it has lost is one that never left Next().
LostIteratorDrains ==
  [][\A w \in Pool : at[w].where # "next" /\ at'[w].where = "next"
                       => <<w[1], at'[w].on>> \notin Orphans]_vars

\* Stop waits for the workers, and they all come even if no further message
\* arrives, unless some wait on an iterator the manager has lost: after a
\* shutdown and after a Start that failed half way.
StopEnds == phase \in {"failed", "cancel"} /\ Orphans = {} ~> phase = "stopped"
=============================================================================
