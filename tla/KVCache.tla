------------------------------- MODULE KVCache -------------------------------
(***************************************************************************)
(* The local cache of the KV buckets that rules look values up in:         *)
(* LocalKVCache (internal/rule/kv_local_cache.go), the lookups that fill   *)
(* it (internal/rule/kv_context.go) and the bucket watchers that keep it   *)
(* fresh (internal/broker/nats.go), under changes and compaction of the    *)
(* buckets, lost watches, reconnects and Close.                            *)
(*                                                                         *)
(* A slot is a bucket and a key.  An entry is identified by its revision;  *)
(* its kind is all that parsing it depends on.  The watcher keeps text as  *)
(* a string and numbers as json.Number, a lookup cannot parse text at all  *)
(* and turns numbers into float64: a cached value records who parsed it.   *)
(***************************************************************************)
EXTENDS Naturals, Sequences, FiniteSets, SequencesExt

CONSTANTS Buckets,    \* the configured buckets
          Keys,       \* the keys rules look up
          Filtered,   \* the keys the buckets' keyFilter lets through
          Workers,    \* goroutines that evaluate rules
          MaxChanges, \* bound on puts, deletes and compactions
          MaxFaults   \* bound on lost connections and lost watches

ASSUME FilterAssumption == Filtered \subseteq Keys
ASSUME FiniteAssumption == IsFiniteSet(Buckets) /\ IsFiniteSet(Keys)
ASSUME BoundAssumption == MaxChanges \in Nat /\ MaxFaults \in Nat

VARIABLES store,      \* the buckets (external): the last entry of each slot
          changes,    \* changes so far
          faults,     \* faults so far
          connected,  \* the NATS connection is up
          restarting, \* buckets restartKVWatchers has still to stop
          configured, \* kv.localCache.enabled
          todo,       \* buckets subscribeToKVChanges has still to watch
          pc,         \* the watcher goroutine of each bucket
          queue,      \* its current watcher's Updates() channel
          stale,      \* its consumer died in a reconnect, the channel is open
          cache,      \* LocalKVCache.cache
          enabled,    \* LocalKVCache.enabled
          lookup,     \* the lookup each worker is in
          cancelled,  \* b.ctx is cancelled
          closing,    \* Close: no, waiting, returned, timeout
          applied,    \* history: the last revision the watcher applied
          overtaken,  \* history: a lookup wrote what the watcher had replaced
          missed      \* history: dead watchers the reconnect handler did not stop

server == <<store, changes>>
network == <<faults, connected, restarting>>
watchers == <<pc, queue, stale>>
local == <<cache, enabled>>
history == <<applied, overtaken, missed>>
vars == <<store, changes, faults, connected, restarting, configured, todo, pc, queue,
          stale, cache, enabled, lookup, cancelled, closing, applied, overtaken, missed>>

Slots == Buckets \X Keys
Watchable(s) == s[2] \in Filtered

Entry(rev, kind) == [rev |-> rev, kind |-> kind]
Entries == [rev : 0 .. MaxChanges, kind : {"none", "del", "json", "text"}]
Held(kind) == kind \in {"json", "text"}

Value(entry, by) == [rev |-> entry.rev, kind |-> entry.kind, by |-> by]
None == Value(Entry(0, "none"), "none")
Values == [rev : 0 .. MaxChanges, kind : {"json", "text"}, by : {"watch", "lookup"}]

Updates == [slot : Slots, entry : Entries]
Answers == [rev : 0 .. MaxChanges, kind : {"none", "json", "text"}, by : {"none", "watch", "lookup"}]

Idle == [at |-> "idle", slot |-> <<>>, since |-> 0, got |-> None]
Lookups == [at : {"idle", "fetch", "write", "answered"}, slot : Slots \cup {<<>>},
            since : 0 .. MaxChanges, got : Answers]

TypeOK ==
  /\ store \in [Slots -> Entries]
  /\ changes \in 0 .. MaxChanges /\ faults \in 0 .. MaxFaults
  /\ connected \in BOOLEAN /\ configured \in BOOLEAN /\ enabled \in BOOLEAN /\ cancelled \in BOOLEAN
  /\ restarting \in SUBSET Buckets /\ todo \in SUBSET Buckets
  /\ pc \in [Buckets -> {"none", "created", "consume", "closed", "backoff", "done"}]
  /\ queue \in [Buckets -> Seq(Updates)]
  /\ stale \in [Buckets -> BOOLEAN]
  /\ cache \in [Slots -> Values \cup {None}]
  /\ lookup \in [Workers -> Lookups]
  /\ closing \in {"no", "waiting", "returned", "timeout"}
  /\ applied \in [Slots -> 0 .. MaxChanges]
  /\ overtaken \in SUBSET Slots /\ missed \in SUBSET Buckets

Init ==
  /\ store = [s \in Slots |-> Entry(0, "json")]
  /\ changes = 0 /\ faults = 0
  /\ connected = TRUE /\ restarting = {}
  /\ configured \in BOOLEAN
  /\ todo = (IF configured THEN Buckets ELSE {})
  /\ pc = [b \in Buckets |-> "none"]
  /\ queue = [b \in Buckets |-> <<>>]
  /\ stale = [b \in Buckets |-> FALSE]
  /\ cache = [s \in Slots |-> None]
  /\ enabled = TRUE
  /\ lookup = [w \in Workers |-> Idle]
  /\ cancelled = FALSE /\ closing = "no"
  /\ applied = [s \in Slots |-> 0]
  /\ overtaken = {} /\ missed = {}

Update(s) == [slot |-> s, entry |-> store[s]]

\* A new watcher replays the last entry of every key its filter lets through,
\* delete markers included.
Replays(b) == SetToSeqs({Update(s) : s \in {t \in Slots : t[1] = b /\ Watchable(t) /\ store[t].kind # "none"}})

\* The goroutine's watcher is subscribed and the server serves it.
Served(b) == pc[b] \in {"created", "consume"} /\ ~stale[b] /\ ~cancelled

-----------------------------------------------------------------------------
\* Operators and the server (external).
Change(s, kind) ==
  /\ changes < MaxChanges
  /\ changes' = changes + 1
  /\ store' = [store EXCEPT ![s] = Entry(changes + 1, kind)]
  /\ queue' = IF Served(s[1]) /\ Watchable(s)
              THEN [queue EXCEPT ![s[1]] = Append(@, [slot |-> s, entry |-> store'[s]])]
              ELSE queue
  /\ UNCHANGED <<network, configured, todo, pc, stale, local, lookup, cancelled, closing, history>>

Put(s) == \E kind \in {"json", "text"} : Change(s, kind)
Delete(s) == Held(store[s].kind) /\ Change(s, "del")

\* The server drops a delete marker; no watcher is told.
Compact(s) ==
  /\ store[s].kind = "del"
  /\ store' = [store EXCEPT ![s].kind = "none"]
  /\ UNCHANGED <<changes, network, configured, todo, watchers, local, lookup, cancelled, closing, history>>

\* The connection is lost; some consumers will not survive it.
Disconnect ==
  /\ connected /\ ~cancelled
  /\ faults < MaxFaults
  /\ faults' = faults + 1
  /\ connected' = FALSE
  /\ \E dead \in SUBSET {b \in Buckets : pc[b] \in {"created", "consume"}} :
       stale' = [b \in Buckets |-> stale[b] \/ b \in dead]
  /\ UNCHANGED <<server, restarting, configured, todo, pc, queue, local, lookup, cancelled, closing, history>>

\* Closing a watcher keeps what its channel already holds and loses the rest.
CloseChannel(b) ==
  /\ pc' = [pc EXCEPT ![b] = "closed"]
  /\ \E n \in 0 .. Len(queue[b]) : queue' = [queue EXCEPT ![b] = SubSeq(@, 1, n)]
  /\ stale' = [stale EXCEPT ![b] = FALSE]

\* A watcher's consumer is deleted on the server while the connection is up.
Drop(b) ==
  /\ pc[b] = "consume"
  /\ faults < MaxFaults
  /\ faults' = faults + 1
  /\ CloseChannel(b)
  /\ UNCHANGED <<server, connected, restarting, configured, todo, local, lookup, cancelled, closing, history>>

-----------------------------------------------------------------------------
\* InitializeKVCache: watchKVBucket creates the watcher and registers its
\* handle, or fails.
WatchBucket(b) ==
  /\ b \in todo
  /\ pc[b] = "none"
  /\ connected
  /\ pc' = [pc EXCEPT ![b] = "created"]
  /\ \E q \in Replays(b) : queue' = [queue EXCEPT ![b] = q]
  /\ UNCHANGED <<server, network, configured, todo, stale, local, lookup, cancelled, closing, history>>

Registered(b) ==
  /\ b \in todo
  /\ pc[b] = "created"
  /\ pc' = [pc EXCEPT ![b] = "consume"]
  /\ todo' = todo \ {b}
  /\ UNCHANGED <<server, network, configured, queue, stale, local, lookup, cancelled, closing, history>>

\* A failure of the last bucket, when no other is watched, disables the cache.
StaysEnabled(b) == enabled /\ (todo # {b} \/ \E c \in Buckets \ {b} : pc[c] # "none")

WatchBucketFails(b) ==
  /\ b \in todo
  /\ pc[b] = "none"
  /\ todo' = todo \ {b}
  /\ enabled' = StaysEnabled(b)
  /\ UNCHANGED <<server, network, configured, watchers, cache, lookup, cancelled, closing, history>>

-----------------------------------------------------------------------------
\* The reconnect handler and restartKVWatchers: each registered handle's
\* current watcher is stopped, one after the other.
Reconnect ==
  /\ ~connected
  /\ connected' = TRUE
  /\ restarting' = IF cancelled THEN restarting
                   ELSE restarting \cup {b \in Buckets \ todo : pc[b] # "none"}
  /\ missed' = missed \cup {b \in todo : stale[b]}
  /\ UNCHANGED <<server, faults, configured, todo, watchers, local, lookup, cancelled, closing,
                 applied, overtaken>>

\* Mutant: a reconnect leaves the watchers as they are.
StopStaleNot(b) ==
  /\ b \in restarting
  /\ restarting' = restarting \ {b}
  /\ UNCHANGED <<server, faults, connected, configured, todo, watchers, local, lookup,
                 cancelled, closing, history>>

\* While the goroutine is creating a new watcher the handle still holds the
\* old one, which is closed already.
StopStale(b) ==
  /\ b \in restarting
  /\ restarting' = restarting \ {b}
  /\ IF pc[b] = "consume" THEN CloseChannel(b) ELSE UNCHANGED watchers
  /\ missed' = IF pc[b] = "created" /\ stale[b] THEN missed \cup {b} ELSE missed
  /\ UNCHANGED <<server, faults, connected, configured, todo, local, lookup, cancelled, closing,
                 applied, overtaken>>

-----------------------------------------------------------------------------
\* runKVWatch, consumeKVWatch and handleKVUpdate.

\* Mutant: only puts are applied.
KeptByDelete(entry, old) == IF Held(entry.kind) THEN Value(entry, "watch") ELSE old

\* What handleKVUpdate leaves in the cache for an entry.
Parsed(entry, old) == IF Held(entry.kind) THEN Value(entry, "watch") ELSE None

\* The select of consumeKVWatch may take an update although the context is done.
handleKVUpdate(b) ==
  LET u == Head(queue[b])
  IN /\ pc[b] \in {"consume", "closed"}
     /\ b \notin todo
     /\ queue[b] # <<>>
     /\ queue' = [queue EXCEPT ![b] = Tail(@)]
     /\ cache' = IF enabled THEN [cache EXCEPT ![u.slot] = Parsed(u.entry, @)] ELSE cache
     /\ applied' = [applied EXCEPT ![u.slot] = u.entry.rev]
     /\ overtaken' = overtaken \ {u.slot}
     /\ UNCHANGED <<server, network, configured, todo, pc, stale, enabled, lookup, cancelled, closing, missed>>

\* The channel is empty and closed.
ChannelClosed(b) ==
  /\ pc[b] = "closed"
  /\ queue[b] = <<>>
  /\ pc' = [pc EXCEPT ![b] = IF cancelled THEN "done" ELSE "backoff"]
  /\ UNCHANGED <<server, network, configured, todo, queue, stale, local, lookup, cancelled, closing, history>>

\* store.Watch after the backoff; an error is tried again.
Rewatch(b) ==
  /\ pc[b] = "backoff"
  /\ connected /\ ~cancelled
  /\ pc' = [pc EXCEPT ![b] = "created"]
  /\ \E q \in Replays(b) : queue' = [queue EXCEPT ![b] = q]
  /\ UNCHANGED <<server, network, configured, todo, stale, local, lookup, cancelled, closing, history>>

\* The new watcher is put into the handle, unless the broker is closing.
Install(b) ==
  /\ b \notin todo
  /\ pc[b] = "created"
  /\ pc' = [pc EXCEPT ![b] = IF cancelled THEN "done" ELSE "consume"]
  /\ UNCHANGED <<server, network, configured, todo, queue, stale, local, lookup, cancelled, closing, history>>

\* Mutant: a goroutine waiting to rebuild its watcher does not see the context.
SeesContextNot(b) == pc[b] = "consume"

\* The two selects on b.ctx.Done().
SeesContext(b) == pc[b] \in {"consume", "closed", "backoff"}

ContextDone(b) ==
  /\ cancelled
  /\ b \notin todo
  /\ SeesContext(b)
  /\ pc' = [pc EXCEPT ![b] = "done"]
  /\ UNCHANGED <<server, network, configured, todo, queue, stale, local, lookup, cancelled, closing, history>>

-----------------------------------------------------------------------------
\* KVContext.Field in a worker: the cache, then the bucket, then the write of
\* the fetched value into the cache.  Rules are loaded after the cache is set
\* up, and no message is taken once the broker closes.
Field(w, s) ==
  /\ lookup[w].at \in {"idle", "answered"}
  /\ todo = {} /\ ~cancelled
  /\ lookup' = [lookup EXCEPT ![w] =
       [at |-> IF enabled /\ cache[s] # None THEN "answered" ELSE "fetch",
        slot |-> s, since |-> store[s].rev,
        got |-> IF enabled THEN cache[s] ELSE None]]
  /\ UNCHANGED <<server, network, configured, todo, watchers, local, cancelled, closing, history>>

\* Only JSON is parsed and cached; anything else answers "not found".
getFromNATSKV(w) ==
  LET s == lookup[w].slot
  IN /\ lookup[w].at = "fetch"
     /\ connected
     /\ lookup' = [lookup EXCEPT ![w] =
          [@ EXCEPT !.at = IF store[s].kind = "json" /\ enabled THEN "write" ELSE "answered",
                    !.got = IF store[s].kind = "json" THEN Value(store[s], "lookup")
                            ELSE [None EXCEPT !.rev = store[s].rev]]]
     /\ UNCHANGED <<server, network, configured, todo, watchers, local, cancelled, closing, history>>

\* The fetch fails, or times out on a slow server: the rule sees an empty value.
FetchFails(w) ==
  /\ lookup[w].at = "fetch"
  /\ lookup' = [lookup EXCEPT ![w] = Idle]
  /\ UNCHANGED <<server, network, configured, todo, watchers, local, cancelled, closing, history>>

\* LocalKVCache.Set: the fetched value replaces whatever the cache holds now.
Set(w) ==
  LET s == lookup[w].slot
  IN /\ lookup[w].at = "write"
     /\ lookup' = [lookup EXCEPT ![w].at = "answered"]
     /\ cache' = [cache EXCEPT ![s] = lookup[w].got]
     /\ overtaken' = IF lookup[w].got.rev < applied[s] THEN overtaken \cup {s} ELSE overtaken
     /\ UNCHANGED <<server, network, configured, todo, watchers, enabled, cancelled, closing, applied, missed>>

-----------------------------------------------------------------------------
\* NATSBroker.Close: cancel, stop every watcher, wait for the goroutines.  The
\* library unsubscribes a watcher whose context is cancelled as well.
Close ==
  /\ closing = "no"
  /\ todo = {}
  /\ closing' = "waiting"
  /\ cancelled' = TRUE
  /\ pc' = [b \in Buckets |-> IF pc[b] = "consume" THEN "closed" ELSE pc[b]]
  /\ UNCHANGED <<server, network, configured, todo, queue, stale, local, lookup, history>>

GoroutinesDone == \A b \in Buckets : pc[b] \in {"none", "done"}

CloseReturns ==
  /\ closing = "waiting"
  /\ GoroutinesDone
  /\ closing' = "returned"
  /\ UNCHANGED <<server, network, configured, todo, watchers, local, lookup, cancelled, history>>

\* watcherShutdownTimeout.
CloseTimesOut ==
  /\ closing = "waiting"
  /\ ~GoroutinesDone
  /\ closing' = "timeout"
  /\ UNCHANGED <<server, network, configured, todo, watchers, local, lookup, cancelled, history>>

Watcher(b) ==
  \/ handleKVUpdate(b) \/ ChannelClosed(b) \/ Rewatch(b) \/ Install(b) \/ ContextDone(b)

Next ==
  \/ \E s \in Slots : Put(s) \/ Delete(s) \/ Compact(s)
  \/ Disconnect \/ Reconnect
  \/ \E b \in Buckets :
       \/ Drop(b) \/ WatchBucket(b) \/ Registered(b) \/ WatchBucketFails(b)
       \/ StopStale(b) \/ Watcher(b)
  \/ \E w \in Workers :
       \/ \E s \in Slots : Field(w, s)
       \/ getFromNATSKV(w) \/ FetchFails(w) \/ Set(w)
  \/ Close \/ CloseReturns \/ CloseTimesOut

\* The goroutines run; the client reconnects; a select whose context stays
\* done takes that branch in the end.
Fairness ==
  /\ WF_vars(Reconnect)
  /\ \A b \in Buckets :
       /\ WF_vars(StopStale(b)) /\ WF_vars(handleKVUpdate(b)) /\ WF_vars(ChannelClosed(b))
       /\ SF_vars(Rewatch(b)) /\ WF_vars(Install(b)) /\ WF_vars(ContextDone(b))
       /\ WF_vars(Registered(b))
  /\ \A w \in Workers : WF_vars(Set(w))

Spec == Init /\ [][Next]_vars /\ Fairness

-----------------------------------------------------------------------------
\* The watcher of the slot's bucket will still bring its current entry.
Coming(s) ==
  LET b == s[1]
  IN \/ \E i \in DOMAIN queue[b] : queue[b][i].slot = s /\ queue[b][i].entry.rev = store[s].rev
     \/ pc[b] \in {"closed", "backoff"} /\ store[s].kind # "none"
     \/ stale[b] /\ (~connected \/ b \in restarting)

\* The gaps of the code: nobody watches the slot, whose first lookup is cached
\* all the same and never replaced (kv_context.go:230; nats.go:420-423 and 443
\* speak of reads from NATS); a reconnect came while the new watcher was not in
\* its handle yet; the delete marker is gone.
Unwatched(s) == pc[s[1]] = "none" \/ ~Watchable(s)
Slipped(s) == s[1] \in missed
Compacted(s) == store[s].kind = "none"

\* Every cached value is the bucket's current one or is about to be replaced,
\* unless one of four named things happened: the slot has no watcher, a lookup
\* wrote a value fetched before the watcher's (getFromNATSKV does not compare
\* revisions), a reconnect missed a watcher that was being replaced
\* (restartKVWatchers stops h.current()), or a delete marker was compacted
\* away during an outage.
CacheCoherent ==
  \A s \in Slots : cache[s] # None /\ cache[s].rev # store[s].rev =>
    \/ Coming(s) \/ Unwatched(s) \/ s \in overtaken \/ Slipped(s) \/ Compacted(s)
    \/ cancelled

\* A total failure to watch turns the cache off, so that every lookup answers
\* with a revision the bucket held while it ran (InitializeKVCache).
DisabledReadsThrough ==
  \A w \in Workers :
    configured /\ todo = {} /\ (\A b \in Buckets : pc[b] = "none") /\ lookup[w].at = "answered"
      => lookup[w].got.rev >= lookup[w].since

\* A lookup's answer is as fresh as the state of the watchers promises.
LookupsFresh == CacheCoherent /\ DisabledReadsThrough

\* Deletes reach the cache too: in the end each watched slot agrees with its
\* bucket, also after reconnects and lost watches (runKVWatch re-syncs).
Agrees(s) == \/ cache[s] = None
             \/ cache[s].rev = store[s].rev /\ Held(store[s].kind)
Converges ==
  \A s \in Slots :
    <>[](Agrees(s) \/ Unwatched(s) \/ s \in overtaken \/ Slipped(s) \/ Compacted(s) \/ cancelled \/ todo # {})

\* Every watcher goroutine ends after Close has cancelled the context, also
\* one that is rebuilding its watcher at that moment.
GoroutinesEnd == cancelled ~> GoroutinesDone

\* kv.localCache.enabled = FALSE: a lookup reads the bucket.
OffMeansOff ==
  \A w \in Workers : ~configured /\ lookup[w].at = "answered" => lookup[w].got.rev >= lookup[w].since
=============================================================================
