---------------------------- MODULE KVCacheProofs ----------------------------
(***************************************************************************)
(* What a lookup may answer, for every set of buckets and keys, every      *)
(* number of workers, changes and lost connections.                        *)
(***************************************************************************)
EXTENDS KVCache, FiniteSetTheorems, TLAPS

\* Revisions grow: what is cached was applied or fetched later, unless a
\* lookup was overtaken, and nothing is newer than the bucket.
RevisionsMean ==
  \A s \in Slots :
    /\ applied[s] <= store[s].rev /\ store[s].rev <= changes
    /\ cache[s] # None =>
         /\ cache[s].rev <= store[s].rev
         /\ s \in overtaken \/ applied[s] <= cache[s].rev

\* A channel holds entries of its own bucket, in the order of their
\* revisions, none of them older than what was applied.
InOrder(q) ==
  \A i, j \in DOMAIN q : i <= j /\ q[i].slot = q[j].slot => q[i].entry.rev <= q[j].entry.rev
QueueMeans ==
  \A b \in Buckets :
    /\ InOrder(queue[b])
    /\ \A i \in DOMAIN queue[b] :
         LET u == queue[b][i]
         IN u.slot[1] = b /\ applied[u.slot] <= u.entry.rev /\ u.entry.rev <= store[u.slot].rev

\* A watcher the server serves has brought a slot's entry or is bringing it.
Queued(s) == \E i \in DOMAIN queue[s[1]] :
               queue[s[1]][i].slot = s /\ queue[s[1]][i].entry.rev = store[s].rev
Synced ==
  \A s \in Slots : Watchable(s) /\ Served(s[1]) /\ store[s].kind # "none" =>
    applied[s] = store[s].rev \/ Queued(s)

\* A consumer that died is known to be dead, or is about to be stopped, or
\* was missed.
WatchersMean ==
  \A b \in Buckets :
    /\ pc[b] = "done" => cancelled
    /\ stale[b] /\ ~cancelled => /\ pc[b] \in {"created", "consume"}
                                 /\ ~connected \/ b \in restarting \/ b \in missed

\* A lookup has a slot whose bucket it reads; there is none before the cache
\* is set up.
LookupsMean ==
  \A w \in Workers :
    /\ todo # {} => lookup[w].at = "idle"
    /\ lookup[w].at # "idle" => lookup[w].slot \in Slots
    /\ lookup[w].at = "fetch" => lookup[w].since <= store[lookup[w].slot].rev
    /\ lookup[w].at = "write" =>
         /\ enabled
         /\ lookup[w].got \in Values
         /\ lookup[w].got.rev <= store[lookup[w].slot].rev
    /\ ~enabled /\ lookup[w].at = "answered" => lookup[w].since <= lookup[w].got.rev

\* The cache is off exactly when every configured bucket failed to be watched;
\* while it is being set up only watchers fill it.
EnabledMeans ==
  /\ todo # {} => \A s \in Slots : pc[s[1]] = "none" => cache[s] = None
  /\ ~enabled => /\ todo = {} /\ \A b \in Buckets : pc[b] = "none"
                 /\ \A s \in Slots : cache[s] = None
  /\ configured /\ todo = {} /\ (\A b \in Buckets : pc[b] = "none") => ~enabled \/ Buckets = {}

Rest == RevisionsMean /\ QueueMeans /\ Synced /\ WatchersMean /\ LookupsMean /\ EnabledMeans
IndInv == TypeOK /\ Rest

-----------------------------------------------------------------------------
\* A slot is a bucket and a key.
LEMMA SlotParts == \A s \in Slots : s[1] \in Buckets /\ s[2] \in Keys
BY DEF Slots

\* Listing the members of a finite set lists each of them, once.
LEMMA Listed ==
  ASSUME NEW S, IsFiniteSet(S), NEW q \in SetToSeqs(S)
  PROVE  /\ q \in Seq(S)
         /\ \A i, j \in DOMAIN q : q[i] = q[j] => i = j
         /\ \A x \in S : \E i \in DOMAIN q : q[i] = x
<1>1. Cardinality(S) \in Nat
  BY FS_CardinalityType
<1> DEFINE D == 1 .. Cardinality(S)
<1>2. q \in [D -> S] /\ \A i, j \in D : q[i] = q[j] => i = j
  BY DEF SetToSeqs
<1>3. q \in Injection(D, S)
  BY <1>2 DEF Injection, IsInjective
<1>4. IsFiniteSet(D) /\ Cardinality(D) = Cardinality(S)
  BY <1>1, FS_Interval
<1>5. q \in Surjection(D, S)
  BY <1>3, <1>4, FS_Injection
<1>6. \A x \in S : \E i \in D : q[i] = x
  BY <1>5 DEF Surjection
<1>7. q \in Seq(S) /\ DOMAIN q = D
  BY <1>1, <1>2
<1> QED
  BY <1>2, <1>6, <1>7

\* A new watcher is sent the last entry of each slot it watches, once.
LEMMA ReplayFacts ==
  ASSUME store \in [Slots -> Entries], NEW b \in Buckets, NEW q \in Replays(b)
  PROVE  /\ q \in Seq(Updates)
         /\ \A i \in DOMAIN q : q[i].slot \in Slots /\ q[i].slot[1] = b /\ q[i] = Update(q[i].slot)
         /\ InOrder(q)
         /\ \A s \in Slots : s[1] = b /\ Watchable(s) /\ store[s].kind # "none" =>
              \E i \in DOMAIN q : q[i] = Update(s)
<1> DEFINE Present == {t \in Slots : t[1] = b /\ Watchable(t) /\ store[t].kind # "none"}
           S == {Update(s) : s \in Present}
<1>1. q \in SetToSeqs(S)
  BY DEF Replays
<1>2. IsFiniteSet(S)
  <2>1. IsFiniteSet(Slots)
    BY FiniteAssumption, FS_Product DEF Slots
  <2>2. IsFiniteSet(Present)
    BY <2>1, FS_Subset
  <2> DEFINE f == [s \in Present |-> Update(s)]
  <2>3. f \in Surjection(Present, S)
    BY DEF Surjection
  <2> QED
    BY <2>2, <2>3, FS_Surjection
<1>3. \A s \in Slots : Update(s).slot = s /\ Update(s).entry = store[s] /\ Update(s) \in Updates
  BY DEF Update, Updates
<1>4. /\ \A x \in S : x \in Updates /\ x.slot \in Slots /\ x.slot[1] = b /\ x = Update(x.slot)
      /\ \A s \in Slots : s[1] = b /\ Watchable(s) /\ store[s].kind # "none" => Update(s) \in S
  BY <1>3
<1> HIDE DEF S
<1>5. /\ q \in Seq(S)
      /\ \A i, j \in DOMAIN q : q[i] = q[j] => i = j
      /\ \A x \in S : \E i \in DOMAIN q : q[i] = x
  BY <1>1, <1>2, Listed
<1>6. \A i \in DOMAIN q : q[i] \in S
  BY <1>5
<1>7. q \in Seq(Updates)
  <2>1. S \subseteq Updates
    BY <1>4
  <2> QED
    BY <1>5, <2>1
<1>8. InOrder(q)
  <2> SUFFICES ASSUME NEW i \in DOMAIN q, NEW j \in DOMAIN q, q[i].slot = q[j].slot
               PROVE  q[i].entry.rev <= q[j].entry.rev
    BY DEF InOrder
  <2>1. q[i] = q[j]
    BY <1>4, <1>6
  <2>2. q[i].entry.rev \in Nat
    BY <1>4, <1>6, BoundAssumption DEF Updates, Entries
  <2> QED
    BY <2>1, <2>2
<1> QED
  BY <1>4, <1>5, <1>6, <1>7, <1>8

\* Taking an update off the channel moves the others up.
LEMMA TailFacts ==
  ASSUME NEW q \in Seq(Updates), q # <<>>, NEW t, t = Tail(q)
  PROVE  /\ t \in Seq(Updates) /\ Head(q) = q[1] /\ 1 \in DOMAIN q /\ Head(q) \in Updates
         /\ \A i \in DOMAIN t : i \in Nat /\ i + 1 \in DOMAIN q /\ t[i] = q[i + 1]
         /\ \A i \in DOMAIN q : i \in Nat /\ i >= 1 /\ (i # 1 => i - 1 \in DOMAIN t /\ t[i - 1] = q[i])
<1>1. /\ Len(q) \in Nat /\ Len(q) >= 1 /\ DOMAIN q = 1 .. Len(q)
      /\ t \in Seq(Updates) /\ DOMAIN t = 1 .. Len(q) - 1
      /\ \A i \in 1 .. Len(q) - 1 : t[i] = q[i + 1]
  OBVIOUS
<1>2. Head(q) = q[1] /\ q[1] \in Updates
  BY <1>1
<1>3. \A i \in DOMAIN t : i \in Nat /\ i + 1 \in DOMAIN q /\ t[i] = q[i + 1]
  BY <1>1
<1>4. ASSUME NEW i \in DOMAIN q
      PROVE  i \in Nat /\ i >= 1 /\ (i # 1 => i - 1 \in DOMAIN t /\ t[i - 1] = q[i])
  <2>1. i \in Nat /\ i >= 1 /\ (i # 1 => i - 1 \in 1 .. Len(q) - 1 /\ (i - 1) + 1 = i)
    BY <1>1
  <2> QED
    BY <1>1, <2>1
<1> QED
  BY <1>1, <1>2, <1>3, <1>4

\* Closing a channel keeps a part of it from its beginning.
LEMMA PrefixFacts ==
  ASSUME NEW q \in Seq(Updates), NEW n \in 0 .. Len(q), NEW t, t = SubSeq(q, 1, n)
  PROVE  /\ t \in Seq(Updates)
         /\ \A i \in DOMAIN t : i \in DOMAIN q /\ t[i] = q[i]
<1>1. Len(q) \in Nat /\ DOMAIN q = 1 .. Len(q) /\ n \in Nat /\ n <= Len(q)
  OBVIOUS
<1>2. t = [i \in 1 .. n |-> q[i]]
  BY <1>1
<1>3. \A i \in 1 .. n : q[i] \in Updates /\ i \in DOMAIN q
  BY <1>1
<1>4. DOMAIN t = 1 .. n /\ t \in [1 .. n -> Updates]
  BY <1>2, <1>3
<1> QED
  BY <1>1, <1>2, <1>3, <1>4

\* A put or delete appends its entry.
LEMMA AppendFacts ==
  ASSUME NEW q \in Seq(Updates), NEW u \in Updates, NEW t, t = Append(q, u)
  PROVE  /\ t \in Seq(Updates) /\ Len(q) + 1 \in DOMAIN t /\ t[Len(q) + 1] = u
         /\ \A i \in DOMAIN q : i \in DOMAIN t /\ t[i] = q[i] /\ i < Len(q) + 1
         /\ \A i \in DOMAIN t : i \in DOMAIN q \/ i = Len(q) + 1
<1>1. Len(q) \in Nat /\ DOMAIN q = 1 .. Len(q)
  OBVIOUS
<1>2. /\ t \in Seq(Updates) /\ Len(t) = Len(q) + 1 /\ DOMAIN t = 1 .. Len(q) + 1
      /\ t[Len(q) + 1] = u /\ \A i \in 1 .. Len(q) : t[i] = q[i]
  BY <1>1
<1> QED
  BY <1>1, <1>2

\* The broker before InitializeKVCache satisfies the invariant.
LEMMA InitInd == Init => IndInv
<1> SUFFICES ASSUME Init PROVE IndInv
  OBVIOUS
<1> USE BoundAssumption DEF Init
<1>0. Entry(0, "json") \in Entries /\ Idle \in Lookups /\ Idle.at = "idle" /\ Entry(0, "json").rev = 0
  BY DEF Entry, Entries, Idle, Lookups, Answers, None, Value
<1>1. TypeOK
  <2>1. <<>> \in Seq(Updates) /\ todo \in SUBSET Buckets
    OBVIOUS
  <2>2. queue \in [Buckets -> Seq(Updates)] /\ store \in [Slots -> Entries]
    BY <1>0, <2>1
  <2>3. connected \in BOOLEAN /\ configured \in BOOLEAN /\ enabled \in BOOLEAN /\ cancelled \in BOOLEAN
    OBVIOUS
  <2> QED
    BY <1>0, <2>1, <2>2, <2>3 DEF TypeOK
<1>2. RevisionsMean
  BY <1>0 DEF RevisionsMean
<1>3. QueueMeans /\ Synced
  BY <1>0, SlotParts DEF QueueMeans, InOrder, Synced, Served
<1>4. WatchersMean /\ LookupsMean
  BY <1>0 DEF WatchersMean, LookupsMean
<1>5. EnabledMeans
  BY DEF EnabledMeans
<1> QED
  BY <1>1, <1>2, <1>3, <1>4, <1>5 DEF IndInv, Rest

\* What lookups read and write has its type.
LEMMA ValueTypes ==
  /\ None \in Answers /\ Values \subseteq Answers
  /\ \A e \in Entries : /\ Held(e.kind) => Value(e, "watch") \in Values
                        /\ e.kind = "json" => Value(e, "lookup") \in Values
                        /\ Value(e, "watch").rev = e.rev /\ Value(e, "lookup").rev = e.rev
                        /\ [None EXCEPT !.rev = e.rev] \in Answers
                        /\ [None EXCEPT !.rev = e.rev].rev = e.rev
                        /\ e.rev \in 0 .. MaxChanges
  /\ \A v \in Values : v.rev \in 0 .. MaxChanges /\ v # None
BY BoundAssumption DEF None, Answers, Values, Value, Entry, Entries, Held

\* Every step keeps the state in its type.
LEMMA NextType == TypeOK /\ LookupsMean /\ [Next]_vars => TypeOK'
<1> SUFFICES ASSUME TypeOK, LookupsMean, [Next]_vars PROVE TypeOK'
  OBVIOUS
<1> USE BoundAssumption
<1>1. ASSUME NEW s \in Slots, NEW kind \in {"json", "text", "del"}, Change(s, kind) PROVE TypeOK'
  <2>1. Entry(changes + 1, kind) \in Entries /\ changes + 1 \in 0 .. MaxChanges
    BY <1>1 DEF Change, Entry, Entries, TypeOK
  <2>2. store' \in [Slots -> Entries] /\ store'[s] = Entry(changes + 1, kind)
    BY <1>1, <2>1 DEF Change, TypeOK
  <2>3. queue' \in [Buckets -> Seq(Updates)]
    <3>1. [slot |-> s, entry |-> store'[s]] \in Updates
      BY <2>1, <2>2 DEF Updates
    <3>2. Append(queue[s[1]], [slot |-> s, entry |-> store'[s]]) \in Seq(Updates)
      BY <3>1, SlotParts DEF TypeOK
    <3> QED
      BY <1>1, <3>2, SlotParts DEF Change, TypeOK
  <2> QED
    BY <1>1, <2>1, <2>2, <2>3 DEF Change, network, local, history, TypeOK
<1>2. ASSUME NEW s \in Slots, Compact(s) PROVE TypeOK'
  <2>1. [store[s] EXCEPT !.kind = "none"] \in Entries
    BY DEF TypeOK, Entries
  <2> QED
    BY <1>2, <2>1 DEF Compact, network, watchers, local, history, TypeOK
<1>3. CASE Disconnect
  <2>1. PICK dead : stale' = [b \in Buckets |-> stale[b] \/ b \in dead]
    BY <1>3 DEF Disconnect
  <2>2. \A b \in Buckets : (stale[b] \/ b \in dead) \in BOOLEAN
    OBVIOUS
  <2>3. stale' \in [Buckets -> BOOLEAN]
    BY <2>1, <2>2, Zenon
  <2>4. /\ faults' \in 0 .. MaxFaults /\ connected' = FALSE
        /\ UNCHANGED <<store, changes, restarting, configured, todo, pc, queue, cache, enabled, lookup,
                       cancelled, closing, applied, overtaken, missed>>
    BY <1>3 DEF Disconnect, server, local, history, TypeOK
  <2> QED
    BY <2>3, <2>4 DEF TypeOK
<1>4. CASE Reconnect
  BY <1>4 DEF Reconnect, server, watchers, local, TypeOK
<1>c. ASSUME NEW b \in Buckets, CloseChannel(b)
      PROVE  /\ pc' \in [Buckets -> {"none", "created", "consume", "closed", "backoff", "done"}]
             /\ queue' \in [Buckets -> Seq(Updates)] /\ stale' \in [Buckets -> BOOLEAN]
  <2>1. PICK n \in 0 .. Len(queue[b]) : queue' = [queue EXCEPT ![b] = SubSeq(@, 1, n)]
    BY <1>c DEF CloseChannel
  <2>2. SubSeq(queue[b], 1, n) \in Seq(Updates)
    BY PrefixFacts DEF TypeOK
  <2> QED
    BY <1>c, <2>1, <2>2 DEF CloseChannel, TypeOK
<1>5. ASSUME NEW b \in Buckets, Drop(b) PROVE TypeOK'
  BY <1>5, <1>c DEF Drop, server, local, history, TypeOK
<1>w. ASSUME NEW b \in Buckets, \E q \in Replays(b) : queue' = [queue EXCEPT ![b] = q]
      PROVE  queue' \in [Buckets -> Seq(Updates)]
  BY <1>w, ReplayFacts DEF TypeOK
<1>6. ASSUME NEW b \in Buckets, WatchBucket(b) PROVE TypeOK'
  BY <1>6, <1>w DEF WatchBucket, server, network, local, history, TypeOK
<1>7. ASSUME NEW b \in Buckets, Registered(b) PROVE TypeOK'
  BY <1>7 DEF Registered, server, network, local, history, TypeOK
<1>8. ASSUME NEW b \in Buckets, WatchBucketFails(b) PROVE TypeOK'
  BY <1>8 DEF WatchBucketFails, StaysEnabled, server, network, watchers, history, TypeOK
<1>9. ASSUME NEW b \in Buckets, StopStale(b) PROVE TypeOK'
  BY <1>9, <1>c DEF StopStale, server, watchers, local, TypeOK
<1>10. ASSUME NEW b \in Buckets, handleKVUpdate(b) PROVE TypeOK'
  <2>1. /\ Tail(queue[b]) \in Seq(Updates) /\ Head(queue[b]) \in Updates
    BY <1>10, TailFacts DEF handleKVUpdate, TypeOK
  <2> DEFINE u == Head(queue[b])
  <2>2. u.slot \in Slots /\ u.entry \in Entries /\ u.entry.rev \in 0 .. MaxChanges
    BY <2>1 DEF Updates, Entries
  <2>3. Parsed(u.entry, cache[u.slot]) \in Values \cup {None}
    BY <2>2, ValueTypes DEF Parsed
  <2> QED
    BY <1>10, <2>1, <2>2, <2>3 DEF handleKVUpdate, server, network, TypeOK
<1>11. ASSUME NEW b \in Buckets, ChannelClosed(b) PROVE TypeOK'
  BY <1>11 DEF ChannelClosed, server, network, local, history, TypeOK
<1>12. ASSUME NEW b \in Buckets, Rewatch(b) PROVE TypeOK'
  BY <1>12, <1>w DEF Rewatch, server, network, local, history, TypeOK
<1>13. ASSUME NEW b \in Buckets, Install(b) PROVE TypeOK'
  BY <1>13 DEF Install, server, network, local, history, TypeOK
<1>14. ASSUME NEW b \in Buckets, ContextDone(b) PROVE TypeOK'
  BY <1>14 DEF ContextDone, server, network, local, history, TypeOK
<1>15. ASSUME NEW w \in Workers, NEW s \in Slots, Field(w, s) PROVE TypeOK'
  <2>1. store[s].rev \in 0 .. MaxChanges /\ cache[s] \in Answers
    BY ValueTypes DEF TypeOK, Entries
  <2>2. lookup' \in [Workers -> Lookups]
    BY <1>15, <2>1, ValueTypes DEF Field, Lookups, TypeOK
  <2> QED
    BY <1>15, <2>2 DEF Field, server, network, watchers, local, history, TypeOK
<1>16. ASSUME NEW w \in Workers, getFromNATSKV(w) PROVE TypeOK'
  <2> DEFINE e == store[lookup[w].slot]
             v == IF e.kind = "json" THEN Value(e, "lookup") ELSE [None EXCEPT !.rev = e.rev]
  <2>1. e \in Entries
    BY <1>16 DEF getFromNATSKV, LookupsMean, TypeOK
  <2>2. v \in Answers
    BY <2>1, ValueTypes
  <2> HIDE DEF v
  <2>3. PICK at \in {"write", "answered"} :
          lookup' = [lookup EXCEPT ![w] = [@ EXCEPT !.at = at, !.got = v]]
    BY <1>16 DEF getFromNATSKV, v
  <2>4. lookup' \in [Workers -> Lookups]
    BY <2>2, <2>3 DEF Lookups, TypeOK
  <2> QED
    BY <1>16, <2>4 DEF getFromNATSKV, server, network, watchers, local, history, TypeOK
<1>17. ASSUME NEW w \in Workers, FetchFails(w) PROVE TypeOK'
  <2>1. Idle \in Lookups
    BY ValueTypes DEF Idle, Lookups
  <2> QED
    BY <1>17, <2>1 DEF FetchFails, server, network, watchers, local, history, TypeOK
<1>18. ASSUME NEW w \in Workers, Set(w) PROVE TypeOK'
  <2>1. lookup[w].slot \in Slots /\ lookup[w].got \in Values
    BY <1>18 DEF Set, LookupsMean
  <2>2. lookup' \in [Workers -> Lookups]
    BY <1>18 DEF Set, Lookups, TypeOK
  <2> QED
    BY <1>18, <2>1, <2>2 DEF Set, server, network, watchers, TypeOK
<1>19. CASE Close
  BY <1>19 DEF Close, server, network, local, history, TypeOK
<1>20. CASE CloseReturns \/ CloseTimesOut
  BY <1>20 DEF CloseReturns, CloseTimesOut, server, network, watchers, local, history, TypeOK
<1>21. CASE UNCHANGED vars
  BY <1>21 DEF vars, TypeOK
<1> QED
  BY <1>1, <1>2, <1>3, <1>4, <1>5, <1>6, <1>7, <1>8, <1>9, <1>10, <1>11, <1>12, <1>13, <1>14,
     <1>15, <1>16, <1>17, <1>18, <1>19, <1>20, <1>21 DEF Next, Put, Delete, Watcher

\* Each part of the invariant speaks of a few variables only.
LEMMA Frames ==
  ASSUME Rest
  PROVE  /\ UNCHANGED <<applied, store, changes, cache, overtaken>> => RevisionsMean'
         /\ UNCHANGED <<queue, applied, store>> => QueueMeans'
         /\ UNCHANGED <<pc, stale, cancelled, store, applied, queue>> => Synced'
         /\ UNCHANGED <<pc, stale, cancelled, connected, restarting, missed>> => WatchersMean'
         /\ UNCHANGED <<lookup, todo, store, enabled>> => LookupsMean'
         /\ UNCHANGED <<enabled, todo, pc, cache, configured>> => EnabledMeans'
<1>1. UNCHANGED <<applied, store, changes, cache, overtaken>> => RevisionsMean'
  BY DEF Rest, RevisionsMean
<1>2. UNCHANGED <<queue, applied, store>> => QueueMeans'
  BY DEF Rest, QueueMeans, InOrder
<1>3. UNCHANGED <<pc, stale, cancelled, store, applied, queue>> => Synced'
  BY DEF Rest, Synced, Served, Watchable, Queued
<1>4. UNCHANGED <<pc, stale, cancelled, connected, restarting, missed>> => WatchersMean'
  BY DEF Rest, WatchersMean
<1>5. UNCHANGED <<lookup, todo, store, enabled>> => LookupsMean'
  BY DEF Rest, LookupsMean
<1>6. UNCHANGED <<enabled, todo, pc, cache, configured>> => EnabledMeans'
  BY DEF Rest, EnabledMeans
<1> QED
  BY <1>1, <1>2, <1>3, <1>4, <1>5, <1>6

\* Operators and the server keep the invariant.
LEMMA StoreKeeps ==
  ASSUME IndInv, NEW s \in Slots
  PROVE  /\ \A kind \in {"json", "text", "del"} : Change(s, kind) => Rest'
         /\ Compact(s) => Rest'
<1> USE BoundAssumption DEF IndInv
<1>t. /\ \A t \in Slots : /\ store[t] \in Entries /\ store[t].rev \in Nat /\ applied[t] \in Nat
                          /\ cache[t] \in Values \cup {None}
      /\ changes \in Nat
      /\ \A v \in Values : v.rev \in Nat
  BY DEF TypeOK, Entries, Values
<1>1. ASSUME NEW kind \in {"json", "text", "del"}, Change(s, kind) PROVE Rest'
  <2> DEFINE e == Entry(changes + 1, kind)
  <2>1. /\ store' = [store EXCEPT ![s] = e] /\ changes' = changes + 1
        /\ e.rev = changes + 1 /\ e.kind = kind /\ e \in Entries
        /\ UNCHANGED <<faults, connected, restarting, configured, todo, pc, stale, cache, enabled,
                       lookup, cancelled, closing, applied, overtaken, missed>>
    BY <1>1 DEF Change, Entry, Entries, TypeOK, network, local, history
  <2>2. /\ store'[s] = e /\ \A t \in Slots : t # s => store'[t] = store[t]
        /\ \A t \in Slots : store[t].rev <= store'[t].rev /\ store'[t].rev \in Nat
    <3>1. store'[s] = e /\ \A t \in Slots : t # s => store'[t] = store[t]
      BY <2>1 DEF TypeOK
    <3>2. store[s].rev <= e.rev
      BY <1>t, <2>1 DEF Rest, RevisionsMean
    <3> QED
      BY <1>t, <2>1, <3>1, <3>2
  <2>3. RevisionsMean'
    <3> SUFFICES ASSUME NEW t \in Slots
                 PROVE  /\ applied[t] <= store'[t].rev /\ store'[t].rev <= changes + 1
                        /\ cache[t] # None =>
                             /\ cache[t].rev <= store'[t].rev
                             /\ t \in overtaken \/ applied[t] <= cache[t].rev
      BY <2>1 DEF RevisionsMean
    <3>1. /\ applied[t] <= store[t].rev /\ store[t].rev <= changes
          /\ cache[t] # None => /\ cache[t].rev <= store[t].rev
                                /\ t \in overtaken \/ applied[t] <= cache[t].rev
      BY DEF Rest, RevisionsMean
    <3>2. cache[t] # None => cache[t].rev \in Nat
      BY <1>t
    <3>3. store'[t].rev = changes + 1 \/ store'[t].rev = store[t].rev
      BY <2>1, <2>2
    <3> QED
      BY <1>t, <2>2, <3>1, <3>2, <3>3
  <2> DEFINE b == s[1]
             u == [slot |-> s, entry |-> e]
             shown == Served(b) /\ Watchable(s)
  <2>4. b \in Buckets /\ u \in Updates /\ u.slot = s /\ u.entry = e
    BY <2>1, SlotParts DEF Updates
  <2>5. queue' = IF shown THEN [queue EXCEPT ![b] = Append(@, u)] ELSE queue
    <3>1. queue' = IF shown THEN [queue EXCEPT ![b] = Append(@, [slot |-> s, entry |-> store'[s]])]
                   ELSE queue
      BY <1>1 DEF Change
    <3>2. store'[s] = e
      BY <2>2
    <3> QED
      BY <3>1, <3>2, Zenon
  <2>6. queue[b] \in Seq(Updates) /\ \A c \in Buckets : queue[c] \in Seq(Updates)
    BY <2>4 DEF TypeOK
  <2>7. \A c \in Buckets : ~shown \/ c # b => queue'[c] = queue[c]
    BY <2>5 DEF TypeOK
  <2>8. shown => queue'[b] = Append(queue[b], u)
    BY <2>4, <2>5 DEF TypeOK
  <2> HIDE DEF u, b, shown, e
  <2>9. QueueMeans'
    <3> SUFFICES ASSUME NEW c \in Buckets
                 PROVE  /\ InOrder(queue'[c])
                        /\ \A i \in DOMAIN queue'[c] :
                             LET x == queue'[c][i]
                             IN /\ x.slot[1] = c /\ applied[x.slot] <= x.entry.rev
                                /\ x.entry.rev <= store'[x.slot].rev
      BY <2>1 DEF QueueMeans, InOrder
    <3>1. \A i \in DOMAIN queue[c] :
            LET x == queue[c][i]
            IN /\ x \in Updates /\ x.slot \in Slots /\ x.entry.rev \in Nat
               /\ x.slot[1] = c /\ applied[x.slot] <= x.entry.rev
               /\ x.entry.rev <= store'[x.slot].rev
      <4> SUFFICES ASSUME NEW i \in DOMAIN queue[c]
                   PROVE  LET x == queue[c][i]
                          IN /\ x \in Updates /\ x.slot \in Slots /\ x.entry.rev \in Nat
                             /\ x.slot[1] = c /\ applied[x.slot] <= x.entry.rev
                             /\ x.entry.rev <= store'[x.slot].rev
        OBVIOUS
      <4>1. queue[c][i] \in Updates
        BY <2>6
      <4>2. queue[c][i].slot \in Slots /\ queue[c][i].entry.rev \in Nat
        BY <4>1 DEF Updates, Entries
      <4>3. /\ queue[c][i].slot[1] = c /\ applied[queue[c][i].slot] <= queue[c][i].entry.rev
            /\ queue[c][i].entry.rev <= store[queue[c][i].slot].rev
        BY DEF Rest, QueueMeans
      <4> QED
        BY <1>t, <2>2, <4>1, <4>2, <4>3
    <3>2. CASE ~shown \/ c # b
      BY <2>7, <3>1, <3>2 DEF Rest, QueueMeans
    <3>3. CASE shown /\ c = b
      <4> DEFINE q == queue[b]
                 r == queue'[b]
                 n == Len(q) + 1
      <4>1. r = Append(q, u)
        BY <2>8, <3>3
      <4>2. /\ n \in DOMAIN r /\ r[n] = u
            /\ \A i \in DOMAIN q : i \in DOMAIN r /\ r[i] = q[i] /\ i < n
            /\ \A i \in DOMAIN r : i \in DOMAIN q \/ i = n
        BY <2>4, <2>6, <4>1, AppendFacts
      <4>3. n \in Nat /\ \A i \in DOMAIN q : i \in Nat
        BY <2>6
      <4>4. applied[s] <= e.rev /\ s[1] = b /\ e.rev <= store'[s].rev /\ e.rev \in Nat
        BY <1>t, <2>1, <2>2 DEF Rest, RevisionsMean, b
      <4>5. \A i \in DOMAIN q : q[i].slot = s => q[i].entry.rev <= e.rev
        BY <2>2, <3>1, <3>3
      <4>6. \A i, j \in DOMAIN q : i <= j /\ q[i].slot = q[j].slot => q[i].entry.rev <= q[j].entry.rev
        BY <2>4 DEF Rest, QueueMeans, InOrder
      <4> HIDE DEF q, r, n
      <4>7. ASSUME NEW i \in DOMAIN r, NEW j \in DOMAIN r, i <= j, r[i].slot = r[j].slot
            PROVE  r[i].entry.rev <= r[j].entry.rev
        <5>1. CASE j \in DOMAIN q
          <6>1. i \in DOMAIN q
            BY <4>2, <4>3, <4>7, <5>1
          <6> QED
            BY <4>2, <4>6, <4>7, <5>1, <6>1
        <5>2. CASE j = n /\ i \in DOMAIN q
          BY <2>4, <4>2, <4>5, <4>7, <5>2
        <5>3. CASE j = n /\ i = n
          BY <2>4, <4>2, <4>4, <5>3
        <5> QED
          BY <4>2, <5>1, <5>2, <5>3
      <4>8. ASSUME NEW i \in DOMAIN r
            PROVE  /\ r[i].slot[1] = b /\ applied[r[i].slot] <= r[i].entry.rev
                   /\ r[i].entry.rev <= store'[r[i].slot].rev
        <5>1. CASE i \in DOMAIN q
          BY <3>1, <3>3, <4>2, <5>1 DEF q
        <5>2. CASE i = n
          BY <2>4, <4>2, <4>4, <5>2
        <5> QED
          BY <4>2, <5>1, <5>2
      <4> QED
        BY <3>3, <4>7, <4>8 DEF InOrder, r
    <3> QED
      BY <3>2, <3>3
  <2>10. Synced'
    <3> SUFFICES ASSUME NEW t \in Slots, Watchable(t), Served(t[1]), store'[t].kind # "none"
                 PROVE  \/ applied[t] = store'[t].rev
                        \/ \E i \in DOMAIN queue'[t[1]] :
                             queue'[t[1]][i].slot = t /\ queue'[t[1]][i].entry.rev = store'[t].rev
      BY <2>1 DEF Synced, Served, Watchable, Queued
    <3>1. CASE t = s
      <4>1. shown /\ t[1] = b
        BY <3>1 DEF shown, b
      <4>2. /\ Len(queue[b]) + 1 \in DOMAIN queue'[b] /\ queue'[b][Len(queue[b]) + 1] = u
        BY <2>4, <2>6, <2>8, <4>1, AppendFacts
      <4> QED
        BY <2>2, <2>4, <3>1, <4>1, <4>2
    <3>2. CASE t # s
      <4>1. store'[t] = store[t]
        BY <2>2, <3>2
      <4>2. applied[t] = store[t].rev \/ Queued(t)
        BY <4>1 DEF Rest, Synced
      <4>3. ASSUME Queued(t)
            PROVE  \E i \in DOMAIN queue'[t[1]] :
                     queue'[t[1]][i].slot = t /\ queue'[t[1]][i].entry.rev = store[t].rev
        <5>1. PICK i \in DOMAIN queue[t[1]] :
                queue[t[1]][i].slot = t /\ queue[t[1]][i].entry.rev = store[t].rev
          BY <4>3 DEF Queued
        <5>2. i \in DOMAIN queue'[t[1]] /\ queue'[t[1]][i] = queue[t[1]][i]
          <6>1. CASE shown /\ t[1] = b
            BY <2>4, <2>6, <2>8, <5>1, <6>1, AppendFacts
          <6>2. CASE ~shown \/ t[1] # b
            BY <2>7, <5>1, <6>2, SlotParts
          <6> QED
            BY <6>1, <6>2
        <5> QED
          BY <5>1, <5>2
      <4> QED
        BY <4>1, <4>2, <4>3
    <3> QED
      BY <3>1, <3>2
  <2>11. LookupsMean'
    <3> SUFFICES ASSUME NEW w \in Workers
                 PROVE  /\ todo # {} => lookup[w].at = "idle"
                        /\ lookup[w].at # "idle" => lookup[w].slot \in Slots
                        /\ lookup[w].at = "fetch" =>
                             lookup[w].since <= store'[lookup[w].slot].rev
                        /\ lookup[w].at = "write" =>
                             /\ enabled
                             /\ lookup[w].got \in Values
                             /\ lookup[w].got.rev <= store'[lookup[w].slot].rev
                        /\ ~enabled /\ lookup[w].at = "answered" =>
                             lookup[w].since <= lookup[w].got.rev
      BY <2>1 DEF LookupsMean
    <3>1. lookup[w].since \in Nat /\ lookup[w].got.rev \in Nat
      BY DEF TypeOK, Lookups, Answers
    <3> QED
      BY <1>t, <2>2, <3>1 DEF Rest, LookupsMean
  <2>12. WatchersMean' /\ EnabledMeans'
    BY <2>1, Frames DEF Rest
  <2> QED
    BY <2>3, <2>9, <2>10, <2>11, <2>12 DEF Rest
<1>2. ASSUME Compact(s) PROVE Rest'
  <2>1. /\ store' = [store EXCEPT ![s].kind = "none"]
        /\ UNCHANGED <<changes, faults, connected, restarting, configured, todo, pc, queue, stale, cache,
                       enabled, lookup, cancelled, closing, applied, overtaken, missed>>
    BY <1>2 DEF Compact, network, watchers, local, history
  <2>2. /\ \A t \in Slots : store'[t].rev = store[t].rev
        /\ store'[s].kind = "none" /\ \A t \in Slots : t # s => store'[t] = store[t]
    BY <2>1 DEF TypeOK, Entries
  <2>3. RevisionsMean'
    BY <2>1, <2>2 DEF Rest, RevisionsMean
  <2>4. QueueMeans'
    <3>1. ASSUME NEW b \in Buckets, NEW i \in DOMAIN queue[b] PROVE queue[b][i].slot \in Slots
      <4>1. queue[b][i] \in Updates
        BY DEF TypeOK
      <4> QED
        BY <4>1 DEF Updates
    <3> QED
      BY <2>1, <2>2, <3>1 DEF Rest, QueueMeans, InOrder
  <2>5. Synced'
    <3> SUFFICES ASSUME NEW t \in Slots, Watchable(t), Served(t[1]), store'[t].kind # "none"
                 PROVE  \/ applied[t] = store'[t].rev
                        \/ \E i \in DOMAIN queue[t[1]] :
                             queue[t[1]][i].slot = t /\ queue[t[1]][i].entry.rev = store'[t].rev
      BY <2>1 DEF Synced, Served, Watchable, Queued
    <3>1. store'[t] = store[t]
      BY <2>2
    <3> QED
      BY <3>1 DEF Rest, Synced, Queued
  <2>6. LookupsMean'
    BY <2>1, <2>2 DEF Rest, LookupsMean
  <2>7. WatchersMean' /\ EnabledMeans'
    BY <2>1, Frames DEF Rest
  <2> QED
    BY <2>3, <2>4, <2>5, <2>6, <2>7 DEF Rest
<1> QED
  BY <1>1, <1>2

\* A closed channel keeps only what it held; its watcher is no longer served.
LEMMA ClosedKeeps ==
  ASSUME IndInv, NEW b \in Buckets, CloseChannel(b), pc[b] = "consume",
         UNCHANGED <<store, applied, cancelled, connected, enabled, todo, cache, configured>>,
         restarting' = restarting \/ restarting' = restarting \ {b}, missed' = missed
  PROVE  QueueMeans' /\ Synced' /\ WatchersMean' /\ EnabledMeans'
<1> USE DEF IndInv
<1>1. PICK n \in 0 .. Len(queue[b]) : queue' = [queue EXCEPT ![b] = SubSeq(@, 1, n)]
  BY DEF CloseChannel
<1>2. /\ \A i \in DOMAIN queue'[b] : i \in DOMAIN queue[b] /\ queue'[b][i] = queue[b][i]
      /\ \A c \in Buckets : c # b => queue'[c] = queue[c]
  <2>1. queue[b] \in Seq(Updates) /\ queue'[b] = SubSeq(queue[b], 1, n)
    BY <1>1 DEF TypeOK
  <2>2. \A i \in DOMAIN queue'[b] : i \in DOMAIN queue[b] /\ queue'[b][i] = queue[b][i]
    BY <2>1, PrefixFacts
  <2> QED
    BY <1>1, <2>2 DEF TypeOK
<1>3. /\ pc'[b] = "closed" /\ stale'[b] = FALSE
      /\ \A c \in Buckets : c # b => pc'[c] = pc[c] /\ stale'[c] = stale[c]
  BY DEF CloseChannel, TypeOK
<1>4. \A c \in Buckets : \A i \in DOMAIN queue'[c] : i \in DOMAIN queue[c] /\ queue'[c][i] = queue[c][i]
  BY <1>2
<1>5. QueueMeans'
  BY <1>4 DEF Rest, QueueMeans, InOrder
<1>6. Synced'
  <2> SUFFICES ASSUME NEW t \in Slots, Watchable(t), Served(t[1])', store[t].kind # "none"
               PROVE  applied[t] = store[t].rev \/ Queued(t)'
    BY DEF Synced, Watchable
  <2>1. t[1] # b /\ t[1] \in Buckets
    BY <1>3, SlotParts DEF Served
  <2>2. Served(t[1])
    BY <1>3, <2>1 DEF Served
  <2> QED
    BY <1>2, <2>1, <2>2 DEF Rest, Synced, Queued
<1>7. WatchersMean'
  BY <1>3 DEF Rest, WatchersMean
<1>8. EnabledMeans'
  BY <1>3, SlotParts DEF Rest, EnabledMeans
<1> QED
  BY <1>5, <1>6, <1>7, <1>8

\* A new watcher's channel makes up for whatever was missed before.
LEMMA CreatedKeeps ==
  ASSUME IndInv, NEW b \in Buckets, pc' = [pc EXCEPT ![b] = "created"], pc[b] \in {"none", "backoff"},
         \E q \in Replays(b) : queue' = [queue EXCEPT ![b] = q],
         UNCHANGED <<store, applied, stale, cancelled, connected, restarting, missed, enabled, todo,
                     cache, configured>>,
         enabled
  PROVE  QueueMeans' /\ Synced' /\ WatchersMean' /\ EnabledMeans'
<1> USE BoundAssumption DEF IndInv
<1>1. PICK q \in Replays(b) : queue' = [queue EXCEPT ![b] = q]
  OBVIOUS
<1>2. /\ q \in Seq(Updates)
      /\ \A i \in DOMAIN q : q[i].slot \in Slots /\ q[i].slot[1] = b /\ q[i] = Update(q[i].slot)
      /\ InOrder(q)
      /\ \A s \in Slots : s[1] = b /\ Watchable(s) /\ store[s].kind # "none" =>
           \E i \in DOMAIN q : q[i] = Update(s)
  BY ReplayFacts DEF TypeOK
<1>3. queue'[b] = q /\ \A c \in Buckets : c # b => queue'[c] = queue[c]
  BY <1>1 DEF TypeOK
<1>4. pc'[b] = "created" /\ \A c \in Buckets : c # b => pc'[c] = pc[c]
  BY DEF TypeOK
<1>5. \A s \in Slots : Update(s).slot = s /\ Update(s).entry.rev = store[s].rev /\ store[s].rev \in Nat
                       /\ applied[s] <= store[s].rev
  BY DEF Update, TypeOK, Entries, Rest, RevisionsMean
<1>6. QueueMeans'
  <2>1. \A i \in DOMAIN q : /\ q[i].slot[1] = b /\ applied[q[i].slot] <= q[i].entry.rev
                            /\ q[i].entry.rev <= store[q[i].slot].rev
    BY <1>2, <1>5
  <2> QED
    BY <1>2, <1>3, <2>1 DEF Rest, QueueMeans, InOrder
<1>7. Synced'
  <2> SUFFICES ASSUME NEW t \in Slots, Watchable(t), Served(t[1])', store[t].kind # "none"
               PROVE  applied[t] = store[t].rev \/ Queued(t)'
    BY DEF Synced, Watchable
  <2>1. CASE t[1] = b
    BY <1>2, <1>3, <1>5, <2>1 DEF Queued
  <2>2. CASE t[1] # b
    <3>1. Served(t[1]) /\ queue'[t[1]] = queue[t[1]]
      BY <1>3, <1>4, <2>2, SlotParts DEF Served
    <3> QED
      BY <3>1 DEF Rest, Synced, Queued
  <2> QED
    BY <2>1, <2>2
<1>8. WatchersMean'
  BY <1>4 DEF Rest, WatchersMean
<1>9. EnabledMeans'
  BY <1>4, SlotParts DEF Rest, EnabledMeans
<1> QED
  BY <1>6, <1>7, <1>8, <1>9

\* Applying an update keeps the invariant.
LEMMA UpdateKeeps ==
  ASSUME IndInv, NEW b \in Buckets, handleKVUpdate(b)
  PROVE  Rest'
<1> USE BoundAssumption DEF IndInv
<1> DEFINE q == queue[b]
           u == Head(q)
           s == u.slot
           r == u.entry.rev
<1>1. q \in Seq(Updates) /\ q # <<>> /\ queue'[b] = Tail(q)
      /\ \A c \in Buckets : c # b => queue'[c] = queue[c]
  BY DEF handleKVUpdate, TypeOK
<1>2. /\ u = q[1] /\ 1 \in DOMAIN q /\ u \in Updates
      /\ \A i \in DOMAIN queue'[b] : i \in Nat /\ i + 1 \in DOMAIN q /\ queue'[b][i] = q[i + 1]
      /\ \A i \in DOMAIN q : /\ i \in Nat /\ i >= 1
                             /\ i # 1 => i - 1 \in DOMAIN queue'[b] /\ queue'[b][i - 1] = q[i]
  BY <1>1, TailFacts
<1>3. s \in Slots /\ u.entry \in Entries /\ r \in Nat /\ s[1] = b /\ applied[s] <= r /\ r <= store[s].rev
  <2>1. s \in Slots /\ u.entry \in Entries /\ r \in Nat
    BY <1>2 DEF Updates, Entries
  <2>2. s[1] = b /\ applied[s] <= r /\ r <= store[s].rev
    BY <1>2 DEF Rest, QueueMeans
  <2> QED
    BY <2>1, <2>2
<1>4. \A i \in DOMAIN q : q[i].slot = s => r <= q[i].entry.rev
  BY <1>2 DEF Rest, QueueMeans, InOrder
<1>5. enabled
  BY DEF handleKVUpdate, Rest, EnabledMeans
<1>6. /\ applied' = [applied EXCEPT ![s] = r] /\ overtaken' = overtaken \ {s}
      /\ cache' = [cache EXCEPT ![s] = Parsed(u.entry, @)]
      /\ UNCHANGED <<store, changes, faults, connected, restarting, configured, todo, pc, stale, enabled,
                     lookup, cancelled, closing, missed>>
  BY <1>5 DEF handleKVUpdate, server, network
<1>7. /\ applied'[s] = r /\ \A t \in Slots : t # s => applied'[t] = applied[t]
      /\ \A t \in Slots : t # s => cache'[t] = cache[t]
      /\ cache'[s] # None => cache'[s].rev = r
  <2>1. Parsed(u.entry, cache[s]) # None => Parsed(u.entry, cache[s]).rev = r
    BY <1>3, ValueTypes DEF Parsed
  <2> QED
    BY <1>3, <1>6, <2>1 DEF TypeOK
<1> HIDE DEF q, u, s, r
<1>8. RevisionsMean'
  <2> SUFFICES ASSUME NEW t \in Slots
               PROVE  /\ applied'[t] <= store[t].rev /\ store[t].rev <= changes
                      /\ cache'[t] # None =>
                           /\ cache'[t].rev <= store[t].rev
                           /\ t \in overtaken' \/ applied'[t] <= cache'[t].rev
    BY <1>6 DEF RevisionsMean
  <2>1. CASE t = s
    BY <1>3, <1>7, <2>1 DEF Rest, RevisionsMean
  <2>2. CASE t # s
    BY <1>6, <1>7, <2>2 DEF Rest, RevisionsMean
  <2> QED
    BY <2>1, <2>2
<1>9. QueueMeans'
  <2> SUFFICES ASSUME NEW c \in Buckets
               PROVE  /\ InOrder(queue'[c])
                      /\ \A i \in DOMAIN queue'[c] :
                           LET x == queue'[c][i]
                           IN /\ x.slot[1] = c /\ applied'[x.slot] <= x.entry.rev
                              /\ x.entry.rev <= store[x.slot].rev
    BY <1>6 DEF QueueMeans, InOrder
  <2>1. CASE c = b
    <3>1. \A i \in DOMAIN q : /\ q[i].slot[1] = b /\ applied[q[i].slot] <= q[i].entry.rev
                              /\ q[i].entry.rev <= store[q[i].slot].rev /\ q[i].slot \in Slots
      <4>1. \A i \in DOMAIN q : q[i] \in Updates
        BY <1>1
      <4>2. \A i \in DOMAIN q : q[i].slot \in Slots
        BY <4>1 DEF Updates
      <4> QED
        BY <4>2 DEF Rest, QueueMeans, q
    <3>2. \A i \in DOMAIN q : applied'[q[i].slot] <= q[i].entry.rev
      BY <1>4, <1>7, <3>1
    <3>3. InOrder(q)
      BY DEF Rest, QueueMeans, q
    <3>4. InOrder(queue'[b])
      <4> SUFFICES ASSUME NEW i \in DOMAIN queue'[b], NEW j \in DOMAIN queue'[b], i <= j,
                          queue'[b][i].slot = queue'[b][j].slot
                   PROVE  queue'[b][i].entry.rev <= queue'[b][j].entry.rev
        BY DEF InOrder
      <4>1. i + 1 \in DOMAIN q /\ j + 1 \in DOMAIN q /\ i + 1 <= j + 1
        BY <1>2
      <4>2. queue'[b][i] = q[i + 1] /\ queue'[b][j] = q[j + 1]
        BY <1>2
      <4> QED
        BY <3>3, <4>1, <4>2 DEF InOrder
    <3> QED
      BY <1>2, <2>1, <3>1, <3>2, <3>4
  <2>2. CASE c # b
    <3>1. \A i \in DOMAIN queue[c] : queue[c][i].slot # s /\ queue[c][i].slot \in Slots
      <4> SUFFICES ASSUME NEW i \in DOMAIN queue[c]
                   PROVE  queue[c][i].slot # s /\ queue[c][i].slot \in Slots
        OBVIOUS
      <4>1. queue[c][i] \in Updates
        BY DEF TypeOK
      <4>2. queue[c][i].slot[1] = c
        BY DEF Rest, QueueMeans
      <4> QED
        BY <1>3, <2>2, <4>1, <4>2 DEF Updates
    <3> QED
      BY <1>1, <1>7, <2>2, <3>1 DEF Rest, QueueMeans
  <2> QED
    BY <2>1, <2>2
<1>10. Synced'
  <2> SUFFICES ASSUME NEW t \in Slots, Watchable(t), Served(t[1]), store[t].kind # "none"
               PROVE  applied'[t] = store[t].rev \/ Queued(t)'
    BY <1>6 DEF Synced, Served, Watchable
  <2>0. store[t].rev \in Nat /\ applied[t] \in Nat
    BY DEF TypeOK, Entries
  <2>1. CASE t[1] # b
    <3>1. t # s /\ queue'[t[1]] = queue[t[1]]
      BY <1>1, <1>3, <2>1, SlotParts
    <3> QED
      BY <1>6, <1>7, <3>1 DEF Rest, Synced, Queued
  <2>2. CASE t[1] = b /\ applied[t] = store[t].rev
    <3>1. t = s => r = store[t].rev
      BY <1>3, <2>0, <2>2
    <3> QED
      BY <1>7, <2>2, <3>1
  <2>3. CASE t[1] = b /\ Queued(t)
    <3>1. PICK i \in DOMAIN q : q[i].slot = t /\ q[i].entry.rev = store[t].rev
      BY <2>3 DEF Queued, q
    <3>2. CASE i = 1
      BY <1>2, <1>7, <3>1, <3>2 DEF s, r
    <3>3. CASE i # 1
      <4>1. i - 1 \in DOMAIN queue'[b] /\ queue'[b][i - 1] = q[i]
        BY <1>2, <3>3
      <4> QED
        BY <1>6, <2>3, <3>1, <4>1 DEF Queued
    <3> QED
      BY <3>2, <3>3
  <2> QED
    BY <2>1, <2>2, <2>3 DEF Rest, Synced
<1>11. WatchersMean' /\ LookupsMean'
  BY <1>6, Frames DEF Rest
<1>12. EnabledMeans'
  <2>1. pc[s[1]] # "none"
    BY <1>3 DEF handleKVUpdate
  <2> QED
    BY <1>5, <1>6, <1>7, <2>1 DEF Rest, EnabledMeans
<1> QED
  BY <1>8, <1>9, <1>10, <1>11, <1>12 DEF Rest

\* Every other step of the connection and of the watchers keeps the invariant.
LEMMA WatchersKeep ==
  ASSUME IndInv
  PROVE  /\ Disconnect => Rest'
         /\ Reconnect => Rest'
         /\ \A b \in Buckets :
              (Drop(b) \/ WatchBucket(b) \/ Registered(b) \/ WatchBucketFails(b) \/ StopStale(b)
                 \/ Watcher(b)) => Rest'
         /\ Close => Rest'
<1> USE DEF IndInv
<1>s. \A t \in Slots : t[1] \in Buckets
  BY SlotParts
<1>1. ASSUME Disconnect PROVE Rest'
  <2>1. PICK dead \in SUBSET {b \in Buckets : pc[b] \in {"created", "consume"}} :
          stale' = [b \in Buckets |-> stale[b] \/ b \in dead]
    BY <1>1 DEF Disconnect
  <2>2. /\ connected' = FALSE
        /\ UNCHANGED <<store, changes, restarting, configured, todo, pc, queue, cache, enabled, lookup,
                       cancelled, closing, applied, overtaken, missed>>
    BY <1>1 DEF Disconnect, server, local, history
  <2>3. \A b \in Buckets : (stale[b] => stale'[b]) /\ (stale'[b] => stale[b] \/ b \in dead)
    BY <2>1
  <2>4. Synced'
    BY <1>s, <2>2, <2>3 DEF Rest, Synced, Served, Watchable, Queued
  <2>5. WatchersMean'
    BY <2>2, <2>3 DEF Rest, WatchersMean
  <2> QED
    BY <2>2, <2>4, <2>5, Frames DEF Rest
<1>2. ASSUME Reconnect PROVE Rest'
  <2>1. WatchersMean'
    BY <1>2 DEF Reconnect, watchers, Rest, WatchersMean, TypeOK
  <2>2. UNCHANGED <<store, changes, configured, todo, pc, queue, stale, cache, enabled, lookup,
                    cancelled, closing, applied, overtaken>>
    BY <1>2 DEF Reconnect, server, watchers, local
  <2> QED
    BY <2>1, <2>2, Frames DEF Rest
<1>3. ASSUME NEW b \in Buckets, Drop(b) PROVE Rest'
  <2>1. /\ CloseChannel(b) /\ pc[b] = "consume"
        /\ UNCHANGED <<store, changes, connected, restarting, configured, todo, cache, enabled, lookup,
                       cancelled, closing, applied, overtaken, missed>>
    BY <1>3 DEF Drop, server, local, history
  <2> QED
    BY <2>1, ClosedKeeps, Frames DEF Rest
<1>4. ASSUME NEW b \in Buckets, WatchBucket(b) PROVE Rest'
  <2>1. /\ pc' = [pc EXCEPT ![b] = "created"] /\ pc[b] = "none" /\ b \in todo
        /\ \E q \in Replays(b) : queue' = [queue EXCEPT ![b] = q]
        /\ UNCHANGED <<store, changes, connected, restarting, configured, todo, stale, cache, enabled,
                       lookup, cancelled, closing, applied, overtaken, missed>>
    BY <1>4 DEF WatchBucket, server, network, local, history
  <2>2. enabled
    BY <2>1 DEF Rest, EnabledMeans
  <2> QED
    BY <2>1, <2>2, CreatedKeeps, Frames DEF Rest
<1>5. ASSUME NEW b \in Buckets, Rewatch(b) PROVE Rest'
  <2>1. /\ pc' = [pc EXCEPT ![b] = "created"] /\ pc[b] = "backoff"
        /\ \E q \in Replays(b) : queue' = [queue EXCEPT ![b] = q]
        /\ UNCHANGED <<store, changes, connected, restarting, configured, todo, stale, cache, enabled,
                       lookup, cancelled, closing, applied, overtaken, missed>>
    BY <1>5 DEF Rewatch, server, network, local, history
  <2>2. enabled
    BY <2>1 DEF Rest, EnabledMeans
  <2> QED
    BY <2>1, <2>2, CreatedKeeps, Frames DEF Rest
<1>p. ASSUME NEW b \in Buckets, NEW p \in {"consume", "backoff", "done"}, pc' = [pc EXCEPT ![b] = p],
             p = "done" => cancelled, p = "consume" => pc[b] = "created",
             p = "backoff" => pc[b] = "closed", pc[b] # "none", todo' \subseteq todo,
             UNCHANGED <<store, changes, connected, restarting, configured, queue, stale, cache, enabled,
                         lookup, cancelled, applied, overtaken, missed>>
      PROVE  Rest'
  <2>1. pc'[b] = p /\ \A c \in Buckets : c # b => pc'[c] = pc[c]
    BY <1>p DEF TypeOK
  <2>2. Synced'
    BY <1>s, <1>p, <2>1 DEF Rest, Synced, Served, Watchable, Queued
  <2>3. WatchersMean'
    BY <1>p, <2>1 DEF Rest, WatchersMean
  <2>4. EnabledMeans'
    BY <1>s, <1>p, <2>1 DEF Rest, EnabledMeans
  <2>5. LookupsMean'
    BY <1>p DEF Rest, LookupsMean
  <2> QED
    BY <1>p, <2>2, <2>3, <2>4, <2>5, Frames DEF Rest
<1>6. ASSUME NEW b \in Buckets, Registered(b) PROVE Rest'
  BY <1>6, <1>p DEF Registered, server, network, local, history
<1>7. ASSUME NEW b \in Buckets, ChannelClosed(b) PROVE Rest'
  <2>1. CASE cancelled
    BY <1>7, <1>p, <2>1 DEF ChannelClosed, server, network, local, history
  <2>2. CASE ~cancelled
    BY <1>7, <1>p, <2>2 DEF ChannelClosed, server, network, local, history
  <2> QED
    BY <2>1, <2>2
<1>8. ASSUME NEW b \in Buckets, Install(b) PROVE Rest'
  <2>1. CASE cancelled
    BY <1>8, <1>p, <2>1 DEF Install, server, network, local, history
  <2>2. CASE ~cancelled
    BY <1>8, <1>p, <2>2 DEF Install, server, network, local, history
  <2> QED
    BY <2>1, <2>2
<1>9. ASSUME NEW b \in Buckets, ContextDone(b) PROVE Rest'
  BY <1>9, <1>p DEF ContextDone, SeesContext, server, network, local, history
<1>10. ASSUME NEW b \in Buckets, WatchBucketFails(b) PROVE Rest'
  <2>1. /\ b \in todo /\ pc[b] = "none" /\ todo' = todo \ {b} /\ enabled' = StaysEnabled(b)
        /\ UNCHANGED <<store, changes, connected, restarting, configured, pc, queue, stale, cache, lookup,
                       cancelled, closing, applied, overtaken, missed>>
    BY <1>10 DEF WatchBucketFails, server, network, watchers, history
  <2>2. enabled /\ \A w \in Workers : lookup[w].at = "idle"
    BY <2>1 DEF Rest, EnabledMeans, LookupsMean
  <2>3. LookupsMean'
    BY <2>1, <2>2 DEF LookupsMean
  <2>4. EnabledMeans'
    <3>1. ASSUME ~enabled'
          PROVE  todo' = {} /\ (\A c \in Buckets : pc[c] = "none")
      BY <2>1, <2>2, <3>1 DEF StaysEnabled
    <3>2. \A t \in Slots : pc[t[1]] = "none" => cache[t] = None
      BY <2>1 DEF Rest, EnabledMeans
    <3>3. ASSUME todo' = {}, \A c \in Buckets : pc[c] = "none" PROVE ~enabled'
      BY <2>1, <3>3 DEF StaysEnabled
    <3> QED
      BY <1>s, <2>1, <3>1, <3>2, <3>3 DEF EnabledMeans
  <2> QED
    BY <2>1, <2>3, <2>4, Frames DEF Rest
<1>11. ASSUME NEW b \in Buckets, StopStale(b) PROVE Rest'
  <2>1. /\ restarting' = restarting \ {b}
        /\ UNCHANGED <<store, changes, connected, configured, todo, cache, enabled, lookup,
                       cancelled, closing, applied, overtaken>>
    BY <1>11 DEF StopStale, server, local
  <2>2. CASE pc[b] = "consume"
    <3>1. CloseChannel(b) /\ missed' = missed
      BY <1>11, <2>2 DEF StopStale
    <3> QED
      BY <2>1, <2>2, <3>1, ClosedKeeps, Frames DEF Rest
  <2>3. CASE pc[b] # "consume"
    <3>1. /\ UNCHANGED <<pc, queue, stale>>
          /\ missed' = IF pc[b] = "created" /\ stale[b] THEN missed \cup {b} ELSE missed
      BY <1>11, <2>3 DEF StopStale, watchers
    <3>2. WatchersMean'
      BY <2>1, <2>3, <3>1 DEF Rest, WatchersMean
    <3> QED
      BY <2>1, <3>1, <3>2, Frames DEF Rest
  <2> QED
    BY <2>2, <2>3
<1>12. ASSUME Close PROVE Rest'
  <2>1. /\ pc' = [b \in Buckets |-> IF pc[b] = "consume" THEN "closed" ELSE pc[b]] /\ cancelled' = TRUE
        /\ UNCHANGED <<store, changes, connected, restarting, configured, todo, queue, stale, cache,
                       enabled, lookup, applied, overtaken, missed>>
    BY <1>12 DEF Close, server, network, local, history
  <2>2. Synced' /\ WatchersMean'
    BY <2>1 DEF Synced, Served, WatchersMean
  <2>3. EnabledMeans'
    <3>1. \A b \in Buckets : pc'[b] = "none" <=> pc[b] = "none"
      BY <2>1
    <3> QED
      BY <1>s, <2>1, <3>1 DEF Rest, EnabledMeans
  <2> QED
    BY <2>1, <2>2, <2>3, Frames DEF Rest
<1> QED
  BY <1>1, <1>2, <1>3, <1>4, <1>5, <1>6, <1>7, <1>8, <1>9, <1>10, <1>11, <1>12, UpdateKeeps DEF Watcher

\* Lookups keep the invariant.
LEMMA LookupsKeep ==
  ASSUME IndInv, NEW w \in Workers,
         (\E s \in Slots : Field(w, s)) \/ getFromNATSKV(w) \/ FetchFails(w) \/ Set(w)
  PROVE  Rest'
<1> USE BoundAssumption DEF IndInv
<1>e. \A t \in Slots : store[t] \in Entries /\ store[t].rev \in Nat /\ applied[t] \in Nat
  BY DEF TypeOK, Entries
<1>1. ASSUME NEW s \in Slots, Field(w, s) PROVE Rest'
  <2>1. /\ todo = {}
        /\ lookup' = [lookup EXCEPT ![w] =
             [at |-> IF enabled /\ cache[s] # None THEN "answered" ELSE "fetch",
              slot |-> s, since |-> store[s].rev, got |-> IF enabled THEN cache[s] ELSE None]]
        /\ UNCHANGED <<store, changes, connected, restarting, configured, todo, pc, queue, stale, cache,
                       enabled, cancelled, applied, overtaken, missed>>
    BY <1>1 DEF Field, server, network, watchers, local, history
  <2>2. /\ lookup'[w].at = IF enabled /\ cache[s] # None THEN "answered" ELSE "fetch"
        /\ lookup'[w].slot = s /\ lookup'[w].since = store[s].rev
        /\ \A v \in Workers : v # w => lookup'[v] = lookup[v]
    BY <2>1 DEF TypeOK
  <2>3. LookupsMean'
    BY <1>e, <2>1, <2>2 DEF Rest, LookupsMean
  <2> QED
    BY <2>1, <2>3, Frames DEF Rest
<1>2. ASSUME getFromNATSKV(w) PROVE Rest'
  <2> DEFINE s == lookup[w].slot
             v == IF store[s].kind = "json" THEN Value(store[s], "lookup")
                  ELSE [None EXCEPT !.rev = store[s].rev]
             a == IF store[s].kind = "json" /\ enabled THEN "write" ELSE "answered"
  <2>1. /\ lookup[w].at = "fetch" /\ lookup' = [lookup EXCEPT ![w] = [@ EXCEPT !.at = a, !.got = v]]
        /\ UNCHANGED <<store, changes, connected, restarting, configured, todo, pc, queue, stale, cache,
                       enabled, cancelled, applied, overtaken, missed>>
    BY <1>2 DEF getFromNATSKV, server, network, watchers, local, history
  <2>2. s \in Slots /\ lookup[w].since <= store[s].rev /\ store[s] \in Entries
    BY <1>e, <2>1 DEF Rest, LookupsMean
  <2>3. v.rev = store[s].rev /\ (a = "write" => v \in Values /\ enabled) /\ a \in {"write", "answered"}
    BY <2>2, ValueTypes
  <2> HIDE DEF v, a
  <2>4. /\ lookup'[w].at = a /\ lookup'[w].slot = s /\ lookup'[w].since = lookup[w].since
        /\ lookup'[w].got = v
        /\ \A x \in Workers : x # w => lookup'[x] = lookup[x]
    BY <2>1 DEF TypeOK, Lookups
  <2>5. todo = {}
    BY <2>1 DEF Rest, LookupsMean
  <2>6. LookupsMean'
    <3> SUFFICES ASSUME NEW x \in Workers
                 PROVE  /\ lookup'[x].at # "idle" => lookup'[x].slot \in Slots
                        /\ lookup'[x].at = "fetch" =>
                             lookup'[x].since <= store[lookup'[x].slot].rev
                        /\ lookup'[x].at = "write" =>
                             /\ enabled
                             /\ lookup'[x].got \in Values
                             /\ lookup'[x].got.rev <= store[lookup'[x].slot].rev
                        /\ ~enabled /\ lookup'[x].at = "answered" =>
                             lookup'[x].since <= lookup'[x].got.rev
      BY <2>1, <2>5 DEF LookupsMean
    <3>1. CASE x = w
      BY <1>e, <2>2, <2>3, <2>4, <3>1
    <3>2. CASE x # w
      BY <2>4, <3>2 DEF Rest, LookupsMean
    <3> QED
      BY <3>1, <3>2
  <2> QED
    BY <2>1, <2>6, Frames DEF Rest
<1>3. ASSUME FetchFails(w) PROVE Rest'
  <2>1. /\ lookup' = [lookup EXCEPT ![w] = Idle]
        /\ UNCHANGED <<store, changes, connected, restarting, configured, todo, pc, queue, stale, cache,
                       enabled, cancelled, applied, overtaken, missed>>
    BY <1>3 DEF FetchFails, server, network, watchers, local, history
  <2>2. lookup'[w].at = "idle" /\ \A x \in Workers : x # w => lookup'[x] = lookup[x]
    BY <2>1 DEF TypeOK, Idle
  <2>3. LookupsMean'
    BY <2>1, <2>2 DEF Rest, LookupsMean
  <2> QED
    BY <2>1, <2>3, Frames DEF Rest
<1>4. ASSUME Set(w) PROVE Rest'
  <2> DEFINE s == lookup[w].slot
             v == lookup[w].got
  <2>1. /\ lookup[w].at = "write" /\ lookup' = [lookup EXCEPT ![w].at = "answered"]
        /\ cache' = [cache EXCEPT ![s] = v]
        /\ overtaken' = IF v.rev < applied[s] THEN overtaken \cup {s} ELSE overtaken
        /\ UNCHANGED <<store, changes, connected, restarting, configured, todo, pc, queue, stale,
                       enabled, cancelled, applied, missed>>
    BY <1>4 DEF Set, server, network, watchers
  <2>2. enabled /\ s \in Slots /\ v \in Values /\ v.rev <= store[s].rev
    BY <2>1 DEF Rest, LookupsMean
  <2>3. v.rev \in Nat
    BY <2>2 DEF Values
  <2>4. cache'[s] = v /\ \A t \in Slots : t # s => cache'[t] = cache[t]
    BY <2>1, <2>2 DEF TypeOK
  <2>5. lookup'[w].at = "answered" /\ \A x \in Workers : x # w => lookup'[x] = lookup[x]
    BY <2>1 DEF TypeOK, Lookups
  <2>6. todo = {}
    BY <2>1 DEF Rest, LookupsMean
  <2> HIDE DEF s, v
  <2>7. RevisionsMean'
    <3> SUFFICES ASSUME NEW t \in Slots
                 PROVE  /\ applied[t] <= store[t].rev /\ store[t].rev <= changes
                        /\ cache'[t] # None =>
                             /\ cache'[t].rev <= store[t].rev
                             /\ t \in overtaken' \/ applied[t] <= cache'[t].rev
      BY <2>1 DEF RevisionsMean
    <3>1. CASE t = s
      BY <1>e, <2>1, <2>2, <2>3, <2>4, <3>1 DEF Rest, RevisionsMean
    <3>2. CASE t # s
      BY <2>1, <2>4, <3>2 DEF Rest, RevisionsMean
    <3> QED
      BY <3>1, <3>2
  <2>8. LookupsMean'
    BY <2>1, <2>2, <2>5, <2>6 DEF Rest, LookupsMean
  <2>9. EnabledMeans'
    BY <2>1, <2>2, <2>6 DEF Rest, EnabledMeans
  <2> QED
    BY <2>1, <2>7, <2>8, <2>9, Frames DEF Rest
<1> QED
  BY <1>1, <1>2, <1>3, <1>4

\* Every step of the buckets, the connection, the watchers and the lookups
\* keeps the invariant.
LEMMA NextInd == IndInv /\ [Next]_vars => IndInv'
<1> SUFFICES ASSUME IndInv, [Next]_vars PROVE Rest'
  BY NextType DEF IndInv, Rest
<1>1. CASE \E s \in Slots : Put(s) \/ Delete(s) \/ Compact(s)
  BY <1>1, StoreKeeps DEF Put, Delete
<1>2. CASE CloseReturns \/ CloseTimesOut
  <2>1. UNCHANGED <<store, changes, connected, restarting, configured, todo, pc, queue, stale, cache,
                    enabled, lookup, cancelled, applied, overtaken, missed>>
    BY <1>2 DEF CloseReturns, CloseTimesOut, server, network, watchers, local, history
  <2> QED
    BY <2>1, Frames DEF IndInv, Rest
<1>3. CASE UNCHANGED vars
  BY <1>3, Frames DEF vars, IndInv, Rest
<1>4. CASE Disconnect \/ Reconnect \/ Close
           \/ \E b \in Buckets : \/ Drop(b) \/ WatchBucket(b) \/ Registered(b) \/ WatchBucketFails(b)
                                 \/ StopStale(b) \/ Watcher(b)
  BY <1>4, WatchersKeep
<1>5. CASE \E w \in Workers : \/ \E s \in Slots : Field(w, s)
                              \/ getFromNATSKV(w) \/ FetchFails(w) \/ Set(w)
  BY <1>5, LookupsKeep
<1> QED
  BY <1>1, <1>2, <1>3, <1>4, <1>5 DEF Next

\* The inductive invariant holds of every reachable state.
THEOREM Inductive == Spec => []IndInv
BY InitInd, NextInd, PTL DEF Spec

\* A lookup answers with the bucket's value or one that is about to be
\* replaced, the four named gaps apart; and a cache whose buckets all failed
\* to be watched answers from the buckets (kv_local_cache.go, nats.go).
THEOREM LookupsFreshAlways == Spec => []LookupsFresh
<1>1. ASSUME IndInv PROVE CacheCoherent
  <2> SUFFICES ASSUME NEW s \in Slots, cache[s] # None, cache[s].rev # store[s].rev,
                      ~Unwatched(s), s \notin overtaken, ~Slipped(s), ~Compacted(s), ~cancelled
               PROVE  Coming(s)
    BY DEF CacheCoherent
  <2>1. s[1] \in Buckets /\ Watchable(s) /\ pc[s[1]] # "none" /\ s[1] \notin missed /\ store[s].kind # "none"
    BY SlotParts DEF Unwatched, Slipped, Compacted
  <2>2. cache[s].rev \in Nat /\ store[s].rev \in Nat /\ applied[s] \in Nat
    BY <1>1, BoundAssumption DEF IndInv, TypeOK, Values, Entries
  <2>3. applied[s] <= cache[s].rev /\ cache[s].rev <= store[s].rev
    BY <1>1 DEF IndInv, Rest, RevisionsMean
  <2>4. CASE pc[s[1]] \in {"closed", "backoff"}
    BY <2>1, <2>4 DEF Coming
  <2>5. CASE pc[s[1]] \in {"created", "consume"} /\ stale[s[1]]
    BY <1>1, <2>1, <2>5 DEF IndInv, Rest, WatchersMean, Coming
  <2>6. CASE pc[s[1]] \in {"created", "consume"} /\ ~stale[s[1]]
    <3>1. applied[s] = store[s].rev \/ Queued(s)
      BY <1>1, <2>1, <2>6 DEF IndInv, Rest, Synced, Served
    <3>2. applied[s] # store[s].rev
      BY <2>2, <2>3
    <3> QED
      BY <3>1, <3>2 DEF Queued, Coming
  <2>7. pc[s[1]] # "done"
    BY <1>1, <2>1 DEF IndInv, Rest, WatchersMean
  <2> QED
    BY <1>1, <2>1, <2>4, <2>5, <2>6, <2>7 DEF IndInv, TypeOK
<1>2. ASSUME IndInv PROVE DisabledReadsThrough
  <2> SUFFICES ASSUME NEW w \in Workers, configured, todo = {}, \A b \in Buckets : pc[b] = "none",
                      lookup[w].at = "answered"
               PROVE  lookup[w].got.rev >= lookup[w].since
    BY DEF DisabledReadsThrough
  <2>1. lookup[w].got.rev \in Nat /\ lookup[w].since \in Nat
    BY <1>2, BoundAssumption DEF IndInv, TypeOK, Lookups, Answers
  <2>2. CASE ~enabled
    BY <1>2, <2>1, <2>2 DEF IndInv, Rest, LookupsMean
  <2>3. lookup[w].slot \in Slots
    BY <1>2 DEF IndInv, Rest, LookupsMean
  <2>4. Buckets # {}
    BY <2>3, SlotParts
  <2> QED
    BY <1>2, <2>2, <2>4 DEF IndInv, Rest, EnabledMeans
<1>3. IndInv => LookupsFresh
  BY <1>1, <1>2 DEF LookupsFresh
<1> QED
  BY <1>3, Inductive, PTL
=============================================================================
