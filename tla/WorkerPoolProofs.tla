-------------------------- MODULE WorkerPoolProofs --------------------------
(***************************************************************************)
(* Who serves a subject, and by which iterator, for every number of        *)
(* subjects, workers and starts; and, one level up, the process that stops *)
(* and creates such pools: a reload is safe, however many come.            *)
(***************************************************************************)
EXTENDS WorkerPool, Lifecycle, TLAPS

\* Iterators and contexts exist from their start on, and a replaced one has a
\* successor.
Opened ==
  /\ \A s \in Subjects, n \in Starts : <<s, n>> \in open \cup cancelled => n <= starts[s]
  /\ \A s \in Subjects, n \in Starts : <<s, n>> \in replaced => n < starts[s]

\* A start brings its workers, and a worker waits on an iterator that exists.
Born == \A w \in Pool : at[w].where = "none" <=> starts[w[1]] < w[2]

\* Before Run nothing is replaced, and Run starts each subject once.
Replaced ==
  /\ phase \in {"create", "start"} => replaced = {}
  /\ \A s \in Subjects, m \in Starts, n \in Starts :
       <<s, m>> \in replaced /\ <<s, n>> \in replaced => m = n

\* The entries of the map hold the iterators that are open and not replaced.
MapMeans ==
  /\ kvMode => \A s \in added : starts[s] > 0
  /\ \A s \in Subjects, n \in Starts :
       <<s, n>> \in open \ replaced => s \in added /\ n = starts[s]

\* Until a shutdown only a removal stops the iterator of an entry, cancels its
\* context or ends a worker of its last start, which waits on no other iterator.
LastWorker(w) == w[1] \in added /\ w[2] = starts[w[1]]
Undisturbed ==
  phase \in {"create", "start", "run", "failed"} =>
    /\ \A s \in added : starts[s] > 0 => Latest(s) \in open /\ Latest(s) \notin cancelled
    /\ \A w \in Pool : LastWorker(w) => /\ at[w].where # "exited"
                                        /\ at[w].where = "next" => at[w].on = w[2]

\* Without the rule watcher Run is the only start.
FileMode ==
  ~kvMode => /\ replaced = {}
             /\ \A s \in Subjects : starts[s] <= 1
             /\ \A s \in Subjects : starts[s] > 0 => s \in added
             /\ phase \in {"create", "start"} => \A s \in Subjects : starts[s] = 0

Rest == Opened /\ Born /\ Replaced /\ MapMeans /\ Undisturbed /\ FileMode
IndInv == TypeOK /\ Rest

\* A worker is named by its subject, its start and its number.
LEMMA PoolParts ==
  ASSUME NEW w \in Pool PROVE w[1] \in Subjects /\ w[2] \in Starts /\ w[2] \in Nat /\ w[2] >= 1
BY StartsAssumption DEF Pool, Starts

\* The manager NewSubscriptionManager returns satisfies the invariant.
LEMMA InitInd == Init => IndInv
<1> SUFFICES ASSUME Init PROVE IndInv
  OBVIOUS
<1>1. TypeOK
  BY StartsAssumption DEF Init, TypeOK, Places, Place, Phases
<1>2. Born
  BY PoolParts DEF Init, Place, Born
<1>3. Opened /\ MapMeans /\ FileMode /\ Replaced
  BY DEF Init, Opened, MapMeans, FileMode, Replaced
<1>4. Undisturbed
  BY DEF Init, Undisturbed, LastWorker
<1> QED
  BY <1>1, <1>2, <1>3, <1>4 DEF IndInv, Rest

\* Starting a set of entries: a new one of the watcher's, or Run's, which
\* replaces the iterators the set has.
LEMMA StartKeeps ==
  ASSUME IndInv, NEW set \in SUBSET Subjects, StartAll(set),
         phase' \in Phases, UNCHANGED kvMode,
         set \subseteq added', added' \in SUBSET Subjects,
         \/ /\ kvMode /\ UNCHANGED <<phase, replaced>>
            /\ added' = added \cup set /\ set \cap added = {}
         \/ /\ phase = "start" /\ phase' \in {"run", "failed"} /\ UNCHANGED added
            /\ replaced' = replaced \cup {Latest(s) : s \in {t \in set : starts[t] > 0}}
  PROVE  IndInv'
<1> USE StartsAssumption DEF IndInv
<1>0. TypeOK /\ Rest
  OBVIOUS
<1>1. /\ \A s \in Subjects : starts[s] \in Nat /\ starts'[s] \in Nat /\ starts'[s] <= MaxStarts
      /\ \A s \in set : starts'[s] = starts[s] + 1
      /\ \A s \in Subjects \ set : starts'[s] = starts[s]
      /\ cancelled' = cancelled
  BY DEF StartAll, TypeOK
<1>2. \A s \in Subjects, n \in Starts :
        <<s, n>> \in open' <=> <<s, n>> \in open \/ (s \in set /\ n = starts[s] + 1)
  BY DEF StartAll
<1>3. \A w \in Pool : at'[w] = IF w[1] \in set /\ w[2] = starts[w[1]] + 1
                               THEN Place("loop") ELSE at[w]
  BY DEF StartAll
<1>r. \A s \in Subjects, n \in Starts :
        <<s, n>> \in replaced' =>
          \/ <<s, n>> \in replaced
          \/ phase = "start" /\ s \in set /\ n = starts[s] /\ UNCHANGED added
  BY DEF Latest
<1>s. \A s \in set, n \in Starts :
        <<s, n>> \in open => s \notin added \/ <<s, n>> \in replaced'
  <2> SUFFICES ASSUME NEW s \in set, NEW n \in Starts, <<s, n>> \in open, s \in added,
                      <<s, n>> \notin replaced'
               PROVE  FALSE
    OBVIOUS
  <2>1. phase = "start" /\ replaced' = replaced \cup {Latest(t) : t \in {u \in set : starts[u] > 0}}
    OBVIOUS
  <2>2. n = starts[s] /\ starts[s] > 0
    BY <2>1 DEF Rest, MapMeans, Starts
  <2> QED
    BY <2>1, <2>2 DEF Latest
<1>t. TypeOK'
  <2>1. starts' \in [Subjects -> 0 .. MaxStarts]
    BY DEF StartAll, TypeOK
  <2>2. open' \in SUBSET (Subjects \X Starts)
    BY DEF StartAll, TypeOK, Starts
  <2>3. Place("loop") \in Places
    BY DEF Place, Places
  <2>4. at' \in [Pool -> Places]
    BY <2>3 DEF StartAll, TypeOK
  <2>5. replaced' \in SUBSET (Subjects \X Starts)
    BY DEF TypeOK, Latest, Starts
  <2> QED
    BY <1>1, <2>1, <2>2, <2>4, <2>5 DEF TypeOK
<1>4. Opened'
  <2>1. ASSUME NEW s \in Subjects, NEW n \in Starts, <<s, n>> \in open' \cup cancelled'
        PROVE  n <= starts'[s]
    <3>1. n \in Nat
      BY DEF Starts
    <3>2. n <= starts[s] \/ (s \in set /\ n = starts[s] + 1)
      BY <1>1, <1>2, <2>1 DEF Rest, Opened
    <3> QED
      BY <1>1, <3>1, <3>2
  <2>2. ASSUME NEW s \in Subjects, NEW n \in Starts, <<s, n>> \in replaced'
        PROVE  n < starts'[s]
    <3>1. n \in Nat
      BY DEF Starts
    <3>2. n < starts[s] \/ (s \in set /\ n = starts[s])
      BY <1>r, <2>2 DEF Rest, Opened
    <3> QED
      BY <1>1, <3>1, <3>2
  <2> QED
    BY <2>1, <2>2 DEF Opened
<1>5. Born'
  <2> SUFFICES ASSUME NEW w \in Pool
               PROVE  at'[w].where = "none" <=> starts'[w[1]] < w[2]
    BY DEF Born
  <2>0. w[1] \in Subjects /\ w[2] \in Nat
    BY PoolParts
  <2>1. CASE w[1] \in set /\ w[2] = starts[w[1]] + 1
    <3>1. at'[w].where = "loop"
      BY <1>3, <2>1 DEF Place
    <3>2. ~(starts'[w[1]] < w[2])
      BY <1>1, <2>0, <2>1
    <3> QED
      BY <3>1, <3>2
  <2>2. CASE ~(w[1] \in set /\ w[2] = starts[w[1]] + 1)
    <3>1. at'[w] = at[w]
      BY <1>3, <2>2
    <3>2. starts'[w[1]] < w[2] <=> starts[w[1]] < w[2]
      BY <1>1, <2>0, <2>2
    <3> QED
      BY <3>1, <3>2 DEF Rest, Born
  <2> QED
    BY <2>1, <2>2
<1>6. Replaced'
  <2>1. phase' \in {"create", "start"} => replaced' = {}
    BY DEF Rest, Replaced
  <2>2. ASSUME NEW s \in Subjects, NEW m \in Starts, NEW n \in Starts,
               <<s, m>> \in replaced', <<s, n>> \in replaced'
        PROVE  m = n
    BY <1>r, <2>2 DEF Rest, Replaced
  <2> QED
    BY <2>1, <2>2 DEF Replaced
<1>7. MapMeans'
  <2>1. kvMode => \A s \in added' : starts'[s] > 0
    BY <1>1 DEF Rest, MapMeans, TypeOK
  <2>2. ASSUME NEW s \in Subjects, NEW n \in Starts, <<s, n>> \in open' \ replaced'
        PROVE  s \in added' /\ n = starts'[s]
    <3>1. CASE s \in set /\ n = starts[s] + 1
      BY <1>1, <3>1
    <3>2. CASE ~(s \in set /\ n = starts[s] + 1)
      <4>1. <<s, n>> \in open \ replaced
        BY <1>2, <2>2, <3>2
      <4>2. s \in added /\ n = starts[s]
        BY <4>1 DEF Rest, MapMeans
      <4>3. s \notin set
        BY <1>s, <2>2, <4>1, <4>2
      <4> QED
        BY <1>1, <4>2, <4>3
    <3> QED
      BY <3>1, <3>2
  <2> QED
    BY <2>1, <2>2 DEF MapMeans
<1>8. Undisturbed'
  <2> SUFFICES ASSUME phase' \in {"create", "start", "run", "failed"}
               PROVE  /\ \A s \in added' : starts'[s] > 0 => Latest(s)' \in open' /\ Latest(s)' \notin cancelled'
                      /\ \A w \in Pool : LastWorker(w)' => /\ at'[w].where # "exited"
                                                           /\ at'[w].where = "next" => at'[w].on = w[2]
    BY DEF Undisturbed
  <2>0. /\ \A s \in added : starts[s] > 0 => Latest(s) \in open /\ Latest(s) \notin cancelled
        /\ \A w \in Pool : LastWorker(w) => /\ at[w].where # "exited"
                                            /\ at[w].where = "next" => at[w].on = w[2]
    BY DEF Rest, Undisturbed
  <2>1. ASSUME NEW s \in added', starts'[s] > 0 PROVE Latest(s)' \in open' /\ Latest(s)' \notin cancelled'
    <3>1. s \in Subjects /\ starts'[s] \in Starts
      BY <1>1, <2>1 DEF Starts
    <3>2. CASE s \in set
      <4>1. <<s, starts'[s]>> \in open'
        BY <1>1, <1>2, <3>1, <3>2
      <4>2. ~(starts'[s] <= starts[s])
        BY <1>1, <3>2
      <4>3. <<s, starts'[s]>> \notin cancelled
        BY <3>1, <4>2 DEF Rest, Opened
      <4> QED
        BY <1>1, <4>1, <4>3 DEF Latest
    <3>3. CASE s \notin set
      <4>1. s \in added /\ starts'[s] = starts[s]
        BY <1>1, <3>1, <3>3
      <4>2. <<s, starts'[s]>> \in open /\ <<s, starts'[s]>> \notin cancelled
        BY <2>0, <2>1, <4>1 DEF Latest
      <4> QED
        BY <1>1, <1>2, <3>1, <4>2 DEF Latest
    <3> QED
      BY <3>2, <3>3
  <2>2. ASSUME NEW w \in Pool, LastWorker(w)'
        PROVE  at'[w].where # "exited" /\ (at'[w].where = "next" => at'[w].on = w[2])
    <3>1. w[1] \in Subjects /\ w[1] \in added' /\ w[2] = starts'[w[1]]
      BY <2>2, PoolParts DEF LastWorker
    <3>2. CASE w[1] \in set
      <4>1. at'[w].where = "loop"
        BY <1>1, <1>3, <3>1, <3>2 DEF Place
      <4> QED
        BY <4>1
    <3>3. CASE w[1] \notin set
      <4>1. at'[w] = at[w] /\ LastWorker(w)
        BY <1>1, <1>3, <3>1, <3>3 DEF LastWorker
      <4> QED
        BY <2>0, <4>1
    <3> QED
      BY <3>2, <3>3
  <2> QED
    BY <2>1, <2>2
<1>9. FileMode'
  <2> SUFFICES ASSUME ~kvMode PROVE FileMode'
    BY DEF FileMode
  <2>1. /\ replaced = {} /\ phase = "start" /\ phase' \in {"run", "failed"}
        /\ \A s \in Subjects : starts[s] = 0
        /\ replaced' = replaced \cup {Latest(s) : s \in {t \in set : starts[t] > 0}}
    BY DEF Rest, FileMode
  <2>2. \A s \in Subjects : starts'[s] <= 1 /\ (starts'[s] > 0 => s \in set)
    BY <1>1, <2>1
  <2>3. replaced' = {}
    BY <2>1
  <2> QED
    BY <2>1, <2>2, <2>3 DEF FileMode
<1> QED
  BY <1>t, <1>4, <1>5, <1>6, <1>7, <1>8, <1>9 DEF Rest

\* A worker's step moves that worker alone, and ends it only if its context
\* or its iterator is gone.
LEMMA WorkerKeeps ==
  ASSUME IndInv, NEW w \in Pool, NEW p \in Places,
         at[w].where \notin {"none", "exited"},
         at' = [at EXCEPT ![w] = p],
         p.where # "none",
         p.where = "next" => p.on = Iterator(w),
         p.where = "exited" => \/ ContextDone(w)
                               \/ at[w].where = "next" /\ <<w[1], at[w].on>> \notin open,
         UNCHANGED <<kvMode, added, replaced, starts, open, cancelled, phase>>
  PROVE  IndInv'
<1> USE DEF IndInv
<1>1. /\ at'[w] = p
      /\ \A v \in Pool \ {w} : at'[v] = at[v]
  BY DEF TypeOK
<1>2. TypeOK'
  BY DEF TypeOK
<1>3. Opened' /\ MapMeans' /\ FileMode' /\ Replaced'
  BY DEF Rest, Opened, MapMeans, FileMode, Replaced
<1>4. Born'
  <2>1. ~(starts[w[1]] < w[2])
    BY DEF Rest, Born
  <2> QED
    BY <1>1, <2>1 DEF Rest, Born
<1>5. Undisturbed'
  <2> SUFFICES ASSUME phase \in {"create", "start", "run", "failed"}, LastWorker(w)
               PROVE  p.where # "exited" /\ (p.where = "next" => p.on = w[2])
    BY <1>1 DEF Rest, Undisturbed, LastWorker, Latest
  <2>1. /\ w[1] \in Subjects /\ w[2] \in Starts /\ w[2] \in Nat /\ w[1] \in added
        /\ w[2] = starts[w[1]] /\ starts[w[1]] > 0
    BY PoolParts DEF LastWorker
  <2>2. <<w[1], w[2]>> \in open /\ <<w[1], w[2]>> \notin cancelled
    BY <2>1 DEF Rest, Undisturbed, Latest
  <2>3. at[w].where = "next" => at[w].on = w[2]
    BY DEF Rest, Undisturbed
  <2>4. <<w[1], w[2]>> \notin replaced
    <3>1. ~(w[2] < starts[w[1]])
      BY <2>1
    <3> QED
      BY <2>1, <3>1 DEF Rest, Opened
  <2> QED
    BY <2>2, <2>3, <2>4 DEF ContextDone, Iterator
<1> QED
  BY <1>2, <1>3, <1>4, <1>5 DEF Rest

\* What a worker may wait on is the iterator of its own start or the next.
LEMMA IteratorIn ==
  ASSUME TypeOK, Opened, Born, NEW w \in Pool, at[w].where # "none"
  PROVE  Iterator(w) \in 0 .. MaxStarts
<1>1. w[1] \in Subjects /\ w[2] \in Starts /\ w[2] \in Nat /\ starts[w[1]] \in 0 .. MaxStarts
  BY PoolParts DEF TypeOK
<1>2. ~(starts[w[1]] < w[2])
  BY DEF Born
<1>3. <<w[1], w[2]>> \in replaced => w[2] < starts[w[1]]
  BY <1>1 DEF Opened
<1> QED
  BY <1>1, <1>2, <1>3, StartsAssumption DEF Iterator

\* Every start, removal, worker's step and step of Stop keeps the invariant.
LEMMA NextInd == IndInv /\ [Next]_vars => IndInv'
<1> SUFFICES ASSUME IndInv, [Next]_vars PROVE IndInv'
  OBVIOUS
<1> USE StartsAssumption
<1>0. TypeOK /\ Rest
  BY DEF IndInv
<1>1. ASSUME NEW s \in Subjects, AddSubscription(s) PROVE IndInv'
  <2>1. /\ added' = added \cup {s} /\ ~kvMode /\ phase = "create"
        /\ UNCHANGED <<kvMode, replaced, starts, open, cancelled, at, phase>>
    BY <1>1 DEF AddSubscription
  <2>2. TypeOK'
    BY <1>0, <2>1 DEF TypeOK
  <2>3. MapMeans' /\ FileMode'
    BY <1>0, <2>1 DEF Rest, MapMeans, FileMode
  <2>4. Undisturbed'
    <3>1. \A t \in Subjects : starts[t] = 0
      BY <1>0, <2>1 DEF Rest, FileMode
    <3>2. \A w \in Pool : ~LastWorker(w)'
      BY <2>1, <3>1, PoolParts DEF LastWorker
    <3>3. \A t \in added' : ~(starts'[t] > 0)
      BY <1>0, <2>1, <3>1 DEF TypeOK
    <3> QED
      BY <3>2, <3>3 DEF Undisturbed
  <2> QED
    BY <1>0, <2>1, <2>2, <2>3, <2>4 DEF IndInv, Rest, Opened, Born, Replaced
<1>2. ASSUME NEW s \in Subjects, AddAndStartSubscription(s) PROVE IndInv'
  <2>1. /\ added' = added \cup {s} /\ s \notin added /\ kvMode
        /\ StartAll({s}) /\ UNCHANGED <<kvMode, replaced, phase>>
    BY <1>2 DEF AddAndStartSubscription, Watching
  <2>2. added' \in SUBSET Subjects /\ phase' \in Phases
    BY <1>0, <2>1 DEF TypeOK
  <2> QED
    BY <2>1, <2>2, StartKeeps
<1>3. CASE Run
  <2>1. /\ phase = "create" /\ phase' \in {"run", "start"} /\ (phase' = "run" => added = {})
        /\ UNCHANGED <<kvMode, added, replaced, starts, open, cancelled, at>>
    BY <1>3 DEF Run
  <2>2. TypeOK'
    BY <1>0, <2>1 DEF TypeOK, Phases
  <2> QED
    BY <1>0, <2>1, <2>2 DEF IndInv, Rest, Opened, Born, Replaced, MapMeans, Undisturbed, LastWorker, Latest, FileMode
<1>4. CASE Start \/ StartFails
  <2>1. PICK set \in SUBSET added : Restart(set) /\ phase = "start" /\ phase' \in {"run", "failed"}
    BY <1>4 DEF Start, StartFails
  <2>2. /\ set \in SUBSET Subjects /\ set \subseteq added' /\ added' \in SUBSET Subjects
        /\ phase' \in Phases
    BY <1>0, <2>1 DEF TypeOK, Restart, Phases
  <2> QED
    BY <2>1, <2>2, StartKeeps DEF Restart
<1>5. ASSUME NEW s \in Subjects, RemoveSubscription(s) PROVE IndInv'
  <2>1. /\ added' = added \ {s} /\ s \in added
        /\ open' = open \ {Latest(s)} /\ cancelled' = cancelled \cup {Latest(s)}
        /\ kvMode
        /\ UNCHANGED <<kvMode, replaced, starts, at, phase>>
    BY <1>5 DEF RemoveSubscription, Watching
  <2>2. starts[s] \in Starts
    BY <1>0, <2>1 DEF TypeOK, Starts, Rest, MapMeans
  <2>3. TypeOK'
    BY <1>0, <2>1, <2>2 DEF TypeOK, Latest
  <2>4. Opened'
    <3>1. \A n \in Starts : n = starts[s] => n <= starts[s]
      BY DEF Starts
    <3> QED
      BY <1>0, <2>1, <3>1 DEF Rest, Opened, Latest
  <2>5. MapMeans'
    BY <1>0, <2>1 DEF Rest, MapMeans, Latest
  <2>6. Undisturbed'
    BY <1>0, <2>1 DEF Rest, Undisturbed, Latest, LastWorker
  <2> QED
    BY <1>0, <2>1, <2>3, <2>4, <2>5, <2>6 DEF IndInv, Rest, Born, Replaced, FileMode
<1>6. ASSUME NEW w \in Pool, Loop(w) PROVE IndInv'
  <2> DEFINE p == IF ContextDone(w) THEN Place("exited") ELSE Waiting(Iterator(w))
  <2>1. /\ at[w].where = "loop" /\ at' = [at EXCEPT ![w] = p]
        /\ UNCHANGED <<kvMode, added, replaced, starts, open, cancelled, phase>>
    BY <1>6 DEF Loop
  <2>2. Iterator(w) \in 0 .. MaxStarts
    BY <1>0, <2>1, IteratorIn DEF Rest
  <2>3. p \in Places
    BY <2>2 DEF Places, Place, Waiting
  <2>4. p.where # "none" /\ (p.where = "exited" => ContextDone(w))
    BY DEF Place, Waiting
  <2>5. p.where = "next" => p.on = Iterator(w)
    BY DEF Place, Waiting
  <2> HIDE DEF p
  <2> QED
    BY <2>1, <2>3, <2>4, <2>5, WorkerKeeps
<1>7. ASSUME NEW w \in Pool, Receive(w) \/ Processed(w) PROVE IndInv'
  <2>1. PICK q \in {"busy", "loop"} :
          /\ at[w].where \in {"next", "busy"} /\ at' = [at EXCEPT ![w] = Place(q)]
          /\ UNCHANGED <<kvMode, added, replaced, starts, open, cancelled, phase>>
    BY <1>7 DEF Receive, Processed
  <2>2. Place(q) \in Places /\ Place(q).where \in {"busy", "loop"}
    BY DEF Places, Place
  <2> QED
    BY <2>1, <2>2, WorkerKeeps
<1>8. ASSUME NEW w \in Pool, IteratorClosed(w) \/ NextFails(w) PROVE IndInv'
  <2>1. PICK q \in {"exited", "loop"} :
          /\ at[w].where = "next" /\ at' = [at EXCEPT ![w] = Place(q)]
          /\ q = "exited" => ContextDone(w) \/ <<w[1], at[w].on>> \notin open
          /\ UNCHANGED <<kvMode, added, replaced, starts, open, cancelled, phase>>
    BY <1>8 DEF IteratorClosed, NextFails
  <2>2. Place(q) \in Places /\ Place(q).where = q
    BY DEF Places, Place
  <2> QED
    BY <2>1, <2>2, WorkerKeeps
<1>9. CASE Cancel
  <2>1. /\ phase' = "cancel"
        /\ cancelled' = cancelled \cup {c \in Subjects \X Starts : c[2] <= starts[c[1]] /\ FromRun(c)}
        /\ UNCHANGED <<kvMode, added, replaced, starts, open, at>>
    BY <1>9 DEF Cancel
  <2>2. TypeOK'
    BY <1>0, <2>1 DEF TypeOK, Phases
  <2>3. Opened'
    BY <1>0, <2>1 DEF Rest, Opened
  <2> QED
    BY <1>0, <2>1, <2>2, <2>3 DEF IndInv, Rest, Born, Replaced, MapMeans, Undisturbed, FileMode
<1>10. CASE StopIterators \/ StopReturns
  <2>1. /\ phase' \in {"stop", "stopped"}
        /\ cancelled' = cancelled \/ cancelled' = {c \in Subjects \X Starts : c[2] <= starts[c[1]]}
        /\ open' \subseteq open
        /\ UNCHANGED <<kvMode, added, replaced, starts, at>>
    BY <1>10 DEF StopIterators, StopReturns
  <2>2. TypeOK'
    BY <1>0, <2>1 DEF TypeOK, Phases
  <2>3. Opened' /\ MapMeans'
    BY <1>0, <2>1 DEF Rest, Opened, MapMeans
  <2> QED
    BY <1>0, <2>1, <2>2, <2>3 DEF IndInv, Rest, Born, Replaced, Undisturbed, FileMode
<1>11. CASE UNCHANGED vars
  BY <1>0, <1>11 DEF vars, IndInv, TypeOK, Rest, Opened, Born, Replaced, MapMeans, Latest, LastWorker,
     Undisturbed, FileMode
<1> QED
  BY <1>1, <1>2, <1>3, <1>4, <1>5, <1>6, <1>7, <1>8, <1>9, <1>10, <1>11 DEF Next, WorkerStep

\* The inductive invariant holds of every reachable state.
THEOREM Inductive == Spec => []IndInv
BY InitInd, NextInd, PTL DEF Spec

\* While the service runs, every started subject of the map has its iterator
\* and a worker on it; no iterator is open that is not an entry's, except the
\* one per subject that Run may have started over, and never in file mode.
THEOREM MapServes == Spec => []OnlyTheMapServes
<1>1. IndInv => OnlyTheMapServes
  <2> SUFFICES ASSUME IndInv PROVE OnlyTheMapServes
    OBVIOUS
  <2> USE StartsAssumption DEF IndInv, Rest
  <2>1. Served
    <3> SUFFICES ASSUME NEW s \in added, phase = "run", starts[s] > 0
                 PROVE  /\ Latest(s) \in open
                        /\ \E w \in Pool : /\ w[1] = s /\ at[w].where \notin {"none", "exited"}
                                           /\ at[w].where = "next" => at[w].on = starts[s]
      BY DEF Served
    <3>1. s \in Subjects /\ starts[s] \in Starts
      BY DEF TypeOK, Starts
    <3>2. Latest(s) \in open
      BY DEF Undisturbed
    <3>3. PICK v \in Workers : TRUE
      BY WorkerAssumption
    <3> DEFINE w == <<s, starts[s], v>>
    <3>4. w \in Pool /\ w[1] = s /\ w[2] = starts[s]
      BY <3>1 DEF Pool
    <3> HIDE DEF w
    <3>5. ~(starts[w[1]] < w[2])
      BY <3>1, <3>4 DEF Starts
    <3>6. at[w].where \notin {"none", "exited"} /\ (at[w].where = "next" => at[w].on = starts[s])
      BY <3>4, <3>5 DEF Born, Undisturbed, LastWorker
    <3> QED
      BY <3>2, <3>4, <3>6
  <2>2. OneIterator
    <3>1. open \subseteq {Latest(s) : s \in added} \cup replaced
      <4>1. \A c \in open \ replaced : c \in {Latest(s) : s \in added}
        BY DEF MapMeans, TypeOK, Latest
      <4> QED
        BY <4>1
    <3>2. ~kvMode => replaced = {} /\ \A s \in Subjects : starts[s] <= 1
      BY DEF FileMode
    <3>3. \A c, d \in replaced : c[1] = d[1] => c = d
      BY DEF Replaced, TypeOK
    <3> QED
      BY <3>1, <3>2, <3>3 DEF OneIterator
  <2> QED
    BY <2>1, <2>2 DEF OnlyTheMapServes
<1> QED
  BY <1>1, Inductive, PTL

\* A worker that goes back to Next() never waits on an iterator that Run has
\* started over or a removal has left behind.
THEOREM LostDrains == Spec => LostIteratorDrains
<1>1. ASSUME IndInv, [Next]_vars, NEW w \in Pool, at[w].where # "next", at'[w].where = "next"
      PROVE  <<w[1], at'[w].on>> \notin Orphans
  <2>0. TypeOK /\ Rest
    BY <1>1 DEF IndInv
  <2>1. at'[w] = Waiting(Iterator(w)) /\ at[w].where = "loop"
    <3>1. CASE \E v \in Pool : Loop(v)
      BY <1>1, <2>0, <3>1 DEF Loop, TypeOK, Place
    <3>2. CASE \E v \in Pool : IteratorClosed(v) \/ Processed(v) \/ Receive(v) \/ NextFails(v)
      BY <1>1, <2>0, <3>2 DEF IteratorClosed, Processed, Receive, NextFails, TypeOK, Place
    <3>3. CASE \E set \in SUBSET Subjects : StartAll(set)
      BY <1>1, <3>3 DEF StartAll, Place
    <3>4. CASE at' = at
      BY <1>1, <3>4
    <3>5. (\E set \in SUBSET added : Restart(set)) => \E set \in SUBSET Subjects : StartAll(set)
      BY <2>0 DEF TypeOK, Restart
    <3>6. Start \/ StartFails => \E set \in SUBSET added : Restart(set)
      BY DEF Start, StartFails
    <3>7. (\E s \in Subjects : AddAndStartSubscription(s)) => \E set \in SUBSET Subjects : StartAll(set)
      BY DEF AddAndStartSubscription
    <3> QED
      BY <1>1, <3>1, <3>2, <3>3, <3>4, <3>5, <3>6, <3>7
      DEF Next, WorkerStep, AddSubscription, RemoveSubscription, Run, Cancel, StopIterators, StopReturns, vars
  <2>2. w[1] \in Subjects /\ w[2] \in Starts /\ w[2] \in Nat
    BY PoolParts
  <2>3. at'[w].on = Iterator(w)
    BY <2>1 DEF Waiting
  <2>4. SUFFICES ASSUME <<w[1], Iterator(w)>> \in open
                 PROVE  <<w[1], Iterator(w)>> \in {Latest(s) : s \in added}
    BY <2>3 DEF Orphans
  <2>5. Iterator(w) \in Starts
    BY <2>0, <2>4 DEF TypeOK
  <2>6. <<w[1], Iterator(w)>> \notin replaced
    <3>1. CASE <<w[1], w[2]>> \in replaced
      <4>1. Iterator(w) = w[2] + 1 /\ w[2] + 1 # w[2]
        BY <2>2, <3>1 DEF Iterator
      <4> QED
        BY <2>0, <2>2, <2>5, <3>1, <4>1 DEF Rest, Replaced
    <3>2. CASE <<w[1], w[2]>> \notin replaced
      BY <3>2 DEF Iterator
    <3> QED
      BY <3>1, <3>2
  <2> QED
    BY <2>0, <2>2, <2>4, <2>5, <2>6 DEF Rest, MapMeans, Latest
<1>2. IndInv /\ [Next]_vars =>
        [\A w \in Pool : at[w].where # "next" /\ at'[w].where = "next"
                           => <<w[1], at'[w].on>> \notin Orphans]_vars
  BY <1>1
<1> QED
  BY <1>2, Inductive, PTL DEF Spec, LostIteratorDrains

-----------------------------------------------------------------------------
\* RunWithReload, Lifecycle.  While the process lives, an instance is open from
\* createApp to Close and the signals are caught from Notify to Stop.
Up == pc \in {"wait", "validate", "unwind", "disarm", "close"}
OneAtATime == Alive => instances = (IF Up THEN 1 ELSE 0)
ArmedMeans == Alive => (armed <=> pc \notin {"arm", "close"})

\* Each reload was asked for by a signal of its own.
Coming == IF reloadSig THEN 1 ELSE 0
Checking == IF pc = "validate" THEN 1 ELSE 0
ReloadsAsked == reloadCount + Coming + Checking <= sent

\* A Run still goes on when its instance is closed only if it overran, and an
\* overrun belongs to a reload or to the shutdown.
Leaving == IF pc \in {"disarm", "close"} /\ app = "running" THEN 1 ELSE 0
Overran == lingering + Leaving <= overruns
PastUnwind == pc \in {"disarm", "close", "ended"}
Overruns ==
  /\ overruns <= reloadCount + (IF PastUnwind /\ ~shouldReload THEN 1 ELSE 0)
  /\ pc = "unwind" /\ shouldReload => overruns < reloadCount
  /\ Leaving = 1 /\ shouldReload => lingering < reloadCount
  /\ lingering <= reloadCount

\* From the check that precedes a teardown to the next createApp the files load
\* or have been edited since.
GoesRound ==
  \/ pc \in {"unwind", "disarm", "close"} /\ shouldReload
  \/ pc \in {"arm", "create"} /\ reloadCount > 0
Checked == GoesRound => files # "bad" \/ edited
BadRulesEnd == exit \in {"badRules", "unservable"} => pc = "ended"

RoundInv == OneAtATime /\ ArmedMeans /\ ReloadsAsked /\ Checked /\ BadRulesEnd /\ ReloadChecked
            /\ Overran /\ Overruns
ReloadInv == ReloadTypeOK /\ RoundInv

\* The process starts in a state of the invariant (lifecycle.go:44-57).
LEMMA ReloadInitInd == ReloadInit => ReloadInv
<1> SUFFICES ASSUME ReloadInit
             PROVE  ReloadInv
  OBVIOUS
<1>1. 0 \in 0 .. 1 /\ 0 \in 0 .. MaxSignals /\ 0 \in 0 .. MaxEdits /\ 0 \in 0 .. MaxSignals + 1
  BY BoundAssumption
<1>2. ReloadTypeOK
  BY <1>1, Zenon DEF ReloadInit, ReloadTypeOK, Pcs, Exits, Rulings
<1>3. RoundInv
  BY DEF ReloadInit, RoundInv, OneAtATime, Up, Alive, ArmedMeans, ReloadsAsked, Coming, Checking,
         GoesRound, Checked, BadRulesEnd, ReloadChecked, Overran, Overruns, Leaving, PastUnwind
<1> QED
  BY <1>2, <1>3 DEF ReloadInv

\* Edits and signals, caught or not (lifecycle.go:59-66).
LEMMA OutsideKeeps ==
  ASSUME ReloadInv, Edit \/ SendTerm \/ SendHup
  PROVE  ReloadInv'
<1> USE BoundAssumption DEF ReloadInv, RoundInv, ReloadTypeOK, Pcs, Exits, Alive, signals, outside, history
<1>1. ReloadTypeOK'
  <2>1. /\ instances' \in 0 .. 1 /\ reloadCount' \in 0 .. MaxSignals
        /\ sent' \in 0 .. MaxSignals /\ edits' \in 0 .. MaxEdits
    BY DEF Edit, SendTerm, SendHup, Killed, OneAtATime, Up, ReloadsAsked, Coming, Checking
  <2>2. pc' \in Pcs /\ exit' \in Exits /\ app' \in {"none", "running", "returned"} /\ files' \in Rulings
    BY DEF Edit, SendTerm, SendHup, Killed, Rulings
  <2>3. /\ armed' \in BOOLEAN /\ shutdownSig' \in BOOLEAN /\ reloadSig' \in BOOLEAN
        /\ shouldReload' \in BOOLEAN
        /\ asked' \in BOOLEAN /\ discarded' \in BOOLEAN /\ edited' \in BOOLEAN
    BY Zenon DEF Edit, SendTerm, SendHup, Killed
  <2>4. lingering' \in 0 .. MaxSignals /\ overruns' \in 0 .. MaxSignals + 1
    BY DEF Edit, SendTerm, SendHup, Killed, Overruns, Leaving
  <2> QED
    BY <2>1, <2>2, <2>3, <2>4
<1>2. OneAtATime' /\ ArmedMeans'
  BY DEF Edit, SendTerm, SendHup, Killed, OneAtATime, ArmedMeans, Up
<1>3. ReloadsAsked'
  BY DEF Edit, SendTerm, SendHup, Killed, ReloadsAsked, Coming, Checking
<1>4. Checked'
  BY DEF Edit, SendTerm, SendHup, Killed, Checked, GoesRound
<1>5. BadRulesEnd' /\ ReloadChecked'
  BY DEF Edit, SendTerm, SendHup, Killed, BadRulesEnd, ReloadChecked, Checked, GoesRound, Rulings
<1>6. Overran'
  BY DEF Edit, SendTerm, SendHup, Killed, Overran, Leaving
<1>7. Overruns'
  BY DEF Edit, SendTerm, SendHup, Killed, Overruns, Leaving, PastUnwind
<1> QED
  BY <1>1, <1>2, <1>3, <1>4, <1>5, <1>6, <1>7

\* From Notify to the case that waitLoop takes (lifecycle.go:59-137).
LEMMA RoundKeeps ==
  ASSUME ReloadInv, Arm \/ Create \/ CreateFails \/ TakeShutdown \/ TakeReload \/ TakeError
  PROVE  ReloadInv'
<1> USE BoundAssumption DEF ReloadInv, RoundInv, ReloadTypeOK, Pcs, Exits, Alive, signals, outside, history
<1>1. ReloadTypeOK'
  <2>1. /\ instances' \in 0 .. 1 /\ reloadCount' \in 0 .. MaxSignals
        /\ sent' \in 0 .. MaxSignals /\ edits' \in 0 .. MaxEdits
    BY DEF Arm, Create, CreateFails, TakeShutdown, TakeReload, TakeError, OneAtATime, Up, ReloadsAsked, Coming, Checking
  <2>2. pc' \in Pcs /\ exit' \in Exits /\ app' \in {"none", "running", "returned"} /\ files' \in Rulings
    BY DEF Arm, Create, CreateFails, TakeShutdown, TakeReload, TakeError, Rulings
  <2>3. /\ armed' \in BOOLEAN /\ shutdownSig' \in BOOLEAN /\ reloadSig' \in BOOLEAN
        /\ shouldReload' \in BOOLEAN
        /\ asked' \in BOOLEAN /\ discarded' \in BOOLEAN /\ edited' \in BOOLEAN
    BY Zenon DEF Arm, Create, CreateFails, TakeShutdown, TakeReload, TakeError
  <2>4. lingering' \in 0 .. MaxSignals /\ overruns' \in 0 .. MaxSignals + 1
    BY DEF Arm, Create, CreateFails, TakeShutdown, TakeReload, TakeError, Overruns, Leaving
  <2> QED
    BY <2>1, <2>2, <2>3, <2>4
<1>2. OneAtATime' /\ ArmedMeans'
  BY DEF Arm, Create, CreateFails, TakeShutdown, TakeReload, TakeError, OneAtATime, ArmedMeans, Up
<1>3. ReloadsAsked'
  BY DEF Arm, Create, CreateFails, TakeShutdown, TakeReload, TakeError, ReloadsAsked, Coming, Checking
<1>4. Checked'
  BY DEF Arm, Create, CreateFails, TakeShutdown, TakeReload, TakeError, Checked, GoesRound
<1>5. BadRulesEnd' /\ ReloadChecked'
  BY DEF Arm, Create, CreateFails, TakeShutdown, TakeReload, TakeError, BadRulesEnd, ReloadChecked, Checked, GoesRound, Rulings
<1>6. Overran'
  BY DEF Arm, Create, CreateFails, TakeShutdown, TakeReload, TakeError, Overran, Leaving
<1>7. Overruns'
  BY DEF Arm, Create, CreateFails, TakeShutdown, TakeReload, TakeError, Overruns, Leaving, PastUnwind
<1> QED
  BY <1>1, <1>2, <1>3, <1>4, <1>5, <1>6, <1>7

\* The check of the rules and the wait for Run (lifecycle.go:117-161).
LEMMA TeardownKeeps ==
  ASSUME ReloadInv, Validate \/ Unwound \/ UnwindTimesOut \/ RunReturns
  PROVE  ReloadInv'
<1> USE BoundAssumption DEF ReloadInv, RoundInv, ReloadTypeOK, Pcs, Exits, Alive, signals, outside, history
<1>1. ReloadTypeOK'
  <2>1. /\ instances' \in 0 .. 1 /\ reloadCount' \in 0 .. MaxSignals
        /\ sent' \in 0 .. MaxSignals /\ edits' \in 0 .. MaxEdits
    BY DEF Validate, Unwound, UnwindTimesOut, RunReturns, OneAtATime, Up, ReloadsAsked, Coming, Checking
  <2>2. pc' \in Pcs /\ exit' \in Exits /\ app' \in {"none", "running", "returned"} /\ files' \in Rulings
    BY DEF Validate, Unwound, UnwindTimesOut, RunReturns, Rulings
  <2>3. /\ armed' \in BOOLEAN /\ shutdownSig' \in BOOLEAN /\ reloadSig' \in BOOLEAN
        /\ shouldReload' \in BOOLEAN
        /\ asked' \in BOOLEAN /\ discarded' \in BOOLEAN /\ edited' \in BOOLEAN
    BY Zenon DEF Validate, Unwound, UnwindTimesOut, RunReturns
  <2>4. lingering' \in 0 .. MaxSignals /\ overruns' \in 0 .. MaxSignals + 1
    BY DEF Validate, Unwound, UnwindTimesOut, RunReturns, Overruns, Overran, Leaving, PastUnwind
  <2> QED
    BY <2>1, <2>2, <2>3, <2>4
<1>2. OneAtATime' /\ ArmedMeans'
  BY DEF Validate, Unwound, UnwindTimesOut, RunReturns, OneAtATime, ArmedMeans, Up
<1>3. ReloadsAsked'
  BY DEF Validate, Unwound, UnwindTimesOut, RunReturns, ReloadsAsked, Coming, Checking
<1>4. Checked'
  BY DEF Validate, Unwound, UnwindTimesOut, RunReturns, Checked, GoesRound
<1>5. BadRulesEnd' /\ ReloadChecked'
  BY DEF Validate, Unwound, UnwindTimesOut, RunReturns, BadRulesEnd, ReloadChecked, Checked, GoesRound, Rulings
<1>6. Overran'
  BY DEF Validate, Unwound, UnwindTimesOut, RunReturns, Overran, Leaving
<1>7. Overruns'
  BY DEF Validate, Unwound, UnwindTimesOut, RunReturns, Overruns, Overran, Leaving, PastUnwind
<1> QED
  BY <1>1, <1>2, <1>3, <1>4, <1>5, <1>6, <1>7

\* Close, and what goes on behind it (lifecycle.go:163-190).
LEMMA CloseKeeps ==
  ASSUME ReloadInv, Disarm \/ CloseReturns \/ LateRunReturns
  PROVE  ReloadInv'
<1> USE BoundAssumption DEF ReloadInv, RoundInv, ReloadTypeOK, Pcs, Exits, Alive, signals, outside, history
<1>1. ReloadTypeOK'
  <2>1. /\ instances' \in 0 .. 1 /\ reloadCount' \in 0 .. MaxSignals
        /\ sent' \in 0 .. MaxSignals /\ edits' \in 0 .. MaxEdits
    BY DEF Disarm, CloseReturns, LateRunReturns, OneAtATime, Up, ReloadsAsked, Coming, Checking
  <2>2. pc' \in Pcs /\ exit' \in Exits /\ app' \in {"none", "running", "returned"} /\ files' \in Rulings
    BY DEF Disarm, CloseReturns, LateRunReturns, Rulings
  <2>3. /\ armed' \in BOOLEAN /\ shutdownSig' \in BOOLEAN /\ reloadSig' \in BOOLEAN
        /\ shouldReload' \in BOOLEAN
        /\ asked' \in BOOLEAN /\ discarded' \in BOOLEAN /\ edited' \in BOOLEAN
    BY Zenon DEF Disarm, CloseReturns, LateRunReturns
  <2>4. lingering' \in 0 .. MaxSignals /\ overruns' \in 0 .. MaxSignals + 1
    BY DEF Disarm, CloseReturns, LateRunReturns, Overruns, Leaving
  <2> QED
    BY <2>1, <2>2, <2>3, <2>4
<1>2. OneAtATime' /\ ArmedMeans'
  BY DEF Disarm, CloseReturns, LateRunReturns, OneAtATime, ArmedMeans, Up
<1>3. ReloadsAsked'
  BY DEF Disarm, CloseReturns, LateRunReturns, ReloadsAsked, Coming, Checking
<1>4. Checked'
  BY DEF Disarm, CloseReturns, LateRunReturns, Checked, GoesRound
<1>5. BadRulesEnd' /\ ReloadChecked'
  BY DEF Disarm, CloseReturns, LateRunReturns, BadRulesEnd, ReloadChecked, Checked, GoesRound, Rulings
<1>6. Overran'
  BY DEF Disarm, CloseReturns, LateRunReturns, Overran, Leaving
<1>7. Overruns'
  BY DEF Disarm, CloseReturns, LateRunReturns, Overruns, Leaving, PastUnwind
<1> QED
  BY <1>1, <1>2, <1>3, <1>4, <1>5, <1>6, <1>7

\* The invariant holds through any number of reloads.
THEOREM ReloadInductive == ReloadSpec => []ReloadInv
<1>1. ReloadInv /\ [ReloadNext]_reloadVars => ReloadInv'
  <2> SUFFICES ASSUME ReloadInv, [ReloadNext]_reloadVars
               PROVE  ReloadInv'
    OBVIOUS
  <2>1. CASE UNCHANGED reloadVars
    BY <2>1
    DEF reloadVars, ReloadInv, ReloadTypeOK, RoundInv, OneAtATime, Up, Alive, ArmedMeans,
        ReloadsAsked, Coming, Checking, GoesRound, Checked, BadRulesEnd, ReloadChecked,
        Overran, Overruns, Leaving, PastUnwind
  <2> QED
    BY <2>1, OutsideKeeps, RoundKeeps, TeardownKeeps, CloseKeeps DEF ReloadNext, MainStep
<1> QED
  BY <1>1, ReloadInitInd, PTL DEF ReloadSpec

\* A reload never runs two instances, lets no old Run go on but one that
\* overran runStopTimeout, and ends a running service because of its rules only
\* if they changed after the check or load and cannot be served
\* (lifecycle.go:117-189).
THEOREM ReloadSafeAlways == ReloadSpec => []ReloadSafe
<1>1. ReloadInv => ReloadSafe
  BY DEF ReloadInv, RoundInv, ReloadSafe, OneInstance, OneAtATime, Up, Alive, Overran, Leaving,
         ReloadTypeOK
<1> QED
  BY <1>1, ReloadInductive, PTL
=============================================================================
