--------------------------- MODULE StreamResolver ---------------------------
(***************************************************************************)
(* internal/broker/stream_resolver.go and the consumer bookkeeping of      *)
(* internal/broker/nats.go: which stream serves a trigger subject, and     *)
(* which durable consumer a subscription is bound to, while operators      *)
(* create and delete streams.                                              *)
(*                                                                         *)
(* Subjects and filters are sequences of tokens (PatternMatcher).  Streams *)
(* are numbered in the order in which the server lists them: insertion     *)
(* sort, which sort.Slice uses up to 12 matches, is stable, so the first   *)
(* of several equally good matches is chosen.                              *)
(***************************************************************************)
EXTENDS PatternMatcher, FiniteSets, SequencesExt

CONSTANTS Streams,    \* the streams operators may create, as configured
          Subjects,   \* trigger subjects
          Messages,   \* subjects messages are published on
          Words(_),   \* a token's words, as hyphens separate them
          MaxChanges  \* bound on operator actions

ASSUME StreamAssumption ==
  /\ Streams \in Seq([subjects : SUBSET Seq(STRING), mirror : SUBSET Seq(STRING),
                      sources : SUBSET Seq(STRING), memory : BOOLEAN, system : BOOLEAN])
  /\ MaxChanges \in Nat

\* ValidatePattern refuses other trigger subjects (loader.go).
ASSUME SubjectAssumption ==
  \A s \in Subjects : s \in Seq(STRING) /\ s # <<>> /\ ValidTokens(s)

VARIABLES server,    \* streams that exist (external)
          durable,   \* durable consumers of the server (external)
          changes,   \* operator actions and timeouts so far
          moved,     \* history: others made or deleted a stream, or deleted a consumer
          known,     \* StreamResolver.streams
          consumers, \* keys of NATSBroker.consumers, which names them
          subs,      \* SubscriptionManager.subscriptions: per subject its stream, or 0
          start,     \* the AddAndStartSubscription in progress
          failed     \* history: the subjects whose last start failed, and why

streamVars == <<server, durable, changes, moved, known, consumers, subs, start, failed>>

Ids == DOMAIN Streams
Idle == [pc |-> "idle", subject |-> <<>>]

-----------------------------------------------------------------------------
\* listStreams: a mirror or source without a filter has every subject.
FilterOrAll(filter) == IF filter = <<>> THEN <<Greedy>> ELSE filter

Filters(i) ==
  {[stream |-> i, filter |-> f, primary |-> TRUE] : f \in Streams[i].subjects} \cup
  {[stream |-> i, filter |-> FilterOrAll(f), primary |-> FALSE] :
     f \in Streams[i].mirror \cup Streams[i].sources}

\* The server takes no other filters (external).
ASSUME FilterAssumption ==
  \A i \in Ids : \A m \in Filters(i) :
    m.filter \in Seq(STRING) /\ m.filter # <<>> /\ ValidTokens(m.filter)

\* matchPattern.  A ">" in the filter also stands for no token at all, and a
\* wildcard of the subject is a token like any other.
matchPattern(subject, filter) ==
  LET n == IF Last(filter) = Greedy THEN Len(filter) - 1 ELSE Len(filter) IN
  /\ IF n < Len(filter) THEN Len(subject) >= n ELSE Len(subject) = n
  /\ \A i \in 1..n : filter[i] \in {Single, subject[i]}

\* patternCoveredBy
patternCoveredBy(subject, filter) ==
  LET greedy(s) == Last(s) = Greedy
      prefix == IF greedy(subject) THEN Len(subject) - 1 ELSE Len(subject)
  IN \/ filter = <<Greedy>>
     \/ /\ greedy(filter)
        /\ prefix >= Len(filter) - 1
        /\ \A i \in 1..(Len(filter) - 1) : filter[i] \in {Single, subject[i]}
     \/ /\ ~greedy(filter) /\ ~greedy(subject)
        /\ Len(subject) = Len(filter)
        /\ \A i \in DOMAIN filter :
             filter[i] = Single \/ (subject[i] # Single /\ filter[i] = subject[i])

\* subjectMatches
subjectMatches(subject, filter) ==
  \/ subject = filter
  \/ Wild(filter) /\ matchPattern(subject, filter)
  \/ ~Wild(filter) /\ Wild(subject) /\ patternCoveredBy(subject, filter)

Count(filter, tokens) == Cardinality({i \in DOMAIN filter : filter[i] \in tokens})
ExactTokens(filter) == Cardinality({i \in DOMAIN filter : filter[i] \notin {Single, Greedy}})

\* Mutant: every filter is scored token by token.
SpecificityByToken(filter) ==
  100 * ExactTokens(filter) + 10 * Count(filter, {Single}) + Count(filter, {Greedy})

\* calculateSpecificity
calculateSpecificity(filter) ==
  IF ~Wild(filter) THEN 1000 + 10 * Len(filter)
  ELSE 100 * ExactTokens(filter) + 10 * Count(filter, {Single}) + Count(filter, {Greedy})

\* The sort's four rules, in order: the score, memory storage, primary
\* before mirror and source, system streams last.
Rank(m) ==
  LET bit(b) == IF b THEN 1 ELSE 0
  IN 8 * calculateSpecificity(m.filter) + 4 * bit(Streams[m.stream].memory)
       + 2 * bit(m.primary) + bit(~Streams[m.stream].system)

\* FindStreamForSubject's matches, and the best of them; 0 is ErrNoStreamFound.
MatchesIn(list, subject) ==
  {m \in UNION {Filters(i) : i \in list} : subjectMatches(subject, m.filter)}
BestMatch(list, subject) ==
  LET all == MatchesIn(list, subject)
      best == {m \in all : \A n \in all : Rank(n) <= Rank(m)}
  IN CHOOSE m \in best : \A n \in best : m.stream <= n.stream
FindStreamForSubject(list, subject) ==
  IF MatchesIn(list, subject) = {} THEN 0 ELSE BestMatch(list, subject).stream

\* ValidateRulesHaveStreams and ValidateSubjects, for one subject.
HasStream(list, subject) == FindStreamForSubject(list, subject) # 0

\* Mutant: both wildcards become the same word.
generateOneWord(subject) ==
  FlattenSeq([i \in DOMAIN subject |->
    IF subject[i] \in {Single, Greedy} THEN <<"wildcard">> ELSE Words(subject[i])])

\* generateConsumerName, as the words its hyphens separate.
generateConsumerName(subject) ==
  FlattenSeq([i \in DOMAIN subject |->
    IF subject[i] = Single THEN <<"wildcard">>
    ELSE IF subject[i] = Greedy THEN <<"multi", "wildcard">>
    ELSE Words(subject[i])])

-----------------------------------------------------------------------------
\* What a filter covers, by what the server delivers (external).
Covers(filter, subject) ==
  \A m \in Messages : ServerDelivers(subject, m) => ServerDelivers(filter, m)

\* Messages tell filters apart: for every trigger subject there is a message
\* with tokens of its own in the place of the wildcards.
IsSample(message, subject) ==
  /\ Len(message) = Len(subject)
  /\ \A i \in DOMAIN subject :
       IF subject[i] \in {Single, Greedy}
       THEN \A j \in Ids : \A m \in Filters(j) : \A k \in DOMAIN m.filter : m.filter[k] # message[i]
       ELSE message[i] = subject[i]
ASSUME MessageAssumption ==
  /\ \A m \in Messages : m \in Seq(STRING)
  /\ \A s \in Subjects : \E m \in Messages : IsSample(m, s)

CoveredBy(i, subject) == \E m \in Filters(i) : Covers(m.filter, subject)

\* The server refuses a second stream on a subject.
Overlap(i, j) ==
  \E f \in Streams[i].subjects, g \in Streams[j].subjects, m \in Messages :
    ServerDelivers(f, m) /\ ServerDelivers(g, m)

CreateStream(i) ==
  /\ changes < MaxChanges
  /\ i \notin server
  /\ \A j \in server : ~Overlap(i, j)
  /\ changes' = changes + 1
  /\ moved' = TRUE
  /\ server' = server \cup {i}
  /\ UNCHANGED <<durable, known, consumers, subs, start, failed>>

DeleteStream(i) ==
  /\ changes < MaxChanges
  /\ i \in server
  /\ changes' = changes + 1
  /\ moved' = TRUE
  /\ server' = server \ {i}
  /\ durable' = {d \in durable : d.stream # i}
  /\ UNCHANGED <<known, consumers, subs, start, failed>>

\* A durable consumer is deleted behind the broker's back.
DeleteConsumer(d) ==
  /\ changes < MaxChanges
  /\ changes' = changes + 1
  /\ moved' = TRUE
  /\ durable' = durable \ {d}
  /\ UNCHANGED <<server, known, consumers, subs, start, failed>>

\* Discover at startup: without a stream the broker does not start.
StreamInit ==
  /\ server \in {s \in SUBSET Ids : s # {} /\ \A i, j \in s : i # j => ~Overlap(i, j)}
  /\ known = server
  /\ durable = {} /\ changes = 0 /\ moved = FALSE
  /\ consumers = {}
  /\ subs = [s \in Subjects |-> 0]
  /\ start = Idle
  /\ failed = [s \in Subjects |-> "no"]

\* Refresh, which keeps the old list when the listing fails.
Refreshed == {server, known}

\* AddAndStartSubscription begins, unless the subject has a subscription.
Starts(subject) ==
  IF subs[subject] # 0 THEN Idle ELSE [pc |-> "create", subject |-> subject]

StartFails(why) ==
  /\ failed' = [failed EXCEPT ![start.subject] = why]
  /\ start' = Idle

Consumer(i, subject) ==
  [stream |-> i, name |-> generateConsumerName(subject), filter |-> subject]

\* CreateConsumerForSubject: nothing to do for a subject it has made one for.
SkipConsumer ==
  /\ start.pc = "create"
  /\ start.subject \in consumers
  /\ start' = [start EXCEPT !.pc = "add"]
  /\ UNCHANGED <<server, durable, changes, moved, known, consumers, subs, failed>>

\* CreateOrUpdateConsumer: a consumer of that name gets the new filter.
Updated(i, s) ==
  {d \in durable : ~(d.stream = i /\ d.name = generateConsumerName(s))} \cup {Consumer(i, s)}

CreateConsumer ==
  LET s == start.subject
      i == FindStreamForSubject(known, s)
  IN /\ start.pc = "create"
     /\ s \notin consumers
     /\ i \in server
     /\ durable' = Updated(i, s)
     /\ consumers' = consumers \cup {s}
     /\ start' = [start EXCEPT !.pc = "add"]
     /\ UNCHANGED <<server, changes, moved, known, subs, failed>>

\* The stream is gone, or the server refuses a filter that it does not cover.
CreateConsumerFails ==
  LET s == start.subject
      i == FindStreamForSubject(known, s)
  IN /\ start.pc = "create"
     /\ s \notin consumers
     /\ ~(i \in server /\ CoveredBy(i, s))
     /\ StartFails(IF i \in server THEN "refused" ELSE "gone")
     /\ UNCHANGED <<server, durable, changes, moved, known, consumers, subs>>

\* AddSubscription looks the stream up again, and the consumer on it.
AddSubscription ==
  LET s == start.subject
      i == FindStreamForSubject(known, s)
  IN /\ start.pc = "add"
     /\ \E d \in durable : d.stream = i /\ d.name = generateConsumerName(s)
     /\ subs' = [subs EXCEPT ![s] = i]
     /\ failed' = [failed EXCEPT ![s] = "no"]
     /\ start' = Idle
     /\ UNCHANGED <<server, durable, changes, moved, known, consumers>>

AddSubscriptionFails ==
  LET s == start.subject
      i == FindStreamForSubject(known, s)
  IN /\ start.pc = "add"
     /\ ~\E d \in durable : d.stream = i /\ d.name = generateConsumerName(s)
     /\ StartFails(IF i \in server THEN "no consumer" ELSE "gone")
     /\ UNCHANGED <<server, durable, changes, moved, known, consumers, subs>>

\* A call of either step is not answered in time; the server may have made the
\* consumer all the same.  Bound: a timeout counts as one of the changes.
StartTimesOut ==
  LET s == start.subject
      i == FindStreamForSubject(known, s)
  IN /\ changes < MaxChanges
     /\ changes' = changes + 1
     /\ start.pc = "add" \/ (start.pc = "create" /\ s \notin consumers)
     /\ \/ UNCHANGED durable
        \/ start.pc = "create" /\ i \in server /\ durable' = Updated(i, s)
     /\ StartFails("timeout")
     /\ UNCHANGED <<server, moved, known, consumers, subs>>

StreamStep ==
  \/ \E i \in Ids : CreateStream(i) \/ DeleteStream(i)
  \/ \E d \in durable : DeleteConsumer(d)
  \/ SkipConsumer \/ CreateConsumer \/ CreateConsumerFails
  \/ AddSubscription \/ AddSubscriptionFails \/ StartTimesOut

-----------------------------------------------------------------------------
\* The two shapes in which matchPattern accepts a filter that does not cover
\* the subject: a "*" against the subject's ">", and a ">" against nothing.
Loose(filter, subject) ==
  \/ Last(subject) = Greedy /\ Last(filter) # Greedy
  \/ Last(filter) = Greedy /\ Len(filter) = Len(subject) + 1

\* A subject that any known stream covers is given a stream; the filter it
\* is chosen for covers the subject unless it is one of the two loose
\* shapes; and up to 11 tokens a filter that is the subject itself wins over
\* every wildcard (stream_resolver.go, FindStreamForSubject: the score of a
\* wildcard filter grows ten times faster with its length).
StreamFound ==
  \A s \in Subjects :
    LET i == FindStreamForSubject(known, s)
        best == BestMatch(known, s)
    IN /\ (\E j \in known : CoveredBy(j, s)) => i # 0
       /\ i # 0 => Covers(best.filter, s) \/ Loose(best.filter, s)
       /\ (i # 0 /\ Len(s) <= 11 /\ ~Wild(s) /\ \E m \in MatchesIn(known, s) : m.filter = s)
            => best.filter = s

\* A name of plain words cannot be the name of another subject's consumer.
PlainNames(subject) ==
  \A i \in DOMAIN subject :
    Words(subject[i]) = <<subject[i]>> /\ subject[i] \notin {"multi", "wildcard"}

\* The consumer a subscription reads filters for the subscription's own
\* subject, although subjects come and go and consumers are updated in place
\* (nats.go, CreateConsumerForSubject); only a hyphen or a token "multi" or
\* "wildcard" can make two subjects share one.  And as long as no stream is
\* created or deleted and no consumer deleted by others, a subject can be
\* removed and started again, calls that time out included: what the broker
\* remembers of its consumers agrees with the server.
OwnConsumer ==
  \A s \in Subjects :
    /\ \A d \in durable :
         /\ subs[s] = d.stream /\ d.name = generateConsumerName(s)
         /\ PlainNames(s) /\ PlainNames(d.filter)
         => d.filter = s
    /\ failed[s] = "no consumer" => moved
=============================================================================
