-------------------------- MODULE ThrottleManager ---------------------------
(***************************************************************************)
(* internal/rule/throttle.go: the leading-edge throttle.  Allow runs       *)
(* wholly under tm.mu and reads the clock there, so a call is one step.    *)
(* A key stands for a ThrottleKey (phase, rule index, resolved key), which *)
(* fixes its window.                                                       *)
(***************************************************************************)
EXTENDS Integers

CONSTANTS Keys,           \* composite throttle keys
          Window,         \* the window Allow is called with for a key
          SweepInterval,  \* sweepInterval
          MaxTime,        \* bound on the clock
          NoEntry            \* no entry, or no time

\* The loader refuses a window that is not positive (loader.go:1027).
ASSUME WindowAssumption == Window \in [Keys -> Nat \ {0}]
ASSUME SweepAssumption == SweepInterval \in Nat
ASSUME NoEntryAssumption == NoEntry \notin Int

VARIABLES now,        \* the monotonic clock
          expiry,     \* tm.expiry: per key, when its suppression ends
          lastSweep,  \* tm.lastSweep
          allowedAt   \* history: per key, when Allow last returned true

throttleVars == <<now, expiry, lastSweep, allowedAt>>

ThrottleTypeOK ==
  /\ now \in Nat
  /\ expiry \in [Keys -> Nat \cup {NoEntry}]
  /\ lastSweep \in Nat
  /\ allowedAt \in [Keys -> Nat \cup {NoEntry}]

ThrottleInit ==
  /\ now = 0
  /\ expiry = [k \in Keys |-> NoEntry]
  /\ lastSweep = 0
  /\ allowedAt = [k \in Keys |-> NoEntry]

SweepDue == now - lastSweep >= SweepInterval

\* Mutant: an eviction that ignores the clock.
sweptForgetful == [k \in Keys |-> IF SweepDue THEN NoEntry ELSE expiry[k]]

\* sweepExpired: what the map holds after it.
swept == [k \in Keys |-> IF SweepDue /\ expiry[k] # NoEntry /\ ~(now < expiry[k])
                         THEN NoEntry ELSE expiry[k]]

sweepTime == IF SweepDue THEN now ELSE lastSweep

\* Mutant: the comparison the other way round.
SuppressesLate(k) == swept[k] # NoEntry /\ swept[k] < now

Suppresses(k) == swept[k] # NoEntry /\ now < swept[k]

\* Allow returns true and opens a window.
AllowTrue(k) ==
  /\ ~Suppresses(k)
  /\ expiry' = [swept EXCEPT ![k] = now + Window[k]]
  /\ allowedAt' = [allowedAt EXCEPT ![k] = now]
  /\ lastSweep' = sweepTime
  /\ UNCHANGED now

\* Allow returns false; the sweep has happened all the same.
AllowFalse(k) ==
  /\ Suppresses(k)
  /\ expiry' = swept
  /\ lastSweep' = sweepTime
  /\ UNCHANGED <<now, allowedAt>>

Allow(k) == AllowTrue(k) \/ AllowFalse(k)

Tick == now < MaxTime /\ now' = now + 1 /\ UNCHANGED <<expiry, lastSweep, allowedAt>>

ThrottleNext == Tick \/ \E k \in Keys : Allow(k)

ThrottleSpec == ThrottleInit /\ [][ThrottleNext]_throttleVars

-----------------------------------------------------------------------------
\* The map decides as one that never evicts would: a key is suppressed
\* exactly while less than its window has passed since Allow last let it
\* through, so opportunistic eviction never re-opens a window early and
\* never leaves a key suppressed (throttle.go:21-23, 38-40 and 55-67).
InWindow(k) == allowedAt[k] # NoEntry /\ now < allowedAt[k] + Window[k]

SweepInvisible ==
  \A k \in Keys : (expiry[k] # NoEntry /\ now < expiry[k]) <=> InWindow(k)

\* Two messages of a key are let through at least a window apart
\* ("subsequent messages within the window are suppressed", throttle.go:15-17).
Spaced ==
  [][\A k \in Keys : allowedAt[k] # NoEntry /\ allowedAt'[k] # allowedAt[k]
                       => allowedAt'[k] >= allowedAt[k] + Window[k]]_throttleVars

\* The map does not keep what a sweep should have dropped: an entry was alive
\* at the last sweep or is younger than it (throttle.go:21-23).
NoLeak == \A k \in Keys : expiry[k] # NoEntry => expiry[k] > lastSweep

-----------------------------------------------------------------------------
\* The inductive strengthening: an entry is the end of the key's last window,
\* and an evicted window has ended.
EntryMatches ==
  \A k \in Keys :
    IF expiry[k] # NoEntry
    THEN allowedAt[k] # NoEntry /\ expiry[k] = allowedAt[k] + Window[k]
    ELSE allowedAt[k] # NoEntry => now >= allowedAt[k] + Window[k]

TimesPast ==
  /\ lastSweep <= now
  /\ \A k \in Keys : allowedAt[k] # NoEntry => allowedAt[k] <= now

ThrottleInv == ThrottleTypeOK /\ EntryMatches /\ TimesPast /\ NoLeak
=============================================================================
