----------------------------- MODULE Lifecycle ------------------------------
(***************************************************************************)
(* internal/lifecycle/lifecycle.go: RunWithReload, with the signals, the   *)
(* rule files and the application it drives.  A signal goes into its       *)
(* channel's buffer of one while the channels are registered and meets the *)
(* default disposition, which ends the process, while they are not.  The   *)
(* wait for Run is bounded by runStopTimeout, Close by nothing.            *)
(***************************************************************************)
EXTENDS Naturals

CONSTANTS MaxSignals,  \* bound on signals sent
          MaxEdits     \* bound on edits of the rule files

ASSUME BoundAssumption == MaxSignals \in Nat /\ MaxEdits \in Nat

VARIABLES pc,         \* where RunWithReload is
          armed,      \* signal.Notify is in effect
          shutdownSig, reloadSig,  \* the channels hold a signal
          app,        \* the instance's Run: none, running, returned
          instances,  \* instances whose resources are not closed
          shouldReload, reloadCount,
          lingering,  \* Runs of closed instances that have not returned
          files,      \* what the rule files on disk are worth (external)
          sent, edits,  \* signals and edits so far
          exit,       \* why the process ended, or "none"
          asked,      \* history: SIGTERM reached the process
          discarded,  \* history: a buffered SIGTERM was thrown away
          edited,     \* history: the files changed since they were validated
          overruns    \* history: how often runStopTimeout has expired

signals == <<shutdownSig, reloadSig>>
reloadVars == <<pc, armed, shutdownSig, reloadSig, app, instances, shouldReload,
                reloadCount, lingering, files, sent, edits, exit, asked, discarded,
                edited, overruns>>
outside == <<files, sent, edits>>
history == <<asked, discarded, edited, overruns>>

Pcs == {"arm", "create", "wait", "validate", "unwind", "disarm", "close", "ended"}
Exits == {"none", "shutdown", "runError", "badRules", "unservable", "createError", "killed"}

\* Rules are refused by the loader ("bad"), or load and validate but cannot be
\* served: a JetStream subject has no stream, a consumer is refused, or the
\* scheduler feature has no schedule rule ("unservable").
Rulings == {"good", "unservable", "bad"}

ReloadTypeOK ==
  /\ pc \in Pcs
  /\ armed \in BOOLEAN /\ shutdownSig \in BOOLEAN /\ reloadSig \in BOOLEAN
  /\ app \in {"none", "running", "returned"}
  /\ instances \in 0 .. 1
  /\ shouldReload \in BOOLEAN
  /\ reloadCount \in 0 .. MaxSignals
  /\ lingering \in 0 .. MaxSignals /\ overruns \in 0 .. MaxSignals + 1
  /\ files \in Rulings
  /\ sent \in 0 .. MaxSignals /\ edits \in 0 .. MaxEdits
  /\ exit \in Exits
  /\ asked \in BOOLEAN /\ discarded \in BOOLEAN /\ edited \in BOOLEAN

ReloadInit ==
  /\ pc = "arm" /\ armed = FALSE /\ shutdownSig = FALSE /\ reloadSig = FALSE
  /\ app = "none" /\ instances = 0
  /\ shouldReload = FALSE /\ reloadCount = 0
  /\ lingering = 0 /\ overruns = 0
  /\ files = "good" /\ sent = 0 /\ edits = 0
  /\ exit = "none"
  /\ asked = FALSE /\ discarded = FALSE /\ edited = FALSE

Alive == pc # "ended"

-----------------------------------------------------------------------------
\* Operators (external): they edit the rule files and send signals.
Edit ==
  /\ Alive
  /\ edits < MaxEdits
  /\ edits' = edits + 1
  /\ files' \in Rulings \ {files}
  /\ edited' = TRUE
  /\ UNCHANGED <<pc, armed, signals, app, instances, shouldReload, reloadCount, lingering,
                 sent, exit, asked, discarded, overruns>>

Killed == pc' = "ended" /\ exit' = "killed"

\* A signal to a full channel is dropped by the runtime.
SendTerm ==
  /\ Alive
  /\ sent < MaxSignals
  /\ sent' = sent + 1
  /\ asked' = TRUE
  /\ \/ armed /\ shutdownSig' = TRUE /\ UNCHANGED <<pc, exit>>
     \/ ~armed /\ Killed /\ UNCHANGED shutdownSig
  /\ UNCHANGED <<armed, reloadSig, app, instances, shouldReload, reloadCount,
                 lingering, files, edits, discarded, edited, overruns>>

SendHup ==
  /\ Alive
  /\ sent < MaxSignals
  /\ sent' = sent + 1
  /\ \/ armed /\ reloadSig' = TRUE /\ UNCHANGED <<pc, exit>>
     \/ ~armed /\ Killed /\ UNCHANGED reloadSig
  /\ UNCHANGED <<armed, shutdownSig, app, instances, shouldReload, reloadCount,
                 lingering, files, edits, history>>

-----------------------------------------------------------------------------
\* The loop body.  Fresh channels are registered before the application is
\* created.
Arm ==
  /\ pc = "arm"
  /\ pc' = "create"
  /\ armed' = TRUE
  /\ shutdownSig' = FALSE /\ reloadSig' = FALSE
  /\ UNCHANGED <<app, instances, shouldReload, reloadCount, lingering, outside, exit, history>>

Create ==
  /\ pc = "create"
  /\ files = "good"
  /\ pc' = "wait"
  /\ app' = "running"
  /\ instances' = instances + 1
  /\ UNCHANGED <<armed, signals, shouldReload, reloadCount, lingering, outside, exit, history>>

\* createApp loads the rules again, connects, and sets up their subscriptions
\* and jobs: it fails because of the rules, or for another reason.
CreateFails ==
  /\ pc = "create"
  /\ \/ files = "bad" /\ exit' = "badRules"
     \/ files = "unservable" /\ exit' = "unservable"
     \/ exit' = "createError"
  /\ pc' = "ended"
  /\ armed' = FALSE
  /\ shutdownSig' = FALSE /\ reloadSig' = FALSE
  /\ UNCHANGED <<app, instances, shouldReload, reloadCount, lingering, outside, history>>

\* Mutant: shouldReload outlives its round.
TakeShutdownStale ==
  /\ pc = "wait"
  /\ shutdownSig
  /\ shutdownSig' = FALSE
  /\ exit' = "shutdown"
  /\ pc' = "unwind"
  /\ UNCHANGED <<armed, reloadSig, app, instances, shouldReload, reloadCount, lingering, outside, history>>

\* waitLoop: select takes any case that is ready.
TakeShutdown ==
  /\ pc = "wait"
  /\ shutdownSig
  /\ shutdownSig' = FALSE
  /\ shouldReload' = FALSE
  /\ exit' = "shutdown"
  /\ pc' = "unwind"
  /\ UNCHANGED <<armed, reloadSig, app, instances, reloadCount, lingering, outside, history>>

TakeReload ==
  /\ pc = "wait"
  /\ reloadSig
  /\ reloadSig' = FALSE
  /\ pc' = "validate"
  /\ UNCHANGED <<armed, shutdownSig, app, instances, shouldReload, reloadCount,
                 lingering, outside, exit, history>>

TakeError ==
  /\ pc = "wait"
  /\ app = "returned"
  /\ shouldReload' = FALSE
  /\ exit' = "runError"
  /\ pc' = "unwind"
  /\ UNCHANGED <<armed, signals, app, instances, reloadCount, lingering, outside, history>>

\* Mutant: the rules are not validated before the teardown.
ValidateNothing ==
  /\ pc = "validate"
  /\ edited' = FALSE
  /\ shouldReload' = TRUE
  /\ reloadCount' = reloadCount + 1
  /\ pc' = "unwind"
  /\ UNCHANGED <<armed, signals, app, instances, lingering, outside, exit, asked, discarded, overruns>>

\* The rules are loaded before anything is torn down, and no more.
Validate ==
  /\ pc = "validate"
  /\ edited' = FALSE
  /\ \/ /\ files = "bad"
        /\ pc' = "wait"
        /\ UNCHANGED <<shouldReload, reloadCount>>
     \/ /\ files # "bad"
        /\ shouldReload' = TRUE
        /\ reloadCount' = reloadCount + 1
        /\ pc' = "unwind"
  /\ UNCHANGED <<armed, signals, app, instances, lingering, outside, exit, asked, discarded, overruns>>

\* cancel(), then wait for Run to return ...
Unwound ==
  /\ pc = "unwind"
  /\ app = "returned"
  /\ pc' = "disarm"
  /\ UNCHANGED <<armed, signals, app, instances, shouldReload, reloadCount,
                 lingering, outside, exit, history>>

\* ... or for runStopTimeout.
UnwindTimesOut ==
  /\ pc = "unwind"
  /\ app = "running"
  /\ overruns' = overruns + 1
  /\ pc' = "disarm"
  /\ UNCHANGED <<armed, signals, app, instances, shouldReload, reloadCount, lingering,
                 outside, exit, asked, discarded, edited>>

\* signal.Stop and close: what the channels hold is gone.
Disarm ==
  /\ pc = "disarm"
  /\ armed' = FALSE
  /\ discarded' = (discarded \/ (shutdownSig /\ shouldReload))
  /\ shutdownSig' = FALSE /\ reloadSig' = FALSE
  /\ pc' = "close"
  /\ UNCHANGED <<app, instances, shouldReload, reloadCount, lingering, outside, exit, asked, edited, overruns>>

\* application.Close, if it returns; then exit or go round again.  A Run that
\* has not returned goes on beside the next instance.
CloseReturns ==
  /\ pc = "close"
  /\ instances' = instances - 1
  /\ app' = "none"
  /\ lingering' = lingering + (IF shouldReload /\ app = "running" THEN 1 ELSE 0)
  /\ pc' = IF shouldReload THEN "arm" ELSE "ended"
  /\ UNCHANGED <<armed, signals, shouldReload, reloadCount, outside, exit, history>>

\* The application's Run returns after cancel(), or on its own account.
RunReturns ==
  /\ app = "running"
  /\ Alive
  /\ app' = "returned"
  /\ UNCHANGED <<pc, armed, signals, instances, shouldReload, reloadCount,
                 lingering, outside, exit, history>>

\* So does the Run of an instance that is closed already.
LateRunReturns ==
  /\ lingering > 0
  /\ Alive
  /\ lingering' = lingering - 1
  /\ UNCHANGED <<pc, armed, signals, app, instances, shouldReload, reloadCount,
                 outside, exit, history>>

MainStep ==
  \/ Arm
  \/ Create
  \/ CreateFails
  \/ TakeShutdown
  \/ TakeReload
  \/ TakeError
  \/ Validate
  \/ Unwound
  \/ UnwindTimesOut
  \/ Disarm

ReloadNext ==
  \/ Edit
  \/ SendTerm
  \/ SendHup
  \/ MainStep
  \/ CloseReturns
  \/ RunReturns
  \/ LateRunReturns

ReloadSpec == ReloadInit /\ [][ReloadNext]_reloadVars

\* The main goroutine goes on: createApp, validate and the wait for Run are
\* bounded by timeouts.  Neither Run nor Close owes a return, nor does an
\* operator owe anything.
FairReloadSpec == ReloadSpec /\ WF_reloadVars(MainStep)

-----------------------------------------------------------------------------
\* A new instance is created when the old one's resources are closed, and
\* beside no Run of an old one but those runStopTimeout gave up on
\* (lifecycle.go:141-189).
OneInstance == pc = "create" => instances = 0 /\ lingering <= overruns

\* A service that was running ends because of its rules only if the files
\* changed after the check that precedes the teardown, or if they load and
\* cannot be served, which the check does not look at (lifecycle.go:117-129,
\* main.go:127-140).
ReloadChecked ==
  exit \in {"badRules", "unservable"} /\ reloadCount > 0 => edited \/ files = "unservable"

\* A reload never runs two instances, and ends the service because of rules
\* only where the check could not refuse them.
ReloadSafe == OneInstance /\ ReloadChecked

\* A shutdown that is asked for comes, unless a reload under way threw the
\* request away (lifecycle.go:108-115 and 163-167) or Close, which nothing
\* bounds, never returns (lifecycle.go:172).
ShutdownUnlessDiscarded == asked ~> (pc = "ended" \/ discarded \/ [](pc = "close"))
=============================================================================
