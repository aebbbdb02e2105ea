------------------------------ MODULE PidFile ------------------------------
(***************************************************************************)
(* embodiment.daemon.lifecycle: the processes that start and stop the      *)
(* daemon, the daemon itself, and the pid file between them, whose flock   *)
(* is the claim to be the daemon and whose record says which process that  *)
(* is.  A start opens the file, takes the lock, spawns a child that        *)
(* inherits the descriptor, writes a record and waits for the child to     *)
(* write its own; a stop finds the lock held, verifies the process that    *)
(* the record names, and signals it.                                       *)
(*                                                                         *)
(* Grain: one action is one system call another process could notice, or   *)
(* one critical section of the daemon's two threads.  Clocks are left out: *)
(* a wait may time out whenever what it waits for is not so.  One state    *)
(* directory; the fallback candidates are not modelled.                    *)
(***************************************************************************)
EXTENDS Naturals, FiniteSets

CONSTANTS
  Starts,           \* invocations of start(); each spawns at most one daemon
  Stops,            \* invocations of stop()
  Pids,             \* process numbers, recycled by the kernel
  Old,              \* a daemon of an earlier boot, and the file it left
  Nobody,           \* no process, no file, no record
  SpawnFails,       \* may the log not open, or the child not spawn?
  SlowStart         \* may a start be slower to write than its child to boot?

ASSUME PidAssumption ==
  /\ SpawnFails \in BOOLEAN /\ SlowStart \in BOOLEAN
  /\ Starts \cap Stops = {} /\ {Old, Nobody} \cap (Starts \cup Stops) = {}
  /\ Old # Nobody /\ Nobody \notin Pids

VARIABLES
  named,            \* the file the path names: the start that created it, Old or Nobody
  record,           \* what each file holds
  opened,           \* the file each start has open
  keep,             \* who has the start's locked descriptor: parent, child
  probing,          \* the file whose lock a probe holds for an instant
  cli,              \* where each invocation of start or stop is
  main, watchdog,   \* where the two threads of each daemon are
  asked,            \* _stop_requested
  exiting,          \* _exiting
  owner,            \* the process that has each process number
  target,           \* what a stop has read: number and start time of the daemon
  escalated,        \* is the stop at SIGKILL
  \* history
  outcome,          \* how a start or stop returned
  ended,            \* how each daemon died
  unlinked          \* has a start that could not spawn removed the path

pidVars == <<named, record, opened, keep, probing, cli, main, watchdog, asked, exiting,
             owner, target, escalated, outcome, ended, unlinked>>

Files == Starts \cup {Old}
States == {"empty", "torn", "spawned", "running", "exited"}
Readable(r) == r.state \notin {"empty", "torn"}
Blank == [state |-> "empty", pid |-> Nobody, born |-> Nobody]
Torn == [Blank EXCEPT !.state = "torn"]

\* A start time identifies the process that has it: no two processes share one.
Entry(state, p, process) == [state |-> state, pid |-> p, born |-> process]

NumberOf(s) == CHOOSE p \in Pids : owner[p] = s

\* Mutant: a lock of the process, which a child does not inherit.
BadLocked(f) == \/ \E s \in Starts : opened[s] = f /\ "parent" \in keep[s]
                \/ \E c \in DOMAIN probing : probing[c] = f

\* flock() by anybody else on a descriptor of its own would block.
Locked(f) == \/ \E s \in Starts : opened[s] = f /\ keep[s] # {}
             \/ \E c \in DOMAIN probing : probing[c] = f

Alive(s) == "child" \in keep[s]

PidInit ==
  /\ \E p \in Pids, state \in {"none", "running", "exited"} :
       /\ named = IF state = "none" THEN Nobody ELSE Old
       /\ record = [f \in Files |-> IF f = Old /\ state # "none"
                                    THEN Entry(state, p, Old) ELSE Blank]
  /\ opened = [s \in Starts |-> Nobody]
  /\ keep = [s \in Starts |-> {}]
  /\ probing = [c \in Starts \cup Stops |-> Nobody]
  /\ cli = [c \in Starts \cup Stops |-> "idle"]
  /\ main = [s \in Starts |-> "none"] /\ watchdog = [s \in Starts |-> "off"]
  /\ asked = [s \in Starts |-> FALSE] /\ exiting = [s \in Starts |-> FALSE]
  /\ owner = [p \in Pids |-> Nobody]
  /\ target = [k \in Stops |-> [pid |-> Nobody, born |-> Nobody]]
  /\ escalated = [k \in Stops |-> FALSE]
  /\ outcome = [c \in Starts \cup Stops |-> "none"]
  /\ ended = [s \in Starts |-> "no"]
  /\ unlinked = FALSE

(***************************************************************************)
(* The file.                                                               *)
(***************************************************************************)
Goto(c, place) == cli' = [cli EXCEPT ![c] = place]
Return(c, how) == /\ cli' = [cli EXCEPT ![c] = "done"]
                  /\ outcome' = [outcome EXCEPT ![c] = how]

\* _probe_locked: the lock is taken for an instant when it is free.
TakeProbe(c) == /\ named # Nobody /\ ~Locked(named)
                /\ probing' = [probing EXCEPT ![c] = named]
DropProbe(c) == probing' = [probing EXCEPT ![c] = Nobody]

\* PidFile.write after its truncation: a shorter text over a longer one leaves
\* the tail of the longer.  The three records of a daemon grow as it goes on.
Overwritten(old, new) ==
  IF new.state = "spawned" /\ old.state \in {"running", "exited"} THEN Torn ELSE new

(***************************************************************************)
(* start()                                                                 *)
(***************************************************************************)
daemonVars == <<main, watchdog, asked, exiting, ended>>
stopVars == <<target, escalated>>

\* _scan and _live: with the lock held a daemon is running already.
StartScan(s) ==
  /\ cli[s] = "idle"
  /\ \/ /\ named = Nobody /\ Goto(s, "open") /\ UNCHANGED <<probing, outcome>>
     \/ /\ TakeProbe(s) /\ Goto(s, "scanned") /\ UNCHANGED outcome
     \/ /\ named # Nobody /\ Locked(named)
        /\ Return(s, "already") /\ UNCHANGED probing
  /\ UNCHANGED <<named, record, opened, keep, daemonVars, owner, stopVars, unlinked>>

StartScanned(s) ==
  /\ cli[s] = "scanned"
  /\ DropProbe(s) /\ Goto(s, "open")
  /\ UNCHANGED <<named, record, opened, keep, daemonVars, owner, stopVars, outcome,
                 unlinked>>

\* Mutant: opens with O_TRUNC.
BadStartOpen(s) ==
  /\ cli[s] = "open"
  /\ named' = IF named = Nobody THEN s ELSE named
  /\ opened' = [opened EXCEPT ![s] = named']
  /\ record' = [record EXCEPT ![named'] = Blank]
  /\ Goto(s, "lock")
  /\ UNCHANGED <<keep, probing, daemonVars, owner, stopVars, outcome, unlinked>>

\* acquire: O_CREAT, then the lock, without a look at whether the path still
\* names the file that was opened.
StartOpen(s) ==
  /\ cli[s] = "open"
  /\ named' = IF named = Nobody THEN s ELSE named
  /\ opened' = [opened EXCEPT ![s] = named']
  /\ Goto(s, "lock")
  /\ UNCHANGED <<record, keep, probing, daemonVars, owner, stopVars, outcome, unlinked>>

StartLock(s) ==
  /\ cli[s] = "lock"
  /\ \/ /\ ~Locked(opened[s])
        /\ keep' = [keep EXCEPT ![s] = {"parent"}]
        /\ Goto(s, "spawn") /\ UNCHANGED opened
     \/ /\ Locked(opened[s])                      \* at the last attempt
        /\ opened' = [opened EXCEPT ![s] = Nobody]
        /\ Goto(s, "rescan") /\ UNCHANGED keep
  /\ UNCHANGED <<named, record, probing, daemonVars, owner, stopVars, outcome, unlinked>>

\* The lock was lost: to a daemon, or to somebody who has let go since.
StartRescan(s) ==
  /\ cli[s] = "rescan"
  /\ \/ /\ named = Nobody /\ Return(s, "busy") /\ UNCHANGED probing
     \/ /\ TakeProbe(s) /\ Goto(s, "rescanned") /\ UNCHANGED outcome
     \/ /\ named # Nobody /\ Locked(named) /\ Return(s, "already") /\ UNCHANGED probing
  /\ UNCHANGED <<named, record, opened, keep, daemonVars, owner, stopVars, unlinked>>

StartRescanned(s) ==
  /\ cli[s] = "rescanned"
  /\ DropProbe(s) /\ Return(s, "busy")
  /\ UNCHANGED <<named, record, opened, keep, daemonVars, owner, stopVars, unlinked>>

\* _spawn up to Popen; no log or no child: the path is removed, then the lock
\* released.
StartSpawn(s) ==
  /\ cli[s] = "spawn"
  /\ \/ /\ SpawnFails
        /\ named' = Nobody /\ unlinked' = TRUE
        /\ keep' = [keep EXCEPT ![s] = {}]
        /\ Return(s, "failed") /\ UNCHANGED <<main, owner>>
     \/ /\ \E p \in Pids : owner[p] = Nobody /\ owner' = [owner EXCEPT ![p] = s]
        /\ keep' = [keep EXCEPT ![s] = {"parent", "child"}]
        /\ main' = [main EXCEPT ![s] = "boot"]
        /\ Goto(s, "truncate") /\ UNCHANGED <<named, outcome, unlinked>>
  /\ UNCHANGED <<record, opened, probing, watchdog, asked, exiting, ended, stopVars>>

\* The parent's record; the child may have written its own by now.
StartTruncate(s) ==
  /\ cli[s] = "truncate"
  /\ record' = [record EXCEPT ![opened[s]] = Blank]
  /\ Goto(s, "write")
  /\ UNCHANGED <<named, opened, keep, probing, daemonVars, owner, stopVars, outcome, unlinked>>

StartWrite(s) ==
  /\ cli[s] = "write"
  /\ record' = [record EXCEPT ![opened[s]] = Overwritten(@, Entry("spawned", NumberOf(s), s))]
  /\ Goto(s, "confirm")
  /\ UNCHANGED <<named, opened, keep, probing, daemonVars, owner, stopVars, outcome, unlinked>>

\* _confirm: the record says running, or the child has exited, or time is up.
StartConfirm(s) ==
  /\ cli[s] = "confirm"
  /\ \/ record[opened[s]].state = "running" /\ Return(s, "started")
     \/ record[opened[s]].state # "running" /\ ~Alive(s) /\ Return(s, "early")
     \/ record[opened[s]].state # "running" /\ Alive(s) /\ Return(s, "unconfirmed")
  /\ keep' = [keep EXCEPT ![s] = @ \ {"parent"}]
  /\ UNCHANGED <<named, record, opened, probing, daemonVars, owner, stopVars, unlinked>>

(***************************************************************************)
(* The daemon: its main thread, and the watchdog that bounds a stop.       *)
(***************************************************************************)
cliVars == <<named, opened, probing, cli, owner, stopVars, outcome, unlinked>>

\* os._exit, the end of main, or a signal: descriptors and threads go.
Dies(s, how) ==
  /\ keep' = [keep EXCEPT ![s] = @ \ {"child"}]
  /\ main' = [main EXCEPT ![s] = "dead"] /\ watchdog' = [watchdog EXCEPT ![s] = "off"]
  /\ ended' = [ended EXCEPT ![s] = how]

\* _child_main: the target resolves and builds, or _mark_child_failure.  By then
\* the parent has written its record, unless it is held up for as long as an
\* interpreter takes to come up.
Boot(s) ==
  /\ main[s] = "boot" /\ (SlowStart \/ cli[s] \notin {"truncate", "write"})
  /\ \/ /\ main' = [main EXCEPT ![s] = "mark"]
        /\ watchdog' = [watchdog EXCEPT ![s] = "watch"]
     \/ main' = [main EXCEPT ![s] = "fail"] /\ UNCHANGED watchdog
  /\ UNCHANGED <<cliVars, record, keep, asked, exiting, ended>>

\* _mark_running and _mark_child_failure: read and truncate ...
MarkTruncate(s) ==
  /\ main[s] \in {"mark", "fail"}
  /\ record' = [record EXCEPT ![opened[s]] = Blank]
  /\ main' = [main EXCEPT ![s] = IF @ = "mark" THEN "marking" ELSE "failing"]
  /\ UNCHANGED <<cliVars, keep, watchdog, asked, exiting, ended>>

\* ... and write.
MarkRunning(s) ==
  /\ main[s] = "marking"
  /\ record' = [record EXCEPT ![opened[s]] = Overwritten(@, Entry("running", NumberOf(s), s))]
  /\ main' = [main EXCEPT ![s] = "run"]
  /\ UNCHANGED <<cliVars, keep, watchdog, asked, exiting, ended>>

MarkChildFailure(s) ==
  /\ main[s] = "failing"
  /\ record' = [record EXCEPT ![opened[s]] = Overwritten(@, Entry("exited", NumberOf(s), s))]
  /\ main' = [main EXCEPT ![s] = "failed"]
  /\ UNCHANGED <<cliVars, keep, watchdog, asked, exiting, ended>>

\* The target returns or raises, asked to or not; then its shutdown; then
\* _finished.
RunReturns(s) ==
  /\ main[s] = "run"
  /\ main' = [main EXCEPT ![s] = "shutdown"] /\ asked' = [asked EXCEPT ![s] = TRUE]
  /\ UNCHANGED <<cliVars, record, keep, watchdog, exiting, ended>>

ShutdownReturns(s) ==
  /\ main[s] = "shutdown"
  /\ main' = [main EXCEPT ![s] = "finish"]
  /\ UNCHANGED <<cliVars, record, keep, watchdog, asked, exiting, ended>>

\* _finalise by the main thread: the first to come exits the process, the
\* other returns, which for the main thread is the end of the process too.
Finalise(s) ==
  /\ main[s] = "finish"
  /\ main' = [main EXCEPT ![s] = IF exiting[s] THEN "leave" ELSE "exit"]
  /\ exiting' = [exiting EXCEPT ![s] = TRUE]
  /\ UNCHANGED <<cliVars, record, keep, watchdog, asked, ended>>

\* Mutant: counts only once run has returned.
BadWatchFires(s) ==
  /\ watchdog[s] = "watch" /\ asked[s] /\ ~exiting[s]
  /\ main[s] = "finish"
  /\ watchdog' = [watchdog EXCEPT ![s] = "exit"]
  /\ exiting' = [exiting EXCEPT ![s] = TRUE]
  /\ UNCHANGED <<cliVars, record, keep, main, asked, ended>>

\* _watch past its deadline.  Marking takes less than the deadline.
WatchFires(s) ==
  /\ watchdog[s] = "watch" /\ asked[s] /\ ~exiting[s]
  /\ main[s] \in {"run", "shutdown", "finish"}
  /\ watchdog' = [watchdog EXCEPT ![s] = "exit"]
  /\ exiting' = [exiting EXCEPT ![s] = TRUE]
  /\ UNCHANGED <<cliVars, record, keep, main, asked, ended>>

\* _mark_exited reads the record to build on it, truncates, and writes; what
\* it could not read is lost, the start time with it.
Exiter(s) == IF main[s] \in {"exit", "exiting", "exitingBare", "exited"} THEN main[s]
             ELSE watchdog[s]
ExitStep(s, place) ==
  IF main[s] \in {"exit", "exiting", "exitingBare", "exited"}
  THEN main' = [main EXCEPT ![s] = place] /\ UNCHANGED watchdog
  ELSE watchdog' = [watchdog EXCEPT ![s] = place] /\ UNCHANGED main

ExitTruncate(s) ==
  /\ main[s] # "dead" /\ Exiter(s) = "exit"
  /\ record' = [record EXCEPT ![opened[s]] = Blank]
  /\ ExitStep(s, IF Readable(record[opened[s]]) THEN "exiting" ELSE "exitingBare")
  /\ UNCHANGED <<cliVars, keep, asked, exiting, ended>>

ExitWrite(s) ==
  /\ main[s] # "dead" /\ Exiter(s) \in {"exiting", "exitingBare"}
  /\ record' = [record EXCEPT ![opened[s]] =
                  Overwritten(@, Entry("exited", NumberOf(s),
                                       IF Exiter(s) = "exiting" THEN s ELSE Nobody))]
  /\ ExitStep(s, "exited")
  /\ UNCHANGED <<cliVars, keep, asked, exiting, ended>>

Exit(s) ==
  /\ \/ main[s] = "failed" /\ Dies(s, "exit")
     \/ main[s] = "leave" /\ Dies(s, "left")
     \/ main[s] # "dead" /\ Exiter(s) = "exited" /\ Dies(s, "exit")
  /\ UNCHANGED <<cliVars, record, asked, exiting>>

(***************************************************************************)
(* stop()                                                                  *)
(***************************************************************************)
StopScan(k) ==
  /\ cli[k] = "idle"
  /\ \/ named = Nobody /\ Return(k, "nothing") /\ UNCHANGED probing
     \/ TakeProbe(k) /\ Goto(k, "scanned") /\ UNCHANGED outcome
     \/ /\ named # Nobody /\ Locked(named)
        /\ Goto(k, "read") /\ UNCHANGED <<probing, outcome>>
  /\ UNCHANGED <<named, record, opened, keep, daemonVars, owner, stopVars, unlinked>>

StopScanned(k) ==
  /\ cli[k] = "scanned"
  /\ DropProbe(k) /\ Return(k, "nothing")
  /\ UNCHANGED <<named, record, opened, keep, daemonVars, owner, stopVars, unlinked>>

\* The record, read after the probe; without a number in it nothing is
\* signalled.  A record without a start time: that of whoever has the number now.
StopRead(k) ==
  /\ cli[k] = "read"
  /\ LET r == IF named = Nobody THEN Blank ELSE record[named] IN
       \/ /\ ~Readable(r) /\ Return(k, "refused") /\ UNCHANGED target
       \/ /\ Readable(r) /\ Goto(k, "verify") /\ UNCHANGED outcome
          /\ target' = [target EXCEPT ![k] =
               [pid |-> r.pid, born |-> IF r.born = Nobody THEN owner[r.pid] ELSE r.born]]
  /\ UNCHANGED <<named, record, opened, keep, probing, daemonVars, owner, escalated, unlinked>>

\* _verify_target: is the lock still held ...
StopVerify(k) ==
  /\ cli[k] = "verify"
  /\ \/ named = Nobody /\ Goto(k, "wait") /\ UNCHANGED probing
     \/ TakeProbe(k) /\ Goto(k, "verified")
     \/ named # Nobody /\ Locked(named) /\ Goto(k, "identify") /\ UNCHANGED probing
  /\ UNCHANGED <<named, record, opened, keep, daemonVars, owner, stopVars, outcome,
                 unlinked>>

StopVerified(k) ==
  /\ cli[k] = "verified"
  /\ DropProbe(k) /\ Goto(k, "wait")
  /\ UNCHANGED <<named, record, opened, keep, daemonVars, owner, stopVars, outcome,
                 unlinked>>

\* ... does the record name the same number, and has its process the same
\* start time (or none that can be had).
SameProcess(k) ==
  target[k].born = Nobody \/ owner[target[k].pid] \in {Nobody, target[k].born}

StopIdentify(k) ==
  /\ cli[k] = "identify"
  /\ LET r == IF named = Nobody THEN Blank ELSE record[named] IN
       \/ /\ r.pid = target[k].pid /\ SameProcess(k)
          /\ Goto(k, "signal")
       \/ /\ r.pid # target[k].pid \/ ~SameProcess(k)
          /\ Goto(k, "wait")
  /\ UNCHANGED <<named, record, opened, keep, probing, daemonVars, owner, target, escalated,
                 outcome, unlinked>>

\* os.kill: SIGTERM asks a daemon that has its handlers, and ends one that has
\* not; SIGKILL ends it; a process of another owner takes what it gets.
Signalled(s, k) ==
  IF main[s] = "dead" THEN UNCHANGED <<daemonVars, keep>>
  ELSE IF escalated[k] \/ main[s] \in {"boot", "fail", "failing", "failed"}
       THEN Dies(s, "killed") /\ UNCHANGED <<asked, exiting>>
       ELSE asked' = [asked EXCEPT ![s] = TRUE] /\ UNCHANGED <<main, watchdog, exiting, ended, keep>>

StopSignal(k) ==
  /\ cli[k] = "signal"
  /\ LET hit == owner[target[k].pid] IN
       \/ hit = Nobody /\ Return(k, "noSuchProcess") /\ UNCHANGED <<daemonVars, keep>>
       \/ hit \in Starts /\ Goto(k, "wait") /\ Signalled(hit, k) /\ UNCHANGED outcome
  /\ UNCHANGED <<named, record, opened, probing, owner, stopVars, unlinked>>

\* _wait_for_release: until the lock is free, or time is up.
StopWait(k) ==
  /\ cli[k] = "wait"
  /\ \/ named = Nobody /\ Return(k, "confirmed") /\ UNCHANGED <<probing, escalated>>
     \/ TakeProbe(k) /\ Goto(k, "released") /\ UNCHANGED <<outcome, escalated>>
     \/ /\ named # Nobody /\ Locked(named) /\ ~escalated[k]
        /\ escalated' = [escalated EXCEPT ![k] = TRUE]
        /\ Goto(k, "verify") /\ UNCHANGED <<probing, outcome>>
     \/ /\ named # Nobody /\ Locked(named) /\ escalated[k]
        /\ Return(k, "unconfirmed") /\ UNCHANGED <<probing, escalated>>
  /\ UNCHANGED <<named, record, opened, keep, daemonVars, owner, target, unlinked>>

StopReleased(k) ==
  /\ cli[k] = "released"
  /\ DropProbe(k) /\ Return(k, "confirmed")
  /\ UNCHANGED <<named, record, opened, keep, daemonVars, owner, stopVars, unlinked>>

(***************************************************************************)
(* The kernel: numbers are given and taken back.  A dead child keeps its   *)
(* number until the start that spawned it has looked, or is gone.          *)
(***************************************************************************)
Recycle(p) ==
  /\ owner[p] \in Starts /\ main[owner[p]] = "dead" /\ cli[owner[p]] = "done"
  /\ owner' = [owner EXCEPT ![p] = Nobody]
  /\ UNCHANGED <<named, record, opened, keep, probing, cli, daemonVars, stopVars, outcome, unlinked>>

StartStep(s) ==
  \/ StartScan(s) \/ StartScanned(s) \/ StartOpen(s) \/ StartLock(s) \/ StartRescan(s)
  \/ StartRescanned(s) \/ StartSpawn(s) \/ StartTruncate(s) \/ StartWrite(s)
  \/ StartConfirm(s)
DaemonStep(s) ==
  \/ Boot(s) \/ MarkTruncate(s) \/ MarkRunning(s) \/ MarkChildFailure(s) \/ RunReturns(s)
  \/ ShutdownReturns(s) \/ Finalise(s) \/ WatchFires(s) \/ ExitTruncate(s) \/ ExitWrite(s)
  \/ Exit(s)
StopStep(k) ==
  \/ StopScan(k) \/ StopScanned(k) \/ StopRead(k) \/ StopVerify(k) \/ StopVerified(k)
  \/ StopIdentify(k) \/ StopSignal(k) \/ StopWait(k) \/ StopReleased(k)

PidNext == \/ \E s \in Starts : StartStep(s) \/ DaemonStep(s)
           \/ \E k \in Stops : StopStep(k)
           \/ \E p \in Pids : Recycle(p)

PidSpec == PidInit /\ [][PidNext]_pidVars

\* The daemon's own threads are scheduled; its target need not ever return.
PidFairness ==
  \A s \in Starts : /\ WF_pidVars(Boot(s) \/ MarkTruncate(s) \/ MarkRunning(s))
                     /\ WF_pidVars(MarkChildFailure(s) \/ Finalise(s) \/ WatchFires(s))
                     /\ WF_pidVars(ExitTruncate(s) \/ ExitWrite(s) \/ Exit(s))

(***************************************************************************)
(* Properties.                                                             *)
(***************************************************************************)
PidTypeOK ==
  /\ named \in Files \cup {Nobody}
  /\ record \in [Files -> [state : States, pid : Pids \cup {Nobody}, born : Files \cup {Nobody}]]
  /\ opened \in [Starts -> Files \cup {Nobody}]
  /\ keep \in [Starts -> SUBSET {"parent", "child"}]
  /\ probing \in [Starts \cup Stops -> Files \cup {Nobody}]
  /\ owner \in [Pids -> Starts \cup {Nobody}]
  /\ unlinked \in BOOLEAN

\* At most one process runs as the daemon.
SingleInstance == \A s, t \in Starts : Alive(s) /\ Alive(t) => s = t

\* Whatever starts, probes, stops and deaths come together: at most one process
\* runs as the daemon, as long as no start had to remove the path.
OneDaemon == ~unlinked => SingleInstance

\* A daemon that runs can be found and addressed: the path names the file whose
\* lock it holds, and the record in it has its number and its start time -- as
\* long as no start had to remove the path or wrote its record too late.
DaemonAddressable ==
  \A s \in Starts :
    main[s] \in {"run", "shutdown", "finish"} /\ watchdog[s] = "watch" /\ ~SlowStart /\ ~unlinked
    => named = opened[s] /\ record[named] = Entry("running", NumberOf(s), s)

\* A stop that reports its daemon stopped is right: the process it read of is
\* no longer running.
ConfirmedIsGone ==
  \A k \in Stops :
    outcome[k] = "confirmed" /\ ~unlinked /\ target[k].born \in Starts => ~Alive(target[k].born)

\* A daemon that exits by itself leaves its file saying so, unless its start
\* was so slow that it wrote after it, or its main thread came to the end while the
\* watchdog was writing; a later start may have claimed the file since.
ExitRecorded ==
  \A s \in Starts :
    /\ ended[s] = "exit" /\ cli[s] = "done" /\ ~SlowStart
    /\ \A t \in Starts \ {s} : opened[t] = opened[s] => cli[t] \in {"lock", "rescan"}
    => record[opened[s]].state = "exited"

\* What the pid file says is so, of a daemon that runs, of one that exited and of one a
\* stop reports stopped, however starts, stops, probes, watchdogs and deaths mix.
FileIsTrue == DaemonAddressable /\ ExitRecorded /\ ConfirmedIsGone

\* A daemon that was asked to stop ends, whatever its target does: the watchdog
\* bounds a run and a shutdown that do not return.
StopObeyed == \A s \in Starts : asked[s] ~> main[s] = "dead"
=============================================================================
