----------------------------- MODULE DaemonProofs -----------------------------
(***************************************************************************)
(* Theorems about what a daemon leaves on disk, for any number of starts,  *)
(* stops, process numbers, to-dos and markers: the lock on the pid file    *)
(* admits one daemon (PidFile), what the file says is true (PidFile), and  *)
(* a death forgets no to-do mark the daemon still works on (TodoMarks);    *)
(* and that the parts of the daemon, put together as MCDaemon does, keep   *)
(* their types.                                                            *)
(***************************************************************************)
EXTENDS MCDaemon, MeshProofs, EarsProofs

(***************************************************************************)
(* The lock admits one daemon.                                             *)
(***************************************************************************)
PidTypes ==
  /\ opened \in [Starts -> Files \cup {Nobody}]
  /\ keep \in [Starts -> SUBSET {"parent", "child"}]
  /\ DOMAIN cli = Starts \cup Stops /\ named \in Files \cup {Nobody}

\* A start has no lock until it has taken it, and holds it until it has spawned.
StartPlaces ==
  \A s \in Starts :
    /\ cli[s] \in {"idle", "scanned", "open", "lock", "rescan", "rescanned"} => keep[s] = {}
    /\ cli[s] = "spawn" => "parent" \in keep[s]
    /\ keep[s] # {} \/ cli[s] = "lock" => opened[s] # Nobody

\* A file's lock is had through one descriptor.
Exclusive ==
  \A s, t \in Starts : keep[s] # {} /\ keep[t] # {} /\ opened[s] = opened[t] => s = t

\* As long as no start has removed the path, all have opened the file it names.
OneFile == ~unlinked => \A s \in Starts : opened[s] \in {Nobody, named}

PidIInv == PidTypes /\ StartPlaces /\ Exclusive /\ OneFile

\* The start whose turn it is goes on, and the rest of the world stands; or a child
\* goes, and its hold on the lock with it.
Weaker ==
  /\ UNCHANGED <<named, opened, unlinked>> /\ DOMAIN cli' = DOMAIN cli
  /\ keep' \in [Starts -> SUBSET {"parent", "child"}]
  /\ \A s \in Starts :
       /\ keep'[s] \subseteq keep[s] /\ ("parent" \in keep[s] => "parent" \in keep'[s])
       /\ cli'[s] = cli[s]

\* Such a step keeps the invariant.
LEMMA WeakerKeeps == ASSUME PidIInv, Weaker PROVE PidIInv'
  BY DEF PidIInv, PidTypes, StartPlaces, Exclusive, OneFile, Weaker

\* At first no start has opened the file; an earlier boot may have left it.
LEMMA PidInitially == ASSUME PidInit PROVE PidIInv
  BY DEF PidInit, PidIInv, PidTypes, StartPlaces, Exclusive, OneFile, Files

\* A process that dies gives up its own hold on the lock only.
LEMMA DiesKeeps ==
  ASSUME PidTypes, NEW s, NEW how, Dies(s, how)
  PROVE  /\ keep' \in [Starts -> SUBSET {"parent", "child"}]
         /\ \A t \in Starts : /\ keep'[t] \subseteq keep[t]
                              /\ "parent" \in keep[t] => "parent" \in keep'[t]
  BY DEF PidTypes, Dies

\* The daemon's threads touch the record and never the path or the lock.
LEMMA DaemonStepKeeps ==
  ASSUME PidIInv, NEW s \in Starts, DaemonStep(s)
  PROVE  PidIInv'
<1>1. UNCHANGED cliVars
  BY DEF DaemonStep, Boot, MarkTruncate, MarkRunning, MarkChildFailure, RunReturns,
         ShutdownReturns, Finalise, WatchFires, ExitTruncate, ExitWrite, Exit
<1>2. CASE UNCHANGED keep
  BY <1>1, <1>2, WeakerKeeps DEF cliVars, Weaker, PidIInv, PidTypes
<1>3. CASE Exit(s)
  <2>1. PICK how \in {"exit", "left"} : Dies(s, how)
    BY <1>3 DEF Exit
  <2> QED BY <1>1, <2>1, DiesKeeps, WeakerKeeps DEF cliVars, Weaker, PidIInv
<1> QED BY <1>2, <1>3
        DEF DaemonStep, Boot, MarkTruncate, MarkRunning, MarkChildFailure, RunReturns,
            ShutdownReturns, Finalise, WatchFires, ExitTruncate, ExitWrite

\* A stop touches the lock only by ending the child that holds it.
LEMMA StopStepKeeps ==
  ASSUME PidIInv, NEW k \in Stops, StopStep(k)
  PROVE  PidIInv'
<1>1. UNCHANGED <<named, opened, unlinked>>
  BY DEF StopStep, StopScan, StopScanned, StopRead, StopVerify, StopVerified, StopIdentify,
         StopSignal, StopWait, StopReleased
<1>2. DOMAIN cli' = DOMAIN cli /\ \A s \in Starts : cli'[s] = cli[s]
  <2>1. \E place : cli' = [cli EXCEPT ![k] = place]
    BY DEF StopStep, StopScan, StopScanned, StopRead, StopVerify, StopVerified, StopIdentify,
           StopSignal, StopWait, StopReleased, Goto, Return
  <2> QED BY <2>1, PidAssumption DEF PidIInv, PidTypes
<1>3. CASE UNCHANGED keep
  BY <1>1, <1>2, <1>3, WeakerKeeps DEF Weaker, PidIInv, PidTypes
<1>4. CASE StopSignal(k)
  <2>1. UNCHANGED keep \/ \E s : Dies(s, "killed")
    BY <1>4 DEF StopSignal, Signalled
  <2> QED BY <1>1, <1>2, <1>3, <2>1, DiesKeeps, WeakerKeeps DEF Weaker, PidIInv
<1> QED BY <1>3, <1>4
        DEF StopStep, StopScan, StopScanned, StopRead, StopVerify, StopVerified,
            StopIdentify, StopWait, StopReleased

\* Another start is not disturbed.
LEMMA Elsewhere ==
  ASSUME PidTypes, NEW s \in Starts, NEW place, cli' = [cli EXCEPT ![s] = place]
  PROVE  /\ DOMAIN cli' = DOMAIN cli /\ cli'[s] = place
         /\ \A t \in Starts \ {s} : cli'[t] = cli[t]
  BY DEF PidTypes

\* A start that opens, locks, spawns or gives up keeps the lock with one descriptor.
LEMMA StartStepKeeps ==
  ASSUME PidIInv, NEW s \in Starts, StartStep(s)
  PROVE  PidIInv'
<1>1. CASE StartScan(s) \/ StartScanned(s) \/ StartRescan(s) \/ StartRescanned(s)
  <2>1. UNCHANGED <<named, opened, keep, unlinked>>
    BY <1>1 DEF StartScan, StartScanned, StartRescan, StartRescanned
  <2>2. PICK place : cli' = [cli EXCEPT ![s] = place] /\ place \notin {"lock", "spawn"}
    BY <1>1 DEF StartScan, StartScanned, StartRescan, StartRescanned, Goto, Return
  <2>3. keep[s] = {}
    BY <1>1 DEF StartScan, StartScanned, StartRescan, StartRescanned, PidIInv, StartPlaces
  <2>4. /\ DOMAIN cli' = DOMAIN cli /\ cli'[s] \notin {"lock", "spawn"}
        /\ \A t \in Starts \ {s} : cli'[t] = cli[t]
    BY <2>2, Elsewhere DEF PidIInv
  <2> QED BY <2>1, <2>3, <2>4 DEF PidIInv, PidTypes, StartPlaces, Exclusive, OneFile
<1>2. CASE StartOpen(s)
  <2>1. /\ cli[s] = "open" /\ named' \in Files /\ UNCHANGED <<keep, unlinked>>
        /\ named' = IF named = Nobody THEN s ELSE named
        /\ opened' = [opened EXCEPT ![s] = named']
        /\ cli' = [cli EXCEPT ![s] = "lock"]
    BY <1>2 DEF StartOpen, Goto, Files, PidIInv, PidTypes
  <2>2. keep[s] = {}
    BY <2>1 DEF PidIInv, StartPlaces
  <2>3. DOMAIN cli' = DOMAIN cli /\ cli'[s] = "lock" /\ \A t \in Starts \ {s} : cli'[t] = cli[t]
    BY <2>1, Elsewhere DEF PidIInv
  <2>4. opened'[s] = named' /\ \A t \in Starts \ {s} : opened'[t] = opened[t]
    BY <2>1 DEF PidIInv, PidTypes
  <2>5. PidTypes'
    BY <2>1, <2>3 DEF PidIInv, PidTypes
  <2>6. StartPlaces'
    BY <2>1, <2>2, <2>3, <2>4, PidAssumption DEF PidIInv, StartPlaces, Files
  <2>7. Exclusive'
    BY <2>1, <2>2, <2>4 DEF PidIInv, Exclusive
  <2>8. OneFile'
    BY <2>1, <2>4 DEF PidIInv, OneFile
  <2> QED BY <2>5, <2>6, <2>7, <2>8 DEF PidIInv
<1>3. CASE StartLock(s)
  <2>1. CASE /\ ~Locked(opened[s]) /\ keep' = [keep EXCEPT ![s] = {"parent"}]
             /\ cli' = [cli EXCEPT ![s] = "spawn"] /\ UNCHANGED <<named, opened, unlinked>>
    <3>0. opened[s] # Nobody
      BY <1>3 DEF StartLock, PidIInv, StartPlaces
    <3>1. DOMAIN cli' = DOMAIN cli /\ cli'[s] = "spawn" /\ \A t \in Starts \ {s} : cli'[t] = cli[t]
      BY <2>1, Elsewhere DEF PidIInv
    <3>2. keep'[s] = {"parent"} /\ \A t \in Starts \ {s} : keep'[t] = keep[t]
      BY <2>1 DEF PidIInv, PidTypes
    <3>3. \A t \in Starts : opened[t] = opened[s] => keep[t] = {}
      BY <2>1 DEF Locked
    <3>4. PidTypes'
      BY <2>1, <3>1 DEF PidIInv, PidTypes
    <3>5. StartPlaces'
      BY <2>1, <3>1, <3>2, <3>0 DEF PidIInv, StartPlaces
    <3>6. Exclusive'
      BY <2>1, <3>2, <3>3 DEF PidIInv, Exclusive
    <3> QED BY <2>1, <3>4, <3>5, <3>6 DEF PidIInv, OneFile
  <2>2. CASE /\ opened' = [opened EXCEPT ![s] = Nobody]
             /\ cli' = [cli EXCEPT ![s] = "rescan"] /\ UNCHANGED <<named, keep, unlinked>>
    <3>1. keep[s] = {}
      BY <1>3 DEF StartLock, PidIInv, StartPlaces
    <3>2. DOMAIN cli' = DOMAIN cli /\ cli'[s] = "rescan" /\ \A t \in Starts \ {s} : cli'[t] = cli[t]
      BY <2>2, Elsewhere DEF PidIInv
    <3>3. opened'[s] = Nobody /\ \A t \in Starts \ {s} : opened'[t] = opened[t]
      BY <2>2 DEF PidIInv, PidTypes
    <3>4. PidTypes'
      BY <2>2, <3>2 DEF PidIInv, PidTypes
    <3> QED BY <2>2, <3>1, <3>2, <3>3, <3>4 DEF PidIInv, StartPlaces, Exclusive, OneFile
  <2> QED BY <1>3, <2>1, <2>2 DEF StartLock, Goto
<1>4. CASE StartSpawn(s)
  <2>1. "parent" \in keep[s] /\ opened' = opened
    BY <1>4 DEF StartSpawn, PidIInv, StartPlaces
  <2>2. CASE /\ named' = Nobody /\ unlinked' = TRUE /\ keep' = [keep EXCEPT ![s] = {}]
             /\ cli' = [cli EXCEPT ![s] = "done"]
    <3>1. DOMAIN cli' = DOMAIN cli /\ cli'[s] = "done" /\ \A t \in Starts \ {s} : cli'[t] = cli[t]
      BY <2>2, Elsewhere DEF PidIInv
    <3>2. keep'[s] = {} /\ \A t \in Starts \ {s} : keep'[t] = keep[t]
      BY <2>2 DEF PidIInv, PidTypes
    <3>3. PidTypes'
      BY <2>1, <2>2, <3>1 DEF PidIInv, PidTypes
    <3> QED BY <2>1, <2>2, <3>1, <3>2, <3>3 DEF PidIInv, StartPlaces, Exclusive, OneFile
  <2>3. CASE /\ keep' = [keep EXCEPT ![s] = {"parent", "child"}]
             /\ cli' = [cli EXCEPT ![s] = "truncate"] /\ UNCHANGED <<named, unlinked>>
    <3>1. DOMAIN cli' = DOMAIN cli /\ cli'[s] = "truncate" /\ \A t \in Starts \ {s} : cli'[t] = cli[t]
      BY <2>3, Elsewhere DEF PidIInv
    <3>2. keep[s] # {} /\ \A t \in Starts \ {s} : keep'[t] = keep[t]
      BY <2>1, <2>3 DEF PidIInv, PidTypes
    <3>3. PidTypes'
      BY <2>1, <2>3, <3>1 DEF PidIInv, PidTypes
    <3>4. StartPlaces' /\ OneFile'
      BY <2>1, <2>3, <3>1, <3>2 DEF PidIInv, StartPlaces, OneFile
    <3>5. Exclusive'
      BY <2>1, <3>2 DEF PidIInv, Exclusive
    <3> QED BY <3>3, <3>4, <3>5 DEF PidIInv
  <2> QED BY <1>4, <2>2, <2>3 DEF StartSpawn, Goto, Return
<1>5. CASE StartTruncate(s) \/ StartWrite(s)
  <2>1. UNCHANGED <<named, opened, keep, unlinked>>
    BY <1>5 DEF StartTruncate, StartWrite
  <2>2. PICK place \in {"write", "confirm"} : cli' = [cli EXCEPT ![s] = place]
    BY <1>5 DEF StartTruncate, StartWrite, Goto
  <2>3. /\ DOMAIN cli' = DOMAIN cli /\ cli'[s] = place
        /\ \A t \in Starts \ {s} : cli'[t] = cli[t]
    BY <2>2, Elsewhere DEF PidIInv
  <2> QED BY <2>1, <2>2, <2>3 DEF PidIInv, PidTypes, StartPlaces, Exclusive, OneFile
<1>6. CASE StartConfirm(s)
  <2>1. UNCHANGED <<named, opened, unlinked>> /\ keep' = [keep EXCEPT ![s] = @ \ {"parent"}]
        /\ cli' = [cli EXCEPT ![s] = "done"]
    BY <1>6 DEF StartConfirm, Return
  <2>2. DOMAIN cli' = DOMAIN cli /\ cli'[s] = "done" /\ \A t \in Starts \ {s} : cli'[t] = cli[t]
    BY <2>1, Elsewhere DEF PidIInv
  <2>3. keep'[s] \subseteq keep[s] /\ \A t \in Starts \ {s} : keep'[t] = keep[t]
    BY <2>1 DEF PidIInv, PidTypes
  <2>4. PidTypes'
    BY <2>1, <2>2 DEF PidIInv, PidTypes
  <2>5. StartPlaces' /\ OneFile'
    BY <2>1, <2>2, <2>3 DEF PidIInv, StartPlaces, OneFile
  <2>6. Exclusive'
    BY <2>1, <2>3 DEF PidIInv, Exclusive
  <2> QED BY <2>4, <2>5, <2>6 DEF PidIInv
<1> QED BY <1>1, <1>2, <1>3, <1>4, <1>5, <1>6 DEF StartStep

\* The claim of lifecycle.py: however many starts race, whatever is stopped, killed or
\* recycled meanwhile, one process at most runs as the daemon, unless a start that
\* could not spawn has removed the path.
THEOREM AtMostOneDaemon == PidSpec => []OneDaemon
<1>1. PidInit => PidIInv
  BY PidInitially
<1>2. PidIInv /\ [PidNext]_pidVars => PidIInv'
  <2> SUFFICES ASSUME PidIInv, [PidNext]_pidVars PROVE PidIInv'
    OBVIOUS
  <2>1. CASE UNCHANGED pidVars
    BY <2>1 DEF pidVars, PidIInv, PidTypes, StartPlaces, Exclusive, OneFile
  <2>2. CASE \E p \in Pids : Recycle(p)
    BY <2>2 DEF Recycle, PidIInv, PidTypes, StartPlaces, Exclusive, OneFile
  <2> QED BY <2>1, <2>2, StartStepKeeps, DaemonStepKeeps, StopStepKeeps DEF PidNext
<1>3. PidIInv => OneDaemon
  BY DEF PidIInv, StartPlaces, Exclusive, OneFile, OneDaemon, SingleInstance, Alive
<1> QED BY <1>1, <1>2, <1>3, PTL DEF PidSpec

(***************************************************************************)
(* The record is true.                                                     *)
(***************************************************************************)
\* Where a start has no descriptor of the pid file.
Waiting == {"idle", "scanned", "open", "rescan", "rescanned"}

\* The places of whichever thread writes the last record and ends the process.
Exits == {"exit", "exiting", "exitingBare", "exited"}

\* Where the daemon's main thread is once it has written that it runs.
Runs == {"run", "shutdown", "finish"}

\* Where a start is says whether it has the file open, and whether it has a child; a child
\* that lives holds the lock.
CliInv ==
  /\ DOMAIN outcome = Starts \cup Stops
  /\ \A s \in Starts :
       /\ cli[s] \in Waiting \cup {"lock", "spawn", "truncate", "write", "confirm", "done"}
       /\ cli[s] \in Waiting => opened[s] = Nobody
       /\ cli[s] \in Waiting \cup {"lock", "spawn"} => main[s] = "none"
       /\ cli[s] \in {"truncate", "write", "confirm"} => main[s] # "none" /\ "parent" \in keep[s]
       /\ main[s] # "none" => opened[s] # Nobody
       /\ main[s] \in {"none", "dead"} <=> "child" \notin keep[s]

\* A number belongs to one process, and a process has one as long as it lives or whoever
\* spawned it has not looked.
OwnerInv ==
  /\ owner \in [Pids -> Starts \cup {Nobody}]
  /\ \A p, q \in Pids : owner[p] = owner[q] /\ owner[p] # Nobody => p = q
  /\ \A s \in Starts :
       /\ main[s] = "none" => \A p \in Pids : owner[p] # s
       /\ main[s] # "none" /\ (main[s] # "dead" \/ cli[s] # "done") => \E p \in Pids : owner[p] = s

\* Where the main thread is limits where the watchdog is: one of the two exits, and only
\* after someone set the flag.
ThreadInv ==
  /\ DOMAIN main = Starts /\ DOMAIN watchdog = Starts /\ DOMAIN ended = Starts
  /\ DOMAIN exiting = Starts
  /\ \A s \in Starts :
       /\ ended[s] = "exit" => main[s] = "dead"
       /\ \/ main[s] \in {"none", "boot", "fail", "failing", "failed", "dead"}
               /\ watchdog[s] = "off"
          \/ main[s] \in {"mark", "marking"} \cup Runs /\ watchdog[s] = "watch" /\ ~exiting[s]
          \/ main[s] \in Runs \cup {"leave"} /\ watchdog[s] \in Exits /\ exiting[s]
          \/ main[s] \in Exits /\ watchdog[s] = "watch" /\ exiting[s]
       /\ main[s] \in {"none", "boot"} => ~exiting[s]

\* A record that can be read has a number, and one of a process of this life was written
\* after that process had begun.
RecordInv ==
  /\ record \in [Files -> [state : States, pid : Pids \cup {Nobody}, born : Files \cup {Nobody}]]
  /\ \A f \in Files :
       /\ Readable(record[f]) => record[f].pid \in Pids
       /\ record[f].born \in Starts => main[record[f].born] # "none"

\* What the file a start has open says.
Says(s) == record[opened[s]]

\* As long as no start confirmed a daemon that had already written: the file is empty
\* between a truncation and its write, says of a running daemon that it runs, with its
\* number and itself, and of one that exited that it exited, until a later start claims it.
TruthInv ==
  ~SlowStart => \A s \in Starts :
    /\ main[s] \notin {"none", "boot", "dead"} \/ ended[s] = "exit"
         => cli[s] \in {"confirm", "done"}
    /\ main[s] \in {"marking", "failing"} \/ Exiter(s) \in {"exiting", "exitingBare"}
         => Says(s) = Blank
    /\ main[s] = "failed" \/ Exiter(s) = "exited" => Says(s).state = "exited"
    /\ main[s] \in Runs /\ watchdog[s] = "watch" =>
         Says(s).state = "running" /\ Says(s).born = s /\ Says(s).pid \in Pids
           /\ owner[Says(s).pid] = s
    /\ /\ ended[s] = "exit"
       /\ \A t \in Starts \ {s} : opened[t] = opened[s] => cli[t] \in {"lock", "rescan"}
       => Says(s).state = "exited"

\* The process a stop read of had begun, and no longer runs once the stop found the lock
\* free.
Gone(k) ==
  target[k].born \in Starts =>
    /\ main[target[k].born] # "none"
    /\ ~unlinked /\ (cli[k] = "released" \/ outcome[k] = "confirmed")
         => main[target[k].born] = "dead"

\* A stop that has read a record has a number from it; one that is done with the lock free
\* has seen its process end.
StopInv ==
  /\ target \in [Stops -> [pid : Pids \cup {Nobody}, born : Files \cup {Nobody}]]
  /\ \A k \in Stops :
       /\ outcome[k] # "none" => cli[k] = "done"
       /\ cli[k] \in {"idle", "scanned", "read"} => target[k] = [pid |-> Nobody, born |-> Nobody]
       /\ cli[k] \in {"idle", "scanned", "read", "done"} \/ target[k].pid \in Pids
       /\ Gone(k)

\* The inductive invariant: that the file is true is kept by who holds its lock, where each
\* process's threads are, and what they have written so far.
FileInv == PidIInv /\ CliInv /\ OwnerInv /\ ThreadInv /\ RecordInv /\ TruthInv /\ StopInv

\* A function changes at one place.
Only(new, old, i, v) == DOMAIN new = DOMAIN old /\ new[i] = v
                        /\ \A j \in DOMAIN old : j # i => new[j] = old[j]

\* The thread that exits, of the two, goes on to a place.
ThreadEnds(s, place) ==
  \/ main[s] \in Exits /\ Only(main', main, s, place) /\ UNCHANGED watchdog
  \/ main[s] \notin Exits /\ Only(watchdog', watchdog, s, place) /\ UNCHANGED main

\* A process dies: both its threads are gone, and its hold on the lock with them.
Falls(s) == Only(main', main, s, "dead") /\ Only(watchdog', watchdog, s, "off")
            /\ Only(keep', keep, s, keep[s] \ {"child"})

\* What a file can hold.
Entries == [state : States, pid : Pids \cup {Nobody}, born : Files \cup {Nobody}]

\* What the records the code writes look like, whole and torn.
LEMMA EntryFacts ==
  /\ Blank \in Entries /\ Torn \in Entries /\ ~Readable(Blank) /\ ~Readable(Torn)
  /\ Blank.born = Nobody /\ Torn.born = Nobody /\ Nobody \notin Files /\ Blank.state = "empty"
  /\ Nobody \notin Starts
  /\ \A state \in States, p \in Pids, x \in Files \cup {Nobody} :
       LET r == Entry(state, p, x) IN r \in Entries /\ r.state = state /\ r.pid = p /\ r.born = x
  /\ \A r : Overwritten(Blank, r) = r
  /\ \A old, r : Overwritten(old, r) \in {r, Torn}
BY PidAssumption DEF Blank, Torn, Entries, States, Readable, Files, Entry, Overwritten

\* A process that has a number is the owner of the one it takes itself to have.
LEMMA NumberIs ==
  ASSUME NEW s \in Starts, \E p \in Pids : owner[p] = s
  PROVE  NumberOf(s) \in Pids /\ owner[NumberOf(s)] = s
BY DEF NumberOf

\* Only the file a start has open is written.
Others(s) == \A f \in Files : f # opened[s] => record'[f] = record[f]

\* The file is empty now.
Truncated(s) == Others(s) /\ record'[opened[s]] = Blank

\* The file, empty until now, has the record that was written.
Written(s, state, x) ==
  /\ Others(s)
  /\ record[opened[s]] = Blank =>
       LET r == record'[opened[s]] IN r.state = state /\ r.born = x /\ r.pid \in Pids
         /\ owner[r.pid] = s

\* No process begins, and none comes back.
Stays == \A t \in Starts : (main[t] = "none" <=> main'[t] = "none")
         /\ (main[t] = "dead" => main'[t] = "dead")

\* Writing a sound record into one file keeps the records sound.
LEMMA RecordSet ==
  ASSUME RecordInv, Stays, NEW f \in Files, NEW r \in Entries, record' = [record EXCEPT ![f] = r],
         Readable(r) => r.pid \in Pids, r.born \in Starts => main'[r.born] # "none"
  PROVE  RecordInv' /\ record'[f] = r /\ \A g \in Files : g # f => record'[g] = record[g]
<1>1. record \in [Files -> Entries]
  BY DEF RecordInv, Entries
<1>2. record' \in [Files -> Entries] /\ record'[f] = r
      /\ \A g \in Files : g # f => record'[g] = record[g]
  BY <1>1
<1> QED BY <1>1 DEF RecordInv, Entries, Stays

\* A truncation keeps the records sound and leaves an empty file.
LEMMA Truncates ==
  ASSUME RecordInv, Stays, NEW s \in Starts, opened[s] \in Files,
           record' = [record EXCEPT ![opened[s]] = Blank]
  PROVE  RecordInv' /\ Truncated(s)
<1>1. RecordInv' /\ record'[opened[s]] = Blank
      /\ \A g \in Files : g # opened[s] => record'[g] = record[g]
  <2>1. Blank \in Entries /\ ~Readable(Blank) /\ Blank.born \notin Starts
    BY EntryFacts
  <2> QED BY <2>1, RecordSet
<1> QED BY <1>1 DEF Truncated, Others

\* A write keeps the records sound; into an empty file, it puts the record it means.
LEMMA Writes ==
  ASSUME RecordInv, Stays, NEW s \in Starts, opened[s] \in Files, main[s] # "none",
           \E p \in Pids : owner[p] = s,
         NEW state \in States, NEW x \in {s, Nobody},
         record' = [record EXCEPT ![opened[s]] = Overwritten(@, Entry(state, NumberOf(s), x))]
  PROVE  RecordInv' /\ Written(s, state, x)
<1>1. NumberOf(s) \in Pids /\ owner[NumberOf(s)] = s
  BY NumberIs
<1> DEFINE e == Entry(state, NumberOf(s), x)
           r == Overwritten(record[opened[s]], e)
<1>2. e \in Entries /\ e.state = state /\ e.pid = NumberOf(s) /\ e.born = x
  BY <1>1, EntryFacts DEF Files
<1>3. r \in {e, Torn} /\ (record[opened[s]] = Blank => r = e)
      /\ record' = [record EXCEPT ![opened[s]] = r]
  BY EntryFacts DEF RecordInv
<1> HIDE DEF e, r
<1>4. r \in Entries /\ (Readable(r) => r.pid \in Pids)
      /\ (r.born \in Starts => main'[r.born] # "none")
  <2>1. CASE r = e
    <3>1. r.born \in Starts => r.born = s
      BY <1>2, <2>1, EntryFacts
    <3>2. main'[s] # "none"
      BY DEF Stays
    <3> QED BY <1>1, <1>2, <2>1, <3>1, <3>2
  <2>2. CASE r = Torn
    BY <2>2, EntryFacts
  <2> QED BY <1>3, <2>1, <2>2
<1>5. RecordInv' /\ record'[opened[s]] = r /\ \A g \in Files : g # opened[s]
        => record'[g] = record[g]
  <2> DEFINE f == opened[s]
  <2>1. f \in Files /\ record' = [record EXCEPT ![f] = r]
    BY <1>3
  <2> HIDE DEF f
  <2>2. RecordInv' /\ record'[f] = r /\ \A g \in Files : g # f => record'[g] = record[g]
    BY Stays, <2>1, <1>4, RecordSet
  <2> QED BY <2>2 DEF f
<1>6. record[opened[s]] = Blank =>
        LET w == record'[opened[s]] IN w.state = state /\ w.born = x /\ w.pid = NumberOf(s)
  BY <1>2, <1>3, <1>5
<1> QED BY <1>1, <1>5, <1>6 DEF Written, Others

\* The domains of the functions of the state.
LEMMA Shapes ==
  ASSUME FileInv
  PROVE  /\ DOMAIN opened = Starts /\ DOMAIN keep = Starts /\ DOMAIN cli = Starts \cup Stops
         /\ DOMAIN outcome = Starts \cup Stops /\ DOMAIN main = Starts /\ DOMAIN watchdog = Starts
         /\ DOMAIN ended = Starts /\ DOMAIN exiting = Starts /\ DOMAIN owner = Pids
         /\ DOMAIN record = Files
         /\ DOMAIN target = Stops /\ Starts \subseteq Files
BY DEF FileInv, PidIInv, PidTypes, CliInv, ThreadInv, OwnerInv, RecordInv, StopInv, Files

\* Goto and Return move one caller.
LEMMA CliSets ==
  ASSUME FileInv, NEW c \in Starts \cup Stops
  PROVE  /\ \A place : Goto(c, place) => Only(cli', cli, c, place)
         /\ \A how : Return(c, how) => Only(cli', cli, c, "done") /\ Only(outcome', outcome, c, how)
BY Shapes DEF Goto, Return, Only

\* start() looks for a holder with a probe and lets it go, and says nothing.
LEMMA StartLooksKeeps ==
  ASSUME FileInv, PidIInv', NEW s \in Starts, StartScan(s) \/ StartScanned(s) \/ StartRescan(s)
         \/ StartRescanned(s)
  PROVE  FileInv'
<1>1. UNCHANGED <<named, record, opened, keep, main, watchdog, asked, exiting, owner, target,
                  escalated, ended, unlinked>>
  BY DEF Goto, Return, StartScan, StartScanned, StartRescan, StartRescanned, daemonVars, stopVars
<1>2. /\ cli[s] \in Waiting \ {"open"} /\ DOMAIN outcome' = DOMAIN outcome
      /\ \E place \in {"open", "scanned", "rescanned", "done"} : Only(cli', cli, s, place)
      /\ \A k \in Stops : outcome'[k] = outcome[k]
  BY Shapes, PidAssumption DEF Goto, Return, StartScan, StartScanned, StartRescan, StartRescanned,
     Only, FileInv, CliInv
<1>3. (ThreadInv /\ RecordInv)'
  BY <1>1 DEF FileInv, ThreadInv, RecordInv
<1>4. CliInv'
  BY <1>1, <1>2, Shapes, EntryFacts, PidAssumption DEF FileInv, CliInv, PidIInv, PidTypes, StartPlaces,
     ThreadInv, Exiter, Waiting, Only
<1>5. OwnerInv'
  BY <1>1, <1>2, Shapes, EntryFacts, PidAssumption DEF FileInv, OwnerInv, CliInv, Only
<1>6. TruthInv'
  BY <1>1, <1>2, Shapes, EntryFacts, PidAssumption DEF FileInv, TruthInv, Says, Exiter, CliInv,
     ThreadInv, PidIInv, Exclusive, StartPlaces, OwnerInv, PidTypes, Only
<1>7. StopInv'
  BY <1>1, <1>2, Shapes, EntryFacts, PidAssumption DEF FileInv, StopInv, Gone, CliInv, ThreadInv,
     PidIInv, StartPlaces, PidTypes, Only
<1> QED BY <1>3, <1>4, <1>5, <1>6, <1>7 DEF FileInv

\* Opening the file changes nothing it says.
LEMMA StartOpenKeeps ==
  ASSUME FileInv, PidIInv', NEW s \in Starts, StartOpen(s)
  PROVE  FileInv'
<1>1. UNCHANGED <<record, keep, probing, main, watchdog, asked, exiting, owner, target, escalated,
                  outcome, ended, unlinked>>
  BY DEF StartOpen, Goto, Return, daemonVars, stopVars
<1>2. cli[s] = "open" /\ Only(cli', cli, s, "lock") /\ Only(opened', opened, s, named')
      /\ named' # Nobody
  BY Shapes, PidAssumption DEF StartOpen, Goto, Only, FileInv, CliInv
<1>3. (ThreadInv /\ RecordInv)'
  BY <1>1 DEF FileInv, ThreadInv, RecordInv
<1>4. CliInv'
  BY <1>1, <1>2, Shapes, EntryFacts, PidAssumption DEF FileInv, CliInv, PidIInv, PidTypes, StartPlaces,
     ThreadInv, Exiter, Waiting, Only
<1>5. OwnerInv'
  BY <1>1, <1>2, Shapes, EntryFacts, PidAssumption DEF FileInv, OwnerInv, CliInv, Only
<1>6. TruthInv'
  BY <1>1, <1>2, Shapes, EntryFacts, PidAssumption DEF FileInv, TruthInv, Says, Exiter, CliInv,
     ThreadInv, PidIInv, Exclusive, StartPlaces, OwnerInv, PidTypes, Only
<1>7. StopInv'
  BY <1>1, <1>2, Shapes, EntryFacts, PidAssumption DEF FileInv, StopInv, Gone, CliInv, ThreadInv,
     PidIInv, StartPlaces, PidTypes, Only
<1> QED BY <1>3, <1>4, <1>5, <1>6, <1>7 DEF FileInv

\* A start has the lock, or closes the file again.
LEMMA StartLockKeeps ==
  ASSUME FileInv, PidIInv', NEW s \in Starts, StartLock(s)
  PROVE  FileInv'
<1>1. UNCHANGED <<named, record, probing, main, watchdog, asked, exiting, owner, target, escalated,
                  outcome, ended, unlinked>>
  BY DEF StartLock, Goto, Return, daemonVars, stopVars
<1>2. /\ cli[s] = "lock"
      /\ \/ Only(cli', cli, s, "spawn") /\ Only(keep', keep, s, {"parent"}) /\ UNCHANGED opened
         \/ Only(cli', cli, s, "rescan") /\ Only(opened', opened, s, Nobody) /\ UNCHANGED keep
  BY Shapes, PidAssumption DEF StartLock, Goto, Only, FileInv, CliInv
<1>3. (ThreadInv /\ RecordInv)'
  BY <1>1 DEF FileInv, ThreadInv, RecordInv
<1>4. CliInv'
  BY <1>1, <1>2, Shapes, EntryFacts, PidAssumption DEF FileInv, CliInv, PidIInv, PidTypes, StartPlaces,
     ThreadInv, Exiter, Waiting, Only
<1>5. OwnerInv'
  BY <1>1, <1>2, Shapes, EntryFacts, PidAssumption DEF FileInv, OwnerInv, CliInv, Only
<1>6. TruthInv'
  BY <1>1, <1>2, Shapes, EntryFacts, PidAssumption DEF FileInv, TruthInv, Says, Exiter, CliInv,
     ThreadInv, PidIInv, Exclusive, StartPlaces, OwnerInv, PidTypes, Only
<1>7. StopInv'
  BY <1>1, <1>2, Shapes, EntryFacts, PidAssumption DEF FileInv, StopInv, Gone, CliInv, ThreadInv,
     PidIInv, StartPlaces, PidTypes, Only
<1> QED BY <1>3, <1>4, <1>5, <1>6, <1>7 DEF FileInv

\* A start has a child with a number of its own, or removes the path and gives up.
LEMMA StartSpawnKeeps ==
  ASSUME FileInv, PidIInv', NEW s \in Starts, StartSpawn(s)
  PROVE  FileInv'
<1>1. UNCHANGED <<record, opened, probing, watchdog, asked, exiting, target, escalated, ended>>
  BY DEF StartSpawn, Goto, Return, stopVars
<1>2. /\ cli[s] = "spawn" /\ DOMAIN outcome' = DOMAIN outcome
           /\ (\A k \in Stops : outcome'[k] = outcome[k])
      /\ \/ /\ unlinked' = TRUE /\ Only(keep', keep, s, {}) /\ Only(cli', cli, s, "done")
            /\ UNCHANGED <<main, owner>>
         \/ /\ \E p \in Pids : owner[p] = Nobody /\ Only(owner', owner, p, s)
            /\ Only(keep', keep, s, {"parent", "child"}) /\ Only(main', main, s, "boot")
            /\ Only(cli', cli, s, "truncate") /\ UNCHANGED unlinked
  BY Shapes, PidAssumption DEF StartSpawn, Goto, Return, Only, FileInv, CliInv
<1>3. CliInv'
  BY <1>1, <1>2, Shapes, EntryFacts, PidAssumption DEF FileInv, CliInv, PidIInv, PidTypes, StartPlaces,
     ThreadInv, Exiter, Waiting, Only
<1>4. OwnerInv'
  <2>1. CASE UNCHANGED <<main, owner>> /\ Only(cli', cli, s, "done")
    BY <1>2, <2>1, Shapes DEF FileInv, OwnerInv, Only
  <2>2. CASE /\ \E p \in Pids : owner[p] = Nobody /\ owner' = [owner EXCEPT ![p] = s]
             /\ Only(main', main, s, "boot") /\ Only(cli', cli, s, "truncate")
    <3>1. PICK p \in Pids : owner[p] = Nobody /\ owner' = [owner EXCEPT ![p] = s]
      BY <2>2
    <3>2. owner \in [Pids -> Starts \cup {Nobody}] /\ main[s] = "none"
      BY <1>2 DEF FileInv, OwnerInv, CliInv
    <3>3. owner' \in [Pids -> Starts \cup {Nobody}] /\ owner'[p] = s
          /\ \A q \in Pids : q # p => owner'[q] = owner[q]
      BY <3>1, <3>2
    <3>4. \A q \in Pids : owner[q] # s
      BY <3>2 DEF FileInv, OwnerInv
    <3>5. \A t \in Starts : t # s => main'[t] = main[t] /\ cli'[t] = cli[t]
      BY <2>2, Shapes DEF Only
    <3>6. main'[s] = "boot"
      BY <2>2 DEF Only
    <3>7. \A q, r \in Pids : owner'[q] = owner'[r] /\ owner'[q] # Nobody => q = r
      BY <3>3, <3>4 DEF FileInv, OwnerInv
    <3>8. ASSUME NEW t \in Starts
          PROVE  /\ main'[t] = "none" => \A q \in Pids : owner'[q] # t
                 /\ main'[t] # "none" /\ (main'[t] # "dead" \/ cli'[t] # "done")
                      => \E q \in Pids : owner'[q] = t
      <4>1. CASE t = s
        BY <3>3, <3>6, <4>1
      <4>2. CASE t # s
        <5>1. \A q \in Pids : owner[q] = t => owner'[q] = t
          BY <3>1, <3>3, <4>2, EntryFacts
        <5>2. \A q \in Pids : owner'[q] = t => owner[q] = t
          BY <3>3, <4>2
        <5> QED BY <3>5, <4>2, <5>1, <5>2 DEF FileInv, OwnerInv
      <4> QED BY <4>1, <4>2
    <3> QED BY <3>3, <3>7, <3>8 DEF OwnerInv
  <2>3. \/ UNCHANGED <<main, owner>> /\ Only(cli', cli, s, "done")
        \/ /\ \E p \in Pids : owner[p] = Nobody /\ owner' = [owner EXCEPT ![p] = s]
           /\ Only(main', main, s, "boot") /\ Only(cli', cli, s, "truncate")
    BY Shapes DEF StartSpawn, Goto, Return, Only
  <2> QED BY <2>1, <2>2, <2>3
<1>5. ThreadInv'
  BY <1>1, <1>2, Shapes, EntryFacts, PidAssumption DEF FileInv, ThreadInv, CliInv, Runs, Only
<1>6. RecordInv'
  BY <1>1, <1>2, Shapes, EntryFacts, PidAssumption DEF FileInv, RecordInv, ThreadInv, CliInv,
     OwnerInv, Only
<1>7. TruthInv'
  BY <1>1, <1>2, Shapes, EntryFacts, PidAssumption DEF FileInv, TruthInv, Says, Exiter, CliInv,
     ThreadInv, PidIInv, Exclusive, StartPlaces, OwnerInv, PidTypes, Only
<1>8. StopInv'
  BY <1>1, <1>2, Shapes, EntryFacts, PidAssumption DEF FileInv, StopInv, Gone, CliInv, ThreadInv,
     PidIInv, StartPlaces, PidTypes, Only
<1> QED BY <1>3, <1>4, <1>5, <1>6, <1>7, <1>8 DEF FileInv

\* The parent empties the file before it writes its record: no child runs yet.
LEMMA StartTruncateKeeps ==
  ASSUME FileInv, PidIInv', NEW s \in Starts, StartTruncate(s)
  PROVE  FileInv'
<1>1. UNCHANGED <<named, opened, keep, probing, main, watchdog, asked, exiting, owner, target,
                  escalated, outcome, ended, unlinked>>
  BY DEF StartTruncate, Goto, Return, daemonVars, stopVars
<1>2. opened[s] \in Files /\ main[s] # "none" /\ \E p \in Pids : owner[p] = s
  BY Shapes, EntryFacts DEF StartTruncate, FileInv, CliInv, OwnerInv, PidIInv, PidTypes
<1>3. cli[s] = "truncate" /\ Only(cli', cli, s, "write")
  BY Shapes, PidAssumption, <1>2 DEF StartTruncate, Goto, Only, FileInv, CliInv
<1>4. RecordInv /\ Stays
  BY <1>1, <1>3, Shapes DEF FileInv, Stays
<1>5. RecordInv' /\ (Truncated(s))
  BY <1>2, <1>4, Truncates DEF StartTruncate
<1>6. (ThreadInv)'
  BY <1>1 DEF FileInv, ThreadInv
<1>7. CliInv'
  BY <1>1, <1>2, <1>3, <1>4, <1>5, Shapes, EntryFacts, PidAssumption DEF FileInv, CliInv, PidIInv,
     PidTypes, StartPlaces, ThreadInv, Exiter, Waiting, Only
<1>8. OwnerInv'
  BY <1>1, <1>2, <1>3, <1>4, <1>5, Shapes, EntryFacts, PidAssumption DEF FileInv, OwnerInv, CliInv,
     Only
<1>9. TruthInv'
  BY <1>1, <1>2, <1>3, <1>4, <1>5, Shapes, EntryFacts, PidAssumption DEF FileInv, TruthInv, Says,
     Exiter, CliInv, ThreadInv, PidIInv, Exclusive, StartPlaces, OwnerInv, PidTypes, Waiting, Exits, Runs,
     Only, Truncated, Others
<1>10. StopInv'
  BY <1>1, <1>2, <1>3, <1>4, <1>5, Shapes, EntryFacts, PidAssumption DEF FileInv, StopInv, Gone,
     CliInv, ThreadInv, PidIInv, StartPlaces, PidTypes, Only
<1> QED BY <1>5, <1>6, <1>7, <1>8, <1>9, <1>10 DEF FileInv

\* The parent writes the child's number.
LEMMA StartWriteKeeps ==
  ASSUME FileInv, PidIInv', NEW s \in Starts, StartWrite(s)
  PROVE  FileInv'
<1>1. UNCHANGED <<named, opened, keep, probing, main, watchdog, asked, exiting, owner, target,
                  escalated, outcome, ended, unlinked>>
  BY DEF StartWrite, Goto, Return, daemonVars, stopVars
<1>2. opened[s] \in Files /\ main[s] # "none" /\ \E p \in Pids : owner[p] = s
  BY Shapes, EntryFacts DEF StartWrite, FileInv, CliInv, OwnerInv, PidIInv, PidTypes
<1>3. cli[s] = "write" /\ Only(cli', cli, s, "confirm")
  BY Shapes, PidAssumption, <1>2 DEF StartWrite, Goto, Only, FileInv, CliInv
<1>4. RecordInv /\ Stays
  BY <1>1, <1>3, Shapes DEF FileInv, Stays
<1>5. RecordInv' /\ (Written(s, "spawned", s))
  BY <1>2, <1>4, Writes DEF StartWrite, States
<1>6. (ThreadInv)'
  BY <1>1 DEF FileInv, ThreadInv
<1>7. CliInv'
  BY <1>1, <1>2, <1>3, <1>4, <1>5, Shapes, EntryFacts, PidAssumption DEF FileInv, CliInv, PidIInv,
     PidTypes, StartPlaces, ThreadInv, Exiter, Waiting, Only
<1>8. OwnerInv'
  BY <1>1, <1>2, <1>3, <1>4, <1>5, Shapes, EntryFacts, PidAssumption DEF FileInv, OwnerInv, CliInv,
     Only
<1>9. TruthInv'
  BY <1>1, <1>2, <1>3, <1>4, <1>5, Shapes, EntryFacts, PidAssumption DEF FileInv, TruthInv, Says,
     Exiter, CliInv, ThreadInv, PidIInv, Exclusive, StartPlaces, OwnerInv, PidTypes, Waiting, Exits, Runs,
     Only, Written, Others
<1>10. StopInv'
  BY <1>1, <1>2, <1>3, <1>4, <1>5, Shapes, EntryFacts, PidAssumption DEF FileInv, StopInv, Gone,
     CliInv, ThreadInv, PidIInv, StartPlaces, PidTypes, Only
<1> QED BY <1>5, <1>6, <1>7, <1>8, <1>9, <1>10 DEF FileInv

\* The parent goes: what the child writes from now on stands.
LEMMA StartConfirmKeeps ==
  ASSUME FileInv, PidIInv', NEW s \in Starts, StartConfirm(s)
  PROVE  FileInv'
<1>1. UNCHANGED <<named, record, opened, probing, main, watchdog, asked, exiting, owner, target,
                  escalated, ended, unlinked>>
  BY DEF StartConfirm, Return, Goto, daemonVars, stopVars
<1>2. /\ cli[s] = "confirm" /\ Only(cli', cli, s, "done")
      /\ Only(keep', keep, s, keep[s] \ {"parent"})
      /\ DOMAIN outcome' = DOMAIN outcome /\ \A k \in Stops : outcome'[k] = outcome[k]
  BY Shapes, PidAssumption DEF StartConfirm, Return, Only, FileInv, CliInv
<1>3. (ThreadInv /\ RecordInv)'
  BY <1>1 DEF FileInv, ThreadInv, RecordInv
<1>4. CliInv'
  BY <1>1, <1>2, Shapes, EntryFacts, PidAssumption DEF FileInv, CliInv, PidIInv, PidTypes, StartPlaces,
     ThreadInv, Exiter, Waiting, Only
<1>5. OwnerInv'
  BY <1>1, <1>2, Shapes, EntryFacts, PidAssumption DEF FileInv, OwnerInv, CliInv, Only
<1>6. TruthInv'
  BY <1>1, <1>2, Shapes, EntryFacts, PidAssumption DEF FileInv, TruthInv, Says, Exiter, CliInv,
     ThreadInv, PidIInv, Exclusive, StartPlaces, OwnerInv, PidTypes, Exits, Only
<1>7. StopInv'
  BY <1>1, <1>2, Shapes, EntryFacts, PidAssumption DEF FileInv, StopInv, Gone, CliInv, ThreadInv,
     PidIInv, StartPlaces, PidTypes, Exits, Only
<1> QED BY <1>3, <1>4, <1>5, <1>6, <1>7 DEF FileInv

\* The child begins to work, with its watchdog, or fails.
LEMMA BootKeeps ==
  ASSUME FileInv, PidIInv', NEW s \in Starts, Boot(s)
  PROVE  FileInv'
<1>1. UNCHANGED <<named, record, opened, keep, probing, cli, asked, exiting, owner, target,
                  escalated, outcome, ended, unlinked>>
  BY DEF Boot, Goto, Return, stopVars, cliVars
<1>2. /\ main[s] = "boot" /\ (SlowStart \/ cli[s] \notin {"truncate", "write"})
      /\ \/ Only(main', main, s, "mark") /\ Only(watchdog', watchdog, s, "watch")
         \/ Only(main', main, s, "fail") /\ UNCHANGED watchdog
  BY Shapes, PidAssumption DEF Boot, Only, FileInv, CliInv
<1>3. Stays
  BY <1>1, <1>2, Shapes DEF FileInv, ThreadInv, Stays, Only
<1>4. CliInv'
  BY <1>1, <1>2, <1>3, Shapes, EntryFacts, PidAssumption DEF FileInv, CliInv, PidIInv, PidTypes,
     StartPlaces, ThreadInv, Exiter, Only
<1>5. OwnerInv'
  BY <1>1, <1>2, <1>3, Shapes, EntryFacts, PidAssumption DEF FileInv, OwnerInv, CliInv, Only
<1>6. ThreadInv'
  BY <1>1, <1>2, <1>3, Shapes, EntryFacts, PidAssumption DEF FileInv, ThreadInv, CliInv, Runs, Only
<1>7. RecordInv'
  BY <1>1, <1>2, <1>3, Shapes, EntryFacts, PidAssumption DEF FileInv, RecordInv, ThreadInv, CliInv,
     OwnerInv, Only
<1>8. TruthInv'
  BY <1>1, <1>2, <1>3, Shapes, EntryFacts, PidAssumption DEF FileInv, TruthInv, Says, Exiter,
     CliInv, ThreadInv, PidIInv, Exclusive, StartPlaces, OwnerInv, PidTypes, Exits, Runs, Only
<1>9. StopInv'
  BY <1>1, <1>2, <1>3, Shapes, EntryFacts, PidAssumption DEF FileInv, StopInv, Gone, CliInv,
     ThreadInv, PidIInv, StartPlaces, PidTypes, Only
<1> QED BY <1>4, <1>5, <1>6, <1>7, <1>8, <1>9 DEF FileInv

\* The child empties the file to say that it runs.
LEMMA MarkTruncateKeeps ==
  ASSUME FileInv, PidIInv', NEW s \in Starts, MarkTruncate(s)
  PROVE  FileInv'
<1>1. UNCHANGED <<named, opened, keep, probing, cli, watchdog, asked, exiting, owner, target,
                  escalated, outcome, ended, unlinked>>
  BY DEF MarkTruncate, Goto, Return, stopVars, cliVars
<1>2. opened[s] \in Files /\ main[s] # "none" /\ \E p \in Pids : owner[p] = s
  BY Shapes, EntryFacts DEF MarkTruncate, FileInv, CliInv, OwnerInv, PidIInv, PidTypes
<1>3. \/ main[s] = "mark" /\ Only(main', main, s, "marking")
      \/ main[s] = "fail" /\ Only(main', main, s, "failing")
  BY Shapes, PidAssumption, <1>2 DEF MarkTruncate, Only, FileInv, CliInv
<1>4. RecordInv /\ Stays
  BY <1>1, <1>3, Shapes DEF FileInv, Stays, Only
<1>5. RecordInv' /\ (Truncated(s))
  BY <1>2, <1>4, Truncates DEF MarkTruncate
<1>6. CliInv'
  BY <1>1, <1>2, <1>3, <1>4, <1>5, Shapes, EntryFacts, PidAssumption DEF FileInv, CliInv, PidIInv,
     PidTypes, StartPlaces, ThreadInv, Exiter, Only
<1>7. OwnerInv'
  BY <1>1, <1>2, <1>3, <1>4, <1>5, Shapes, EntryFacts, PidAssumption DEF FileInv, OwnerInv, CliInv,
     Only
<1>8. ThreadInv'
  BY <1>1, <1>2, <1>3, <1>4, <1>5, Shapes, EntryFacts, PidAssumption DEF FileInv, ThreadInv,
     CliInv, Exits, Runs, Only
<1>9. TruthInv'
  BY <1>1, <1>2, <1>3, <1>4, <1>5, Shapes, EntryFacts, PidAssumption DEF FileInv, TruthInv, Says,
     Exiter, CliInv, ThreadInv, PidIInv, Exclusive, StartPlaces, OwnerInv, PidTypes, Waiting, Exits, Runs,
     Only, Truncated, Others
<1>10. StopInv'
  BY <1>1, <1>2, <1>3, <1>4, <1>5, Shapes, EntryFacts, PidAssumption DEF FileInv, StopInv, Gone,
     CliInv, ThreadInv, PidIInv, StartPlaces, PidTypes, Only
<1> QED BY <1>5, <1>6, <1>7, <1>8, <1>9, <1>10 DEF FileInv

\* The child says that it runs.
LEMMA MarkRunningKeeps ==
  ASSUME FileInv, PidIInv', NEW s \in Starts, MarkRunning(s)
  PROVE  FileInv'
<1>1. UNCHANGED <<named, opened, keep, probing, cli, watchdog, asked, exiting, owner, target,
                  escalated, outcome, ended, unlinked>>
  BY DEF MarkRunning, Goto, Return, stopVars, cliVars
<1>2. opened[s] \in Files /\ main[s] # "none" /\ \E p \in Pids : owner[p] = s
  BY Shapes, EntryFacts DEF MarkRunning, FileInv, CliInv, OwnerInv, PidIInv, PidTypes
<1>3. /\ main[s] = "marking" /\ Only(main', main, s, "run")
  BY Shapes, PidAssumption, <1>2 DEF MarkRunning, Only, FileInv, CliInv
<1>4. RecordInv /\ Stays
  BY <1>1, <1>3, Shapes DEF FileInv, Stays, Only
<1>5. RecordInv' /\ (Written(s, "running", s))
  BY <1>2, <1>4, Writes DEF MarkRunning, States
<1>6. CliInv'
  BY <1>1, <1>2, <1>3, <1>4, <1>5, Shapes, EntryFacts, PidAssumption DEF FileInv, CliInv, PidIInv,
     PidTypes, StartPlaces, ThreadInv, Exiter, Only
<1>7. OwnerInv'
  BY <1>1, <1>2, <1>3, <1>4, <1>5, Shapes, EntryFacts, PidAssumption DEF FileInv, OwnerInv, CliInv,
     Only
<1>8. ThreadInv'
  BY <1>1, <1>2, <1>3, <1>4, <1>5, Shapes, EntryFacts, PidAssumption DEF FileInv, ThreadInv,
     CliInv, Exits, Runs, Only
<1>9. TruthInv'
  BY <1>1, <1>2, <1>3, <1>4, <1>5, Shapes, EntryFacts, PidAssumption DEF FileInv, TruthInv, Says,
     Exiter, CliInv, ThreadInv, PidIInv, Exclusive, StartPlaces, OwnerInv, PidTypes, Waiting, Exits, Runs,
     Only, Written, Others
<1>10. StopInv'
  BY <1>1, <1>2, <1>3, <1>4, <1>5, Shapes, EntryFacts, PidAssumption DEF FileInv, StopInv, Gone,
     CliInv, ThreadInv, PidIInv, StartPlaces, PidTypes, Only
<1> QED BY <1>5, <1>6, <1>7, <1>8, <1>9, <1>10 DEF FileInv

\* A child that fails says that it exited.
LEMMA MarkChildFailureKeeps ==
  ASSUME FileInv, PidIInv', NEW s \in Starts, MarkChildFailure(s)
  PROVE  FileInv'
<1>1. UNCHANGED <<named, opened, keep, probing, cli, watchdog, asked, exiting, owner, target,
                  escalated, outcome, ended, unlinked>>
  BY DEF MarkChildFailure, Goto, Return, stopVars, cliVars
<1>2. opened[s] \in Files /\ main[s] # "none" /\ \E p \in Pids : owner[p] = s
  BY Shapes, EntryFacts DEF MarkChildFailure, FileInv, CliInv, OwnerInv, PidIInv, PidTypes
<1>3. /\ main[s] = "failing" /\ Only(main', main, s, "failed")
  BY Shapes, PidAssumption, <1>2 DEF MarkChildFailure, Only, FileInv, CliInv
<1>4. RecordInv /\ Stays
  BY <1>1, <1>3, Shapes DEF FileInv, Stays, Only
<1>5. RecordInv' /\ (Written(s, "exited", s))
  BY <1>2, <1>4, Writes DEF MarkChildFailure, States
<1>6. CliInv'
  BY <1>1, <1>2, <1>3, <1>4, <1>5, Shapes, EntryFacts, PidAssumption DEF FileInv, CliInv, PidIInv,
     PidTypes, StartPlaces, ThreadInv, Exiter, Only
<1>7. OwnerInv'
  BY <1>1, <1>2, <1>3, <1>4, <1>5, Shapes, EntryFacts, PidAssumption DEF FileInv, OwnerInv, CliInv,
     Only
<1>8. ThreadInv'
  BY <1>1, <1>2, <1>3, <1>4, <1>5, Shapes, EntryFacts, PidAssumption DEF FileInv, ThreadInv,
     CliInv, Exits, Runs, Only
<1>9. TruthInv'
  BY <1>1, <1>2, <1>3, <1>4, <1>5, Shapes, EntryFacts, PidAssumption DEF FileInv, TruthInv, Says,
     Exiter, CliInv, ThreadInv, PidIInv, Exclusive, StartPlaces, OwnerInv, PidTypes, Waiting, Exits, Runs,
     Only, Written, Others
<1>10. StopInv'
  BY <1>1, <1>2, <1>3, <1>4, <1>5, Shapes, EntryFacts, PidAssumption DEF FileInv, StopInv, Gone,
     CliInv, ThreadInv, PidIInv, StartPlaces, PidTypes, Only
<1> QED BY <1>5, <1>6, <1>7, <1>8, <1>9, <1>10 DEF FileInv

\* A run that returned, and a shutdown that did, take nothing from the record.
LEMMA RunEndsKeeps ==
  ASSUME FileInv, PidIInv', NEW s \in Starts, RunReturns(s) \/ ShutdownReturns(s)
  PROVE  FileInv'
<1>1. UNCHANGED <<named, record, opened, keep, probing, cli, watchdog, exiting, owner, target,
                  escalated, outcome, ended, unlinked>>
  BY DEF RunReturns, ShutdownReturns, Goto, Return, stopVars, cliVars
<1>2. main[s] \in Runs /\ \E place \in Runs : Only(main', main, s, place)
  BY Shapes, PidAssumption DEF RunReturns, ShutdownReturns, Only, FileInv, CliInv, Runs
<1>3. Stays
  BY <1>1, <1>2, Shapes DEF FileInv, ThreadInv, Stays, Only, Runs
<1>4. CliInv'
  BY <1>1, <1>2, <1>3, Shapes, EntryFacts, PidAssumption DEF FileInv, CliInv, PidIInv, PidTypes,
     StartPlaces, ThreadInv, Exiter, Runs, Only
<1>5. OwnerInv'
  BY <1>1, <1>2, <1>3, Shapes, EntryFacts, PidAssumption DEF FileInv, OwnerInv, CliInv, Runs, Only
<1>6. ThreadInv'
  BY <1>1, <1>2, <1>3, Shapes, EntryFacts, PidAssumption DEF FileInv, ThreadInv, CliInv, Exits,
     Runs, Only
<1>7. RecordInv'
  BY <1>1, <1>2, <1>3, Shapes, EntryFacts, PidAssumption DEF FileInv, RecordInv, ThreadInv, CliInv,
     OwnerInv, Runs, Only
<1>8. TruthInv'
  BY <1>1, <1>2, <1>3, Shapes, EntryFacts, PidAssumption DEF FileInv, TruthInv, Says, Exiter,
     CliInv, ThreadInv, PidIInv, Exclusive, StartPlaces, OwnerInv, PidTypes, Runs, Only
<1>9. StopInv'
  BY <1>1, <1>2, <1>3, Shapes, EntryFacts, PidAssumption DEF FileInv, StopInv, Gone, CliInv,
     ThreadInv, PidIInv, StartPlaces, PidTypes, Runs, Only
<1> QED BY <1>4, <1>5, <1>6, <1>7, <1>8, <1>9 DEF FileInv

\* The end of the main thread: it exits, or leaves it to the watchdog.
LEMMA FinaliseKeeps ==
  ASSUME FileInv, PidIInv', NEW s \in Starts, Finalise(s)
  PROVE  FileInv'
<1>1. UNCHANGED <<named, record, opened, keep, probing, cli, watchdog, asked, owner, target,
                  escalated, outcome, ended, unlinked>>
  BY DEF Finalise, Goto, Return, stopVars, cliVars
<1>2. /\ main[s] = "finish" /\ Only(exiting', exiting, s, TRUE)
      /\ \/ exiting[s] /\ Only(main', main, s, "leave")
         \/ ~exiting[s] /\ Only(main', main, s, "exit")
  BY Shapes, PidAssumption DEF Finalise, Only, FileInv, CliInv
<1>3. Stays
  BY <1>1, <1>2, Shapes DEF FileInv, ThreadInv, Stays, Only
<1>4. CliInv'
  BY <1>1, <1>2, <1>3, Shapes, EntryFacts, PidAssumption DEF FileInv, CliInv, PidIInv, PidTypes,
     StartPlaces, ThreadInv, Exiter, Only
<1>5. OwnerInv'
  BY <1>1, <1>2, <1>3, Shapes, EntryFacts, PidAssumption DEF FileInv, OwnerInv, CliInv, Only
<1>6. ThreadInv'
  BY <1>1, <1>2, <1>3, Shapes, EntryFacts, PidAssumption DEF FileInv, ThreadInv, CliInv, Exits,
     Only
<1>7. RecordInv'
  BY <1>1, <1>2, <1>3, Shapes, EntryFacts, PidAssumption DEF FileInv, RecordInv, ThreadInv, CliInv,
     OwnerInv, Only
<1>8. TruthInv'
  BY <1>1, <1>2, <1>3, Shapes, EntryFacts, PidAssumption DEF FileInv, TruthInv, Says, Exiter,
     CliInv, ThreadInv, PidIInv, Exclusive, StartPlaces, OwnerInv, PidTypes, Exits, Only
<1>9. StopInv'
  BY <1>1, <1>2, <1>3, Shapes, EntryFacts, PidAssumption DEF FileInv, StopInv, Gone, CliInv,
     ThreadInv, PidIInv, StartPlaces, PidTypes, Only
<1> QED BY <1>4, <1>5, <1>6, <1>7, <1>8, <1>9 DEF FileInv

\* The watchdog, out of patience, takes the exit over.
LEMMA WatchFiresKeeps ==
  ASSUME FileInv, PidIInv', NEW s \in Starts, WatchFires(s)
  PROVE  FileInv'
<1>1. UNCHANGED <<named, record, opened, keep, probing, cli, main, asked, owner, target, escalated,
                  outcome, ended, unlinked>>
  BY DEF WatchFires, Goto, Return, stopVars, cliVars
<1>2. /\ main[s] \in Runs /\ watchdog[s] = "watch" /\ ~exiting[s]
      /\ Only(watchdog', watchdog, s, "exit") /\ Only(exiting', exiting, s, TRUE)
  BY Shapes, PidAssumption DEF WatchFires, Only, FileInv, CliInv, Runs
<1>3. Stays
  BY <1>1, <1>2, Shapes DEF FileInv, ThreadInv, Stays
<1>4. (CliInv /\ OwnerInv /\ RecordInv /\ StopInv)'
  BY <1>1 DEF FileInv, CliInv, OwnerInv, RecordInv, StopInv, Gone
<1>5. ThreadInv'
  BY <1>1, <1>2, <1>3, Shapes, EntryFacts, PidAssumption DEF FileInv, ThreadInv, CliInv, Exits,
     Runs, Only
<1>6. TruthInv'
  BY <1>1, <1>2, <1>3, Shapes, EntryFacts, PidAssumption DEF FileInv, TruthInv, Says, Exiter,
     CliInv, ThreadInv, PidIInv, Exclusive, StartPlaces, OwnerInv, PidTypes, Only
<1> QED BY <1>4, <1>5, <1>6 DEF FileInv

\* The exiting thread empties the file to say so.
LEMMA ExitTruncateKeeps ==
  ASSUME FileInv, PidIInv', NEW s \in Starts, ExitTruncate(s)
  PROVE  FileInv'
<1>1. UNCHANGED <<named, opened, keep, probing, cli, asked, exiting, owner, target, escalated,
                  outcome, ended, unlinked>>
  BY DEF ExitTruncate, ExitStep, ThreadEnds, Goto, Return, stopVars, cliVars
<1>2. opened[s] \in Files /\ main[s] # "none" /\ \E p \in Pids : owner[p] = s
  BY Shapes, EntryFacts DEF ExitTruncate, FileInv, CliInv, OwnerInv, ThreadInv, PidIInv, PidTypes,
     Exiter
<1>3. /\ main[s] # "dead" /\ Exiter(s) = "exit"
      /\ \E place \in {"exiting", "exitingBare"} : ThreadEnds(s, place)
  BY Shapes, PidAssumption, <1>2 DEF ExitTruncate, ExitStep, ThreadEnds, Only, FileInv, CliInv, Exits
<1>4. RecordInv /\ Stays
  BY <1>1, <1>3, Shapes DEF FileInv, Stays, Only, ThreadEnds, Exits
<1>5. RecordInv' /\ (Truncated(s))
  BY <1>2, <1>4, Truncates DEF ExitTruncate
<1>6. CliInv'
  BY <1>1, <1>2, <1>3, <1>4, <1>5, Shapes, EntryFacts, PidAssumption DEF FileInv, CliInv, PidIInv,
     PidTypes, StartPlaces, ThreadInv, Waiting, Exits, Only, ThreadEnds
<1>7. OwnerInv'
  BY <1>1, <1>2, <1>3, <1>4, <1>5, Shapes, EntryFacts, PidAssumption DEF FileInv, OwnerInv, CliInv,
     Waiting, Exits, Stays
<1>8. ThreadInv'
  BY <1>1, <1>2, <1>3, <1>4, <1>5, Shapes, EntryFacts, PidAssumption DEF FileInv, ThreadInv,
     CliInv, Waiting, Exits, Runs, Only, ThreadEnds, Exiter
<1>9. TruthInv'
  BY <1>1, <1>2, <1>3, <1>4, <1>5, Shapes, EntryFacts, PidAssumption DEF FileInv, TruthInv, Says,
     Exiter, CliInv, ThreadInv, PidIInv, Exclusive, StartPlaces, OwnerInv, PidTypes, Waiting, Exits, Runs,
     Only, Stays, Truncated, Others, ThreadEnds
<1>10. StopInv'
  BY <1>1, <1>2, <1>3, <1>4, <1>5, Shapes, EntryFacts, PidAssumption DEF FileInv, StopInv, Gone,
     CliInv, ThreadInv, PidIInv, StartPlaces, PidTypes, Stays
<1> QED BY <1>5, <1>6, <1>7, <1>8, <1>9, <1>10 DEF FileInv

\* The exiting thread says that it exited.
LEMMA ExitWriteKeeps ==
  ASSUME FileInv, PidIInv', NEW s \in Starts, ExitWrite(s)
  PROVE  FileInv'
<1>1. UNCHANGED <<named, opened, keep, probing, cli, asked, exiting, owner, target, escalated,
                  outcome, ended, unlinked>>
  BY DEF ExitWrite, ExitStep, ThreadEnds, Goto, Return, stopVars, cliVars
<1>2. opened[s] \in Files /\ main[s] # "none" /\ \E p \in Pids : owner[p] = s
  BY Shapes, EntryFacts DEF ExitWrite, FileInv, CliInv, OwnerInv, ThreadInv, PidIInv, PidTypes, Exiter
<1>3. /\ main[s] # "dead" /\ Exiter(s) \in {"exiting", "exitingBare"} /\ ThreadEnds(s, "exited")
  BY Shapes, PidAssumption, <1>2 DEF ExitWrite, ExitStep, ThreadEnds, Only, FileInv, CliInv, Exits
<1>4. RecordInv /\ Stays
  BY <1>1, <1>3, Shapes DEF FileInv, Stays, Only, ThreadEnds, Exits
<1>5. RecordInv' /\ (Written(s, "exited", s) \/ Written(s, "exited", Nobody))
  BY <1>2, <1>4, Writes DEF ExitWrite, States
<1>6. CliInv'
  BY <1>1, <1>2, <1>3, <1>4, <1>5, Shapes, EntryFacts, PidAssumption DEF FileInv, CliInv, PidIInv,
     PidTypes, StartPlaces, ThreadInv, Waiting, Exits, Only, ThreadEnds
<1>7. OwnerInv'
  BY <1>1, <1>2, <1>3, <1>4, <1>5, Shapes, EntryFacts, PidAssumption DEF FileInv, OwnerInv, CliInv,
     Waiting, Exits, Stays
<1>8. ThreadInv'
  BY <1>1, <1>2, <1>3, <1>4, <1>5, Shapes, EntryFacts, PidAssumption DEF FileInv, ThreadInv,
     CliInv, Waiting, Exits, Runs, Only, ThreadEnds, Exiter
<1>9. TruthInv'
  BY <1>1, <1>2, <1>3, <1>4, <1>5, Shapes, EntryFacts, PidAssumption DEF FileInv, TruthInv, Says,
     Exiter, CliInv, ThreadInv, PidIInv, Exclusive, StartPlaces, OwnerInv, PidTypes, Waiting, Exits, Runs,
     Only, Stays, Written, Others, ThreadEnds
<1>10. StopInv'
  BY <1>1, <1>2, <1>3, <1>4, <1>5, Shapes, EntryFacts, PidAssumption DEF FileInv, StopInv, Gone,
     CliInv, ThreadInv, PidIInv, StartPlaces, PidTypes, Stays
<1> QED BY <1>5, <1>6, <1>7, <1>8, <1>9, <1>10 DEF FileInv

\* The process ends having said so, or without having come to it.
LEMMA ExitKeeps ==
  ASSUME FileInv, PidIInv', NEW s \in Starts, Exit(s)
  PROVE  FileInv'
<1>1. UNCHANGED <<named, record, opened, probing, cli, asked, exiting, owner, target, escalated,
                  outcome, unlinked>>
  BY DEF Exit, Dies, Falls, Goto, Return, stopVars, cliVars
<1>2. /\ Falls(s)
      /\ \/ main[s] = "leave" /\ Only(ended', ended, s, "left")
         \/ (main[s] = "failed" \/ (main[s] # "dead" /\ Exiter(s) = "exited"))
              /\ Only(ended', ended, s, "exit")
  BY Shapes, PidAssumption DEF Exit, Dies, Falls, Only, FileInv, CliInv
<1>3. Stays
  BY <1>1, <1>2, Shapes DEF FileInv, ThreadInv, Stays, Only, Falls, Exiter
<1>4. CliInv'
  BY <1>1, <1>2, <1>3, Shapes, EntryFacts, PidAssumption DEF FileInv, CliInv, PidIInv, PidTypes,
     StartPlaces, ThreadInv, Waiting, Exits, Runs, Only, Stays, Falls
<1>5. OwnerInv'
  BY <1>1, <1>2, <1>3, Shapes, EntryFacts, PidAssumption DEF FileInv, OwnerInv, CliInv, Waiting,
     Exits, Runs, Stays
<1>6. ThreadInv'
  BY <1>1, <1>2, <1>3, Shapes, EntryFacts, PidAssumption DEF FileInv, ThreadInv, CliInv, Waiting,
     Exits, Runs, Only, Falls
<1>7. RecordInv'
  BY <1>1, <1>2, <1>3, Shapes, EntryFacts, PidAssumption DEF FileInv, RecordInv, ThreadInv, CliInv,
     OwnerInv, Waiting, Exits, Runs, Stays
<1>8. TruthInv'
  BY <1>1, <1>2, <1>3, Shapes, EntryFacts, PidAssumption DEF FileInv, TruthInv, Says, Exiter,
     CliInv, ThreadInv, PidIInv, Exclusive, StartPlaces, OwnerInv, PidTypes, Waiting, Exits, Runs, Only,
     Falls
<1>9. StopInv'
  BY <1>1, <1>2, <1>3, Shapes, EntryFacts, PidAssumption DEF FileInv, StopInv, Gone, CliInv,
     ThreadInv, PidIInv, StartPlaces, PidTypes, Waiting, Stays
<1> QED BY <1>4, <1>5, <1>6, <1>7, <1>8, <1>9 DEF FileInv

\* stop() looks, and goes on or away; what it read of stands.
LEMMA StopLooksKeeps ==
  ASSUME FileInv, PidIInv', NEW k \in Stops, StopScan(k) \/ StopScanned(k) \/ StopVerify(k)
         \/ StopVerified(k) \/ StopIdentify(k)
  PROVE  FileInv'
<1>1. UNCHANGED <<named, record, opened, keep, main, watchdog, asked, exiting, owner, target,
                  escalated, ended, unlinked>>
  BY DEF StopScan, StopScanned, StopVerify, StopVerified, StopIdentify, Goto, Return, daemonVars,
     stopVars
<1>2. /\ cli[k] \in {"idle", "scanned", "verify", "verified", "identify"}
           /\ (UNCHANGED outcome \/ Only(outcome', outcome, k, "nothing"))
      /\ \/ cli[k] = "idle" /\ UNCHANGED outcome
              /\ \E place \in {"scanned", "read"} : Only(cli', cli, k, place)
         \/ cli[k] \notin {"idle", "scanned"} /\ UNCHANGED outcome
              /\ \E place \in {"wait", "verified", "identify", "signal"} : Only(cli', cli, k, place)
         \/ Only(cli', cli, k, "done")
  <2>1. CASE StopScan(k)
    BY <2>1, CliSets DEF StopScan
  <2>2. CASE StopScanned(k)
    BY <2>2, CliSets DEF StopScanned
  <2>3. CASE StopVerify(k)
    BY <2>3, CliSets DEF StopVerify
  <2>4. CASE StopVerified(k)
    BY <2>4, CliSets DEF StopVerified
  <2>5. CASE StopIdentify(k)
    BY <2>5, CliSets DEF StopIdentify
  <2> QED BY <2>1, <2>2, <2>3, <2>4, <2>5
<1>3. (ThreadInv /\ RecordInv)'
  BY <1>1 DEF FileInv, ThreadInv, RecordInv
<1>4. CliInv'
  BY <1>1, <1>2, Shapes, EntryFacts, PidAssumption DEF FileInv, CliInv, PidIInv, PidTypes, StartPlaces,
     ThreadInv, Exiter, Only
<1>5. OwnerInv'
  BY <1>1, <1>2, Shapes, EntryFacts, PidAssumption DEF FileInv, OwnerInv, CliInv, Only
<1>6. TruthInv'
  BY <1>1, <1>2, Shapes, EntryFacts, PidAssumption DEF FileInv, TruthInv, Says, Exiter, CliInv,
     ThreadInv, PidIInv, Exclusive, StartPlaces, OwnerInv, PidTypes, Only
<1>7. StopInv'
  <2>1. \A j \in Stops : j # k => cli'[j] = cli[j] /\ outcome'[j] = outcome[j]
    BY <1>2, Shapes DEF Only
  <2>2. /\ outcome'[k] \notin {"none", "confirmed"} => cli'[k] = "done"
        /\ cli'[k] # "released" /\ outcome'[k] # "confirmed"
             /\ (cli[k] # "idle" => cli'[k] \notin {"idle", "scanned", "read"})
        /\ cli'[k] \in {"idle", "scanned", "read", "done"}
             \/ cli[k] \notin {"idle", "scanned", "read", "done"}
    BY <1>2 DEF Only, FileInv, StopInv
  <2> QED BY <1>1, <2>1, <2>2 DEF FileInv, StopInv, Gone
<1> QED BY <1>3, <1>4, <1>5, <1>6, <1>7 DEF FileInv

\* stop() takes its target from the record, or refuses.
LEMMA StopReadKeeps ==
  ASSUME FileInv, PidIInv', NEW k \in Stops, StopRead(k)
  PROVE  FileInv'
<1>1. UNCHANGED <<named, record, opened, keep, probing, main, watchdog, asked, exiting, owner,
                  escalated, ended, unlinked>>
  BY DEF StopRead, Goto, Return, daemonVars
<1>2. /\ cli[k] = "read"
      /\ \/ Only(cli', cli, k, "done") /\ Only(outcome', outcome, k, "refused") /\ UNCHANGED target
         \/ /\ Only(cli', cli, k, "verify") /\ UNCHANGED outcome
            /\ \E p \in Pids, x \in Files \cup {Nobody} :
                 /\ target' = [target EXCEPT ![k] = [pid |-> p, born |-> x]]
                 /\ x \in Starts => main[x] # "none"
  <2> DEFINE r == IF named = Nobody THEN Blank ELSE record[named]
             x == IF r.born = Nobody THEN owner[r.pid] ELSE r.born
  <2>1. r = Blank \/ \E f \in Files : r = record[f]
    BY DEF FileInv, PidIInv, PidTypes
  <2>2. Readable(r) => r.pid \in Pids /\ r.born \in Files \cup {Nobody}
        /\ (r.born \in Starts => main[r.born] # "none")
    BY <2>1, EntryFacts DEF FileInv, RecordInv
  <2>3. Readable(r) => x \in Files \cup {Nobody} /\ (x \in Starts => main[x] # "none")
    BY <2>2, Shapes DEF FileInv, OwnerInv
  <2>4. \/ ~Readable(r) /\ Return(k, "refused") /\ UNCHANGED target
        \/ /\ Readable(r) /\ Goto(k, "verify") /\ UNCHANGED outcome
           /\ target' = [target EXCEPT ![k] = [pid |-> r.pid, born |-> x]]
    BY DEF StopRead
  <2>5. cli[k] = "read"
    BY DEF StopRead
  <2> HIDE DEF r, x
  <2> QED BY <2>2, <2>3, <2>4, <2>5, CliSets
<1>3. (ThreadInv /\ RecordInv)'
  BY <1>1 DEF FileInv, ThreadInv, RecordInv
<1>4. CliInv'
  BY <1>1, <1>2, Shapes, EntryFacts, PidAssumption DEF FileInv, CliInv, PidIInv, PidTypes, StartPlaces,
     ThreadInv, Exiter, Only
<1>5. OwnerInv'
  BY <1>1, <1>2, Shapes, EntryFacts, PidAssumption DEF FileInv, OwnerInv, CliInv, Only
<1>6. TruthInv'
  BY <1>1, <1>2, Shapes, EntryFacts, PidAssumption DEF FileInv, TruthInv, Says, Exiter, CliInv,
     ThreadInv, PidIInv, Exclusive, StartPlaces, OwnerInv, PidTypes, Only
<1>7. StopInv'
  BY <1>1, <1>2, Shapes, EntryFacts, PidAssumption DEF FileInv, StopInv, Gone, CliInv, ThreadInv,
     PidIInv, StartPlaces, PidTypes, Only
<1> QED BY <1>3, <1>4, <1>5, <1>6, <1>7 DEF FileInv

\* A signal asks the process that has the number, or ends it.
LEMMA StopSignalKeeps ==
  ASSUME FileInv, PidIInv', NEW k \in Stops, StopSignal(k)
  PROVE  FileInv'
<1>1. UNCHANGED <<named, record, opened, probing, owner, target, escalated, unlinked>>
  BY DEF StopSignal, Signalled, Dies, Falls, Goto, Return, stopVars
<1>2. /\ cli[k] = "signal" /\ UNCHANGED exiting
      /\ \/ Only(cli', cli, k, "done") /\ Only(outcome', outcome, k, "noSuchProcess")
         \/ Only(cli', cli, k, "wait") /\ UNCHANGED outcome
      /\ \/ UNCHANGED <<main, watchdog, ended, keep>>
         \/ \E s \in Starts : main[s] # "none" /\ Falls(s) /\ Only(ended', ended, s, "killed")
  <2> DEFINE hit == owner[target[k].pid]
  <2>1. /\ cli[k] = "signal"
        /\ \/ hit = Nobody /\ Return(k, "noSuchProcess") /\ UNCHANGED <<daemonVars, keep>>
           \/ hit \in Starts /\ Goto(k, "wait") /\ Signalled(hit, k) /\ UNCHANGED outcome
    BY DEF StopSignal
  <2>2. ASSUME hit \in Starts, Signalled(hit, k)
        PROVE  /\ UNCHANGED exiting
               /\ UNCHANGED <<main, watchdog, ended, keep>>
                    \/ (main[hit] \notin {"none", "dead"} /\ Dies(hit, "killed"))
    <3>1. target[k].pid \in Pids
      BY <2>1 DEF FileInv, StopInv
    <3>2. main[hit] # "none"
      BY <2>2, <3>1 DEF FileInv, OwnerInv
    <3> QED BY <2>2, <3>2 DEF Signalled, daemonVars
  <2>3. ASSUME NEW s \in Starts, Dies(s, "killed") PROVE Falls(s)
               /\ Only(ended', ended, s, "killed")
    BY <2>3, Shapes DEF Dies, Falls, Only
  <2> HIDE DEF hit
  <2> QED BY <2>1, <2>2, <2>3, CliSets DEF daemonVars
<1>3. Stays
  BY <1>1, <1>2, Shapes DEF FileInv, ThreadInv, Stays, Only, Falls
<1>4. CliInv'
  BY <1>1, <1>2, <1>3, Shapes, EntryFacts, PidAssumption DEF FileInv, CliInv, PidIInv, PidTypes,
     StartPlaces, ThreadInv, Exiter, Waiting, Only, Stays, Falls
<1>5. OwnerInv'
  BY <1>1, <1>2, <1>3, Shapes, EntryFacts, PidAssumption DEF FileInv, OwnerInv, CliInv, Waiting,
     Only, Stays
<1>6. ThreadInv'
  BY <1>1, <1>2, <1>3, Shapes, EntryFacts, PidAssumption DEF FileInv, ThreadInv, CliInv, Waiting,
     Only, Falls
<1>7. RecordInv'
  BY <1>1, <1>2, <1>3, Shapes, EntryFacts, PidAssumption DEF FileInv, RecordInv, ThreadInv, CliInv,
     OwnerInv, Waiting, Stays
<1>8. TruthInv'
  BY <1>1, <1>2, <1>3, Shapes, EntryFacts, PidAssumption DEF FileInv, TruthInv, Says, Exiter,
     CliInv, ThreadInv, PidIInv, Exclusive, StartPlaces, OwnerInv, PidTypes, Waiting, Only, Falls
<1>9. StopInv'
  BY <1>1, <1>2, <1>3, Shapes, EntryFacts, PidAssumption DEF FileInv, StopInv, Gone, CliInv,
     ThreadInv, PidIInv, StartPlaces, PidTypes, Waiting, Only, Stays
<1> QED BY <1>4, <1>5, <1>6, <1>7, <1>8, <1>9 DEF FileInv

\* stop() sees the lock free, escalates, or gives up: with the path in place, a free lock
\* means that its target is gone.
LEMMA StopWaitKeeps ==
  ASSUME FileInv, PidIInv', NEW k \in Stops, StopWait(k)
  PROVE  FileInv'
<1>1. UNCHANGED <<named, record, opened, keep, main, watchdog, asked, exiting, owner, target, ended,
                  unlinked>>
  BY DEF StopWait, Goto, Return, daemonVars
<1>2. /\ cli[k] = "wait"
      /\ \/ Only(cli', cli, k, "verify") /\ UNCHANGED outcome
         \/ Only(cli', cli, k, "done") /\ Only(outcome', outcome, k, "unconfirmed")
         \/ /\ (Only(cli', cli, k, "done") /\ Only(outcome', outcome, k, "confirmed"))
                 \/ (Only(cli', cli, k, "released") /\ UNCHANGED outcome)
            /\ ~unlinked => \A s \in Starts : main[s] \in {"none", "dead"}
  <2>1. ASSUME named = Nobody \/ TakeProbe(k), ~unlinked, NEW s \in Starts
        PROVE main[s] \in {"none", "dead"}
    <3>1. opened[s] \in {Nobody, named} /\ (keep[s] # {} => opened[s] # Nobody)
      BY <2>1 DEF FileInv, PidIInv, OneFile, StartPlaces
    <3>2. keep[s] = {}
      BY <2>1, <3>1 DEF TakeProbe, Locked
    <3> QED BY <3>2 DEF FileInv, CliInv
  <2>2. /\ cli[k] = "wait"
        /\ \/ (named = Nobody \/ TakeProbe(k))
                /\ (Return(k, "confirmed") \/ (Goto(k, "released") /\ UNCHANGED outcome))
           \/ Goto(k, "verify") /\ UNCHANGED outcome
           \/ Return(k, "unconfirmed")
    BY DEF StopWait
  <2> QED BY <2>1, <2>2, CliSets
<1>3. (ThreadInv /\ RecordInv)'
  BY <1>1 DEF FileInv, ThreadInv, RecordInv
<1>4. CliInv'
  BY <1>1, <1>2, Shapes, EntryFacts, PidAssumption DEF FileInv, CliInv, PidIInv, PidTypes, StartPlaces,
     ThreadInv, Exiter, Only
<1>5. OwnerInv'
  BY <1>1, <1>2, Shapes, EntryFacts, PidAssumption DEF FileInv, OwnerInv, CliInv, Only
<1>6. TruthInv'
  BY <1>1, <1>2, Shapes, EntryFacts, PidAssumption DEF FileInv, TruthInv, Says, Exiter, CliInv,
     ThreadInv, PidIInv, Exclusive, StartPlaces, OwnerInv, PidTypes, Only
<1>7. StopInv'
  BY <1>1, <1>2, Shapes, EntryFacts, PidAssumption DEF FileInv, StopInv, Gone, CliInv, ThreadInv,
     PidIInv, StartPlaces, PidTypes, Only
<1> QED BY <1>3, <1>4, <1>5, <1>6, <1>7 DEF FileInv

\* stop() reports what the free lock told it.
LEMMA StopReleasedKeeps ==
  ASSUME FileInv, PidIInv', NEW k \in Stops, StopReleased(k)
  PROVE  FileInv'
<1>1. UNCHANGED <<named, record, opened, keep, main, watchdog, asked, exiting, owner, target,
                  escalated, ended, unlinked>>
  BY DEF StopReleased, Goto, Return, daemonVars, stopVars
<1>2. cli[k] = "released" /\ Only(cli', cli, k, "done") /\ Only(outcome', outcome, k, "confirmed")
  BY CliSets DEF StopReleased
<1>3. (ThreadInv /\ RecordInv)'
  BY <1>1 DEF FileInv, ThreadInv, RecordInv
<1>4. CliInv'
  BY <1>1, <1>2, Shapes, EntryFacts, PidAssumption DEF FileInv, CliInv, PidIInv, PidTypes, StartPlaces,
     ThreadInv, Exiter, Only
<1>5. OwnerInv'
  BY <1>1, <1>2, Shapes, EntryFacts, PidAssumption DEF FileInv, OwnerInv, CliInv, Only
<1>6. TruthInv'
  BY <1>1, <1>2, Shapes, EntryFacts, PidAssumption DEF FileInv, TruthInv, Says, Exiter, CliInv,
     ThreadInv, PidIInv, Exclusive, StartPlaces, OwnerInv, PidTypes, Only
<1>7. StopInv'
  BY <1>1, <1>2, Shapes, EntryFacts, PidAssumption DEF FileInv, StopInv, Gone, CliInv, ThreadInv,
     PidIInv, StartPlaces, PidTypes, Only
<1> QED BY <1>3, <1>4, <1>5, <1>6, <1>7 DEF FileInv

\* The kernel takes the number of a process nobody asks about.
LEMMA RecycleKeeps ==
  ASSUME FileInv, PidIInv', NEW p \in Pids, Recycle(p)
  PROVE  FileInv'
<1>1. UNCHANGED <<named, record, opened, keep, probing, cli, main, watchdog, asked, exiting, target,
                  escalated, outcome, ended, unlinked>>
  BY DEF Recycle, daemonVars, stopVars
<1>2. owner[p] \in Starts /\ main[owner[p]] = "dead" /\ cli[owner[p]] = "done"
      /\ owner' = [owner EXCEPT ![p] = Nobody]
  BY DEF Recycle
<1>3. owner' \in [Pids -> Starts \cup {Nobody}] /\ owner'[p] = Nobody
      /\ \A q \in Pids : q # p => owner'[q] = owner[q]
  BY <1>2 DEF FileInv, OwnerInv
<1>4. (CliInv /\ ThreadInv /\ RecordInv /\ StopInv)'
  BY <1>1 DEF FileInv, CliInv, ThreadInv, RecordInv, StopInv, Gone
<1>5. OwnerInv'
  BY <1>1, <1>2, EntryFacts DEF FileInv, OwnerInv
<1>6. TruthInv'
  BY <1>1, <1>2, <1>3, EntryFacts DEF FileInv, TruthInv, Says, Exiter, Runs
<1> QED BY <1>4, <1>5, <1>6 DEF FileInv

\* The first states: an old record at most, and nobody about.
LEMMA FileBegins == ASSUME PidInit PROVE FileInv
<1>1. PidIInv
  BY PidInitially
<1>2. /\ main = [s \in Starts |-> "none"] /\ watchdog = [s \in Starts |-> "off"]
      /\ exiting = [s \in Starts |-> FALSE]
      /\ ended = [s \in Starts |-> "no"] /\ cli = [c \in Starts \cup Stops |-> "idle"]
      /\ opened = [s \in Starts |-> Nobody]
      /\ keep = [s \in Starts |-> {}] /\ owner = [p \in Pids |-> Nobody]
      /\ outcome = [c \in Starts \cup Stops |-> "none"]
      /\ target = [k \in Stops |-> [pid |-> Nobody, born |-> Nobody]]
  BY DEF PidInit
<1>3. CliInv /\ OwnerInv /\ ThreadInv
  BY <1>2, EntryFacts DEF CliInv, OwnerInv, ThreadInv, Waiting
<1>4. RecordInv
  <2>1. PICK p \in Pids, state \in {"none", "running", "exited"} :
           record = [f \in Files |-> IF f = Old
             /\ state # "none" THEN Entry(state, p, Old) ELSE Blank]
    BY DEF PidInit
  <2>2. state # "none" => Entry(state, p, Old) \in Entries /\ Entry(state, p, Old).pid = p
        /\ Entry(state, p, Old).born = Old
    BY EntryFacts DEF States, Files
  <2>3. \A f \in Files : record[f] \in Entries
        /\ (record[f] = Blank \/ (record[f].pid \in Pids /\ record[f].born = Old))
    BY <2>1, <2>2, EntryFacts
  <2>4. record \in [Files -> Entries]
    BY <2>1, <2>3
  <2> QED BY <2>3, <2>4, EntryFacts, PidAssumption DEF RecordInv, Entries
<1>5. TruthInv /\ StopInv
  BY <1>2, EntryFacts DEF TruthInv, StopInv, Gone, Exiter
<1> QED BY <1>1, <1>3, <1>4, <1>5 DEF FileInv

\* Every step of a start, a daemon or a stop keeps the invariant.
LEMMA FileInductive == ASSUME FileInv, [PidNext]_pidVars PROVE FileInv'
<1>1. CASE \E s \in Starts : StartStep(s)
  <2>1. PICK s \in Starts : StartStep(s)
    BY <1>1
  <2>2. PidIInv'
    BY <2>1, StartStepKeeps DEF FileInv
  <2> QED BY <2>1, <2>2, StartLooksKeeps, StartOpenKeeps, StartLockKeeps, StartSpawnKeeps,
             StartTruncateKeeps, StartWriteKeeps, StartConfirmKeeps DEF StartStep
<1>2. CASE \E s \in Starts : DaemonStep(s)
  <2>1. PICK s \in Starts : DaemonStep(s)
    BY <1>2
  <2>2. PidIInv'
    BY <2>1, DaemonStepKeeps DEF FileInv
  <2> QED BY <2>1, <2>2, BootKeeps, MarkTruncateKeeps, MarkRunningKeeps, MarkChildFailureKeeps,
             RunEndsKeeps, FinaliseKeeps, WatchFiresKeeps, ExitTruncateKeeps, ExitWriteKeeps,
               ExitKeeps
             DEF DaemonStep
<1>3. CASE \E k \in Stops : StopStep(k)
  <2>1. PICK k \in Stops : StopStep(k)
    BY <1>3
  <2>2. PidIInv'
    BY <2>1, StopStepKeeps DEF FileInv
  <2> QED BY <2>1, <2>2, StopLooksKeeps, StopReadKeeps, StopSignalKeeps, StopWaitKeeps,
             StopReleasedKeeps DEF StopStep
<1>4. CASE \E p \in Pids : Recycle(p)
  <2>1. PidIInv'
    BY <1>4 DEF FileInv, Recycle, PidIInv, PidTypes, StartPlaces, Exclusive, OneFile
  <2> QED BY <1>4, <2>1, RecycleKeeps
<1>5. CASE UNCHANGED pidVars
  BY <1>5 DEF pidVars, FileInv, PidIInv, PidTypes, StartPlaces, Exclusive, OneFile, CliInv, OwnerInv,
     ThreadInv, RecordInv, TruthInv, Says, Exiter, StopInv, Gone
<1> QED BY <1>1, <1>2, <1>3, <1>4, <1>5 DEF PidNext

\* The invariant implies what the property says.
LEMMA FileInvIsEnough == ASSUME FileInv PROVE FileIsTrue
<1>1. DaemonAddressable
  <2> SUFFICES ASSUME NEW s \in Starts, main[s] \in Runs, watchdog[s] = "watch", ~SlowStart,
    ~unlinked
               PROVE  named = opened[s] /\ record[named] = Entry("running", NumberOf(s), s)
    BY DEF DaemonAddressable, Runs
  <2>1. opened[s] \in Files /\ named = opened[s]
    BY DEF FileInv, CliInv, PidIInv, PidTypes, OneFile, Runs
  <2>2. Says(s).state = "running" /\ Says(s).born = s /\ Says(s).pid \in Pids
        /\ owner[Says(s).pid] = s
    BY DEF FileInv, TruthInv
  <2>3. NumberOf(s) \in Pids /\ owner[NumberOf(s)] = s
    BY <2>2, NumberIs
  <2>4. Says(s).pid = NumberOf(s)
    BY <2>2, <2>3, EntryFacts DEF FileInv, OwnerInv
  <2>5. Says(s) \in Entries
    BY <2>1 DEF FileInv, RecordInv, Says, Entries
  <2>6. Says(s) = Entry("running", NumberOf(s), s)
    BY <2>2, <2>4, <2>5 DEF Entries, Entry
  <2> QED BY <2>1, <2>6 DEF Says
<1>2. ExitRecorded
  BY DEF ExitRecorded, FileInv, TruthInv, Says
<1>3. ConfirmedIsGone
  BY DEF ConfirmedIsGone, Alive, FileInv, StopInv, Gone, CliInv
<1> QED BY <1>1, <1>2, <1>3 DEF FileIsTrue

\* Whatever starts, probes, stops, watchdogs and deaths mix: what the pid file says is so,
\* of a daemon that runs, of one that exited and of one a stop reports stopped (daemon.pid:
\* write_record, mark_running, mark_exited, stop).
THEOREM TheFileIsTrue == PidSpec => []FileIsTrue
<1>1. PidInit => FileInv
  BY FileBegins
<1>2. FileInv /\ [PidNext]_pidVars => FileInv'
  BY FileInductive
<1> QED BY <1>1, <1>2, FileInvIsEnough, PTL DEF PidSpec

\* What no other invariant names.
PidRest == probing \in [Starts \cup Stops -> Files \cup {Nobody}] /\ unlinked \in BOOLEAN

\* Only the probes of starts and stops, and a failed spawn, touch these.
LEMMA PidRestStep ==
  ASSUME PidTypes, PidRest, [PidNext]_pidVars PROVE PidRest'
<1>1. CASE UNCHANGED <<probing, unlinked>>
  BY <1>1 DEF PidRest
<1>2. ASSUME NEW c \in Starts \cup Stops, TakeProbe(c) \/ DropProbe(c)
      PROVE  probing' \in [Starts \cup Stops -> Files \cup {Nobody}]
  BY <1>2 DEF TakeProbe, DropProbe, PidTypes, PidRest
<1>3. ASSUME NEW s \in Starts, StartStep(s) PROVE PidRest'
  <2>1. CASE StartScan(s) \/ StartScanned(s) \/ StartRescan(s) \/ StartRescanned(s)
    <3>1. UNCHANGED unlinked /\ (UNCHANGED probing \/ TakeProbe(s) \/ DropProbe(s))
      BY <2>1 DEF StartScan, StartScanned, StartRescan, StartRescanned
    <3> QED BY <1>2, <3>1 DEF PidRest
  <2>2. CASE StartSpawn(s)
    BY <2>2 DEF StartSpawn, PidRest
  <2> QED BY <1>1, <1>3, <2>1, <2>2
          DEF StartStep, StartOpen, StartLock, StartTruncate, StartWrite, StartConfirm
<1>4. ASSUME NEW s \in Starts, DaemonStep(s) PROVE PidRest'
  <2>1. UNCHANGED cliVars
    BY <1>4 DEF DaemonStep, Boot, MarkTruncate, MarkRunning, MarkChildFailure, RunReturns,
         ShutdownReturns, Finalise, WatchFires, ExitTruncate, ExitWrite, Exit
  <2> QED BY <1>1, <2>1 DEF cliVars
<1>5. ASSUME NEW k \in Stops, StopStep(k) PROVE PidRest'
  <2>1. UNCHANGED unlinked /\ (UNCHANGED probing \/ TakeProbe(k) \/ DropProbe(k))
    BY <1>5 DEF StopStep, StopScan, StopScanned, StopRead, StopVerify, StopVerified, StopIdentify,
         StopSignal, StopWait, StopReleased
  <2> QED BY <1>2, <2>1 DEF PidRest
<1>6. ASSUME NEW p \in Pids, Recycle(p) PROVE PidRest'
  BY <1>1, <1>6 DEF Recycle
<1>7. CASE UNCHANGED pidVars
  BY <1>1, <1>7 DEF pidVars
<1> QED BY <1>3, <1>4, <1>5, <1>6, <1>7 DEF PidNext

\* Every variable of the pid file, its lock and its processes keeps its type (daemon.pid).
THEOREM PidTypeCorrect == PidSpec => []PidTypeOK
<1>1. PidInit => FileInv /\ PidRest
  <2>1. ASSUME PidInit PROVE PidRest
    <3>1. probing = [c \in Starts \cup Stops |-> Nobody] /\ unlinked = FALSE
      BY <2>1 DEF PidInit
    <3> QED BY <3>1 DEF PidRest
  <2> QED BY <2>1, FileBegins
<1>2. FileInv /\ PidRest /\ [PidNext]_pidVars => FileInv' /\ PidRest'
  BY FileInductive, PidRestStep DEF FileInv, PidIInv
<1>3. FileInv /\ PidRest => PidTypeOK
  BY DEF FileInv, PidIInv, PidTypes, RecordInv, OwnerInv, PidRest, PidTypeOK
<1> QED BY <1>1, <1>2, <1>3, PTL DEF PidSpec

(***************************************************************************)
(* The marks are on disk.                                                  *)
(***************************************************************************)
\* Whatever the library's lines and the clock are, a mark is one that was made.
StateType == [Todos -> MarkType \cup {NoMark}]
Typed == mark \in StateType /\ file \in StateType /\ stamp \in 0..MaxStamps /\ hour \in Nat

\* A mark pending before and after it was judged is as it was.
Kept(old, new) == \A t \in Todos : Pending(new[t]) => new[t] = old[t]

\* The states reconcile comes to, before and after it has pruned.
Live == {t \in Todos : held[t] # NoMark /\ Pending(mark[t])}
Judged(settled, old) ==
  [t \in Todos |-> CASE t \in settled -> NoMark
                     [] t \in old -> [mark[t] EXCEPT !.expired = TRUE]
                     [] OTHER -> mark[t]]
PrunedMarks(judged, gone) == [t \in Todos |-> IF t \in gone THEN NoMark ELSE judged[t]]

\* Judging and pruning make no mark pending, and change none that stays so.
LEMMA JudgingKeeps ==
  ASSUME mark \in StateType, NEW settled \in SUBSET Live, NEW old \in SUBSET (Live \ settled),
         NEW gone \in SUBSET Todos
  PROVE  /\ Judged(settled, old) \in StateType /\ Kept(mark, Judged(settled, old))
         /\ PrunedMarks(Judged(settled, old), gone) \in StateType
         /\ Kept(mark, PrunedMarks(Judged(settled, old), gone))
         /\ Kept(Judged(settled, old), PrunedMarks(Judged(settled, old), gone))
<1> DEFINE J == Judged(settled, old)
<1>1. ASSUME NEW t \in Todos
      PROVE  J[t] \in MarkType \cup {NoMark} /\ (Pending(J[t]) => J[t] = mark[t])
  <2>1. CASE t \in settled
    BY <2>1, TodoAssumption DEF Judged, Pending, StateType
  <2>2. CASE t \in old /\ t \notin settled
    <3>1. mark[t] \in MarkType
      BY <2>2 DEF Live, Pending, StateType
    <3>2. J[t] = [mark[t] EXCEPT !.expired = TRUE]
      BY <2>2 DEF Judged
    <3> QED BY <3>1, <3>2 DEF MarkType, Pending
  <2>3. CASE t \notin settled /\ t \notin old
    BY <2>3 DEF Judged, StateType
  <2> QED BY <2>1, <2>2, <2>3
<1>2. J \in StateType
  BY <1>1 DEF StateType, Judged
<1>3. Kept(mark, J)
  BY <1>1 DEF Kept
<1>4. PrunedMarks(J, gone) \in StateType
  BY <1>2 DEF StateType, PrunedMarks
<1>5. Kept(J, PrunedMarks(J, gone)) /\ Kept(mark, PrunedMarks(J, gone))
  BY <1>3 DEF Kept, PrunedMarks, Pending
<1> QED BY <1>2, <1>3, <1>4, <1>5

\* Reconcile: memory and file go on from states that change no pending mark; the
\* file is what memory is, or what memory was before the pruning, or as it was.
LEMMA Reconciled ==
  ASSUME mark \in StateType, Reconcile
  PROVE  \E judged, pruned \in StateType :
           /\ Kept(mark, judged) /\ Kept(mark, pruned) /\ Kept(judged, pruned)
           /\ \/ mark' = pruned /\ file' = pruned
              \/ mark' = judged /\ (file' = judged \/ file' = file)
<1> DEFINE S == {t \in Live : Settled(mark[t], held[t])}
           O == {t \in Live \ S : mark[t].at <= hour}
           J == Judged(S, O)
           G == IF missing = {} THEN {t \in Todos : held[t] = NoMark /\ mark[t] # NoMark} ELSE {}
           P == PrunedMarks(J, G)
<1>1. /\ J \in StateType /\ Kept(mark, J) /\ P \in StateType /\ Kept(mark, P) /\ Kept(J, P)
  <2>1. S \in SUBSET Live /\ O \in SUBSET (Live \ S) /\ G \in SUBSET Todos
    OBVIOUS
  <2> HIDE DEF S, O, G
  <2> QED BY <2>1, JudgingKeeps
<1>2. \/ mark' = P /\ file' = P
      \/ mark' = J /\ (file' = J \/ file' = file)
  BY DEF Reconcile, Live, Judged, PrunedMarks, SaveMarks, SaveOrNot
<1> HIDE DEF J, P
<1> QED BY <1>1, <1>2
-----------------------------------------------------------------------------
\* The first states have no marks.
LEMMA TodoInitially == ASSUME TodoInit PROVE Typed /\ MarksOnDisk
  BY TodoAssumption DEF TodoInit, Typed, StateType, MarksOnDisk, Pending

\* No step leaves a pending mark that the file does not have.
LEMMA TodoStep ==
  ASSUME Typed, MarksOnDisk, [TodoNext]_todoVars PROVE Typed' /\ MarksOnDisk'
<1>1. CASE \E w \in Markers, t \in Todos, d \in BOOLEAN : Mark(w, t, d)
  <2> PICK w \in Markers, t \in Todos, d \in BOOLEAN : Mark(w, t, d)
    BY <1>1
  <2> DEFINE new == [mark EXCEPT ![t] = [done |-> d, at |-> stamp', expired |-> FALSE]]
  <2>1. stamp' \in 1..MaxStamps /\ hour' = hour
    BY TodoAssumption DEF Mark, Typed
  <2>2. new \in StateType
    BY <2>1 DEF Typed, StateType, MarkType
  <2>3. (mark' = new /\ file' = new) \/ (mark' = mark /\ file' = file)
    BY DEF Mark, SaveMarks
  <2> HIDE DEF new
  <2>4. Typed'
    BY <2>1, <2>2, <2>3 DEF Typed
  <2>5. MarksOnDisk'
    BY <2>3 DEF MarksOnDisk, Pending
  <2> QED BY <2>4, <2>5
<1>2. CASE Reconcile
  <2>1. PICK judged, pruned \in StateType :
           /\ Kept(mark, judged) /\ Kept(mark, pruned) /\ Kept(judged, pruned)
           /\ \/ mark' = pruned /\ file' = pruned
              \/ mark' = judged /\ (file' = judged \/ file' = file)
    BY <1>2, Reconciled DEF Typed
  <2>2. Typed'
    BY <1>2, <2>1 DEF Typed, Reconcile
  <2>3. MarksOnDisk'
    BY <2>1 DEF MarksOnDisk, Kept, Pending
  <2> QED BY <2>2, <2>3
<1>3. CASE DaemonDies
  BY <1>3 DEF DaemonDies, Typed, MarksOnDisk, Pending
<1>4. CASE \E t \in Todos : ForeignChange(t)
  <2>1. stamp' \in 0..MaxStamps /\ UNCHANGED <<mark, file, hour>>
    BY <1>4, TodoAssumption DEF ForeignChange, Typed
  <2> QED BY <2>1 DEF Typed, MarksOnDisk, Pending
<1>5. CASE HourPasses
  BY <1>5 DEF HourPasses, Typed, MarksOnDisk, Pending
<1>6. CASE UNCHANGED <<mark, file, stamp, hour>>
  BY <1>6 DEF Typed, MarksOnDisk, Pending
<1>7. CASE \E w \in Markers : Tell(w)
  BY <1>6, <1>7 DEF Tell
<1>8. CASE \E e \in due : Resend(e)
  BY <1>6, <1>8 DEF Resend
<1>9. CASE ReadLines \/ CheckEnds \/ Flip \/ Lost \/ UNCHANGED todoVars
  BY <1>6, <1>9 DEF ReadLines, CheckEnds, Flip, Lost, todoVars
<1> QED BY <1>1, <1>2, <1>3, <1>4, <1>5, <1>7, <1>8, <1>9 DEF TodoNext

\* A death forgets nothing that was acknowledged: whatever was marked, undone,
\* settled, expired and pruned before, and whichever saves failed (daemon.todos).
THEOREM MarksAreOnDisk == TodoSpec => []MarksOnDisk
<1>1. TodoInit => Typed /\ MarksOnDisk
  BY TodoInitially
<1>2. (Typed /\ MarksOnDisk) /\ [TodoNext]_todoVars => (Typed /\ MarksOnDisk)'
  BY TodoStep
<1> QED BY <1>1, <1>2, PTL DEF TodoSpec

LineType == [done : BOOLEAN, at : 0..MaxStamps]

\* The library, what was read of it, and what is on its way.
Sound ==
  /\ line \in [Todos -> LineType \cup {NoMark}] /\ held \in [Todos -> LineType \cup {NoMark}]
  /\ missing \subseteq Todos /\ telling \in [Markers -> EventType \cup {NoMark}]
  /\ check \in {"idle", "read", "resend"} /\ due \subseteq EventType
  /\ wire \in Seq(EventType) /\ hour \in 0..MaxStamps

\* No step puts anything else on a line, in a marker's hand or on the wire.
LEMMA SoundStep ==
  ASSUME Typed, Sound, [TodoNext]_todoVars PROVE Sound'
<1>0. MaxStamps \in Nat
  BY TodoAssumption
<1>1. ASSUME NEW w \in Markers, NEW t \in Todos, NEW d \in BOOLEAN, Mark(w, t, d)
      PROVE  Sound'
  <2>1. stamp' \in 1..MaxStamps
    BY <1>0, <1>1 DEF Mark, Typed
  <2>2. [id |-> t, done |-> d, at |-> stamp'] \in EventType
    BY <2>1 DEF EventType
  <2>3. telling' \in [Markers -> EventType \cup {NoMark}]
    BY <1>1, <2>2 DEF Mark, Sound
  <2> QED BY <1>1, <2>3 DEF Mark, Sound
<1>2. ASSUME NEW w \in Markers, Tell(w) PROVE Sound'
  <2>1. telling[w] \in EventType
    BY <1>2 DEF Tell, Sound
  <2>2. wire' \in Seq(EventType)
    BY <1>2, <2>1, AppendProperties DEF Tell, Sound
  <2> QED BY <1>2, <2>2 DEF Tell, Sound
<1>3. CASE ReadLines
  <2>1. PICK unread \in SUBSET {t \in Todos : line[t] # NoMark} :
       /\ held' = [t \in Todos |-> IF t \in unread THEN held[t] ELSE line[t]]
       /\ missing' = {t \in unread : held[t] = NoMark}
    BY <1>3 DEF ReadLines
  <2>2. held' \in [Todos -> LineType \cup {NoMark}] /\ missing' \subseteq Todos
    BY <2>1 DEF Sound
  <2> QED BY <1>3, <2>2 DEF ReadLines, Sound
<1>4. CASE Reconcile
  <2>1. \A t \in Todos : Pending(mark[t]) => [id |-> t, done |-> mark[t].done, at |-> mark[t].at] \in EventType
    <3>1. ASSUME NEW t \in Todos, Pending(mark[t]) PROVE mark[t] \in MarkType
      BY <3>1 DEF Typed, StateType, Pending
    <3> QED BY <3>1 DEF MarkType, EventType
  <2>2. due' \subseteq EventType
    BY <1>4, <2>1 DEF Reconcile
  <2> QED BY <1>4, <2>2 DEF Reconcile, Sound
<1>5. ASSUME NEW e \in due, Resend(e) PROVE Sound'
  <2>1. e \in EventType
    BY DEF Sound
  <2>2. wire' \in Seq(EventType)
    BY <1>5, <2>1, AppendProperties DEF Resend, Sound
  <2> QED BY <1>5, <2>2 DEF Resend, Sound
<1>6. CASE CheckEnds
  BY <1>6 DEF CheckEnds, Sound
<1>7. CASE Flip \/ Lost
  <2>1. wire' \in Seq(EventType) /\ Head(wire) \in EventType
    BY <1>7, HeadTailProperties DEF Flip, Lost, Sound
  <2>2. CASE Flip
    <3> DEFINE e == Head(wire)
    <3>1. e.id \in Todos /\ Line(e.done, IF e.done THEN e.at ELSE 0) \in LineType
      BY <1>0, <2>1 DEF EventType, Line, LineType
    <3>2. line' \in [Todos -> LineType \cup {NoMark}]
      BY <2>2, <3>1 DEF Flip, Sound
    <3> QED BY <2>1, <2>2, <3>2 DEF Flip, Sound
  <2> QED BY <1>7, <2>1, <2>2 DEF Lost, Sound
<1>8. ASSUME NEW t \in Todos, ForeignChange(t) PROVE Sound'
  <2>1. stamp' \in 0..MaxStamps
    BY <1>0, <1>8 DEF ForeignChange, Typed
  <2>2. Line(TRUE, stamp') \in LineType
    BY <2>1 DEF Line, LineType
  <2>3. line' \in [Todos -> LineType \cup {NoMark}]
    BY <1>8, <2>2 DEF ForeignChange, Sound
  <2> QED BY <1>8, <2>3 DEF ForeignChange, Sound
<1>9. CASE HourPasses
  BY <1>9 DEF HourPasses, Sound, Typed
<1>10. CASE DaemonDies
  BY <1>10 DEF DaemonDies, Sound
<1>11. CASE UNCHANGED todoVars
  BY <1>11 DEF todoVars, Sound
<1> QED BY <1>1, <1>2, <1>3, <1>4, <1>5, <1>6, <1>7, <1>8, <1>9, <1>10, <1>11 DEF TodoNext

\* Every variable of the marks, the library's lines and the wire keeps its type (daemon.todos).
THEOREM TodoTypeCorrect == TodoSpec => []TodoTypeOK
<1>1. TodoInit => (Typed /\ MarksOnDisk) /\ Sound
  <2>1. ASSUME TodoInit PROVE Sound
    <3>1. Line(FALSE, 0) \in LineType /\ <<>> \in Seq(EventType)
      BY TodoAssumption DEF Line, LineType
    <3>2. line \in [Todos -> LineType \cup {NoMark}] /\ held \in [Todos -> LineType \cup {NoMark}]
      BY <2>1, <3>1 DEF TodoInit
    <3>3. /\ missing = {} /\ telling = [m \in Markers |-> NoMark] /\ check = "idle"
          /\ due = {} /\ wire = <<>> /\ hour = 0
      BY <2>1 DEF TodoInit
    <3> QED BY <3>1, <3>2, <3>3, TodoAssumption DEF Sound
  <2> QED BY <2>1, TodoInitially
<1>2. (Typed /\ MarksOnDisk) /\ Sound /\ [TodoNext]_todoVars => (Typed /\ MarksOnDisk)' /\ Sound'
  BY TodoStep, SoundStep
<1>3. (Typed /\ MarksOnDisk) /\ Sound => TodoTypeOK
  BY DEF Typed, StateType, Sound, LineType, TodoTypeOK
<1> QED BY <1>1, <1>2, <1>3, PTL DEF TodoSpec

(***************************************************************************)
(* The parts together.                                                     *)
(***************************************************************************)
\* A part either moves or stays: what the daemon does is, of each part, what the part does.
LEMMA EachPart ==
  Spec => PidSpec /\ MeshSpec /\ TodoSpec /\ ChatSpec /\ EarsSpec
<1>1. Init => PidInit /\ MeshInit /\ TodoInit /\ ChatInit /\ EarsInit
  BY DEF Init
<1>2. [Next]_<<part, pidVars, meshVars, todoVars, chatVars, earsVars>>
      => /\ [PidNext]_pidVars /\ [MeshNext]_meshVars /\ [TodoNext]_todoVars
         /\ [ChatNext]_chatVars /\ [EarsNext]_earsVars
  BY DEF Next
<1> QED BY <1>1, <1>2, PTL DEF Spec, PidSpec, MeshSpec, TodoSpec, ChatSpec, EarsSpec

\* The variables of the part that moves keep their types, and so do those of the others.
THEOREM TypesCorrect ==
  Spec => []TypeOK /\ [](PidTypeOK /\ MeshTypeOK /\ TodoTypeOK /\ ChatTypeOK /\ EarsTypeOK)
<1>1. PidTypeOK /\ MeshTypeOK /\ TodoTypeOK /\ ChatTypeOK /\ EarsTypeOK => TypeOK
  BY DEF TypeOK
<1> QED
  BY <1>1, EachPart, PidTypeCorrect, MeshTypeCorrect, TodoTypeCorrect, ChatTypeCorrect,
     EarsTypeCorrect, PTL
\* What the runs check of the parts is so of the daemon: one process, whose file
\* tells the truth; asks, marks and questions kept and counted; one ear.
THEOREM PartsKeepTheirPromises ==
  Spec => /\ [](OneDaemon /\ FileIsTrue)
          /\ [](AnswersOnceInOrder /\ AsksSurvive) /\ AnswerKept /\ FailedNeverMatched
          /\ []MarksOnDisk /\ [](LaneExact /\ RepliesFollow) /\ []OneEarHeard
<1> QED
  BY EachPart, AtMostOneDaemon, TheFileIsTrue, AnswersReadOnceInOrder, AsksOutliveTheDaemon,
     AnswersAreKept, FailedAsksAreNotMatched, MarksAreOnDisk, LaneCountsExactly,
     RepliesFollowTheirTurns, OneEarIsHeard, PTL
==============================================================================
