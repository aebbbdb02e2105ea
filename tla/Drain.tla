------------------------------- MODULE Drain -------------------------------
(***************************************************************************)
(* embodiment.ingest.spool and embodiment.daemon.drain: batches of memory  *)
(* records that the command line leaves as files in inbox/, and the one    *)
(* thread of the daemon that applies them, in bounded passes, through jobs *)
(* of RoomMemory's executor, and archives newspaper issues once expired.   *)
(*                                                                         *)
(* Grain: one action is one file operation, one executor job, or one       *)
(* decision of the drain between two of them; the process may die between  *)
(* any two.  A batch is known by its position in enqueue order, which is   *)
(* the order of the file names.  Clocks are left out: a budget may run out *)
(* at any check that follows some work, a deadline may pass ("slow").      *)
(***************************************************************************)
EXTENDS IngestStore, FiniteSets

CONSTANTS
  Shapes,           \* the batches the environment may enqueue
  Faults,           \* which faults may happen, see FaultKinds
  NoJob,
  MaxInflight,      \* RoomMemory's in-flight cap
  MaxBatches,       \* bound: batches enqueued
  MaxFaults,        \* bound: faults
  MaxCrashes        \* bound: deaths of the daemon

\* "read": a batch file cannot be read for now.  "write": a file cannot be
\* written or removed.  "list": the inbox cannot be listed.  "ledger": the
\* ledger cannot be read.  "busy": memory refuses a job (saturated, closed).
\* "slow": a job outlives its deadline.  "store": the store raises.
FaultKinds == {"read", "write", "list", "ledger", "busy", "slow", "store"}

Kinds == {"ingest", "forget", "malformed"}
Slots == 1..MaxInflight
Jobs  == [by : Nat, op : {"ingest", "archive", "list"}, arg : Records \cup Ids \cup Dates,
          status : {"queued", "ok", "error"}, found : SUBSET Ids]

ASSUME DrainAssumption ==
  /\ MaxInflight \in Nat \ {0} /\ MaxBatches \in Nat
  /\ MaxFaults \in Nat /\ MaxCrashes \in Nat
  /\ Faults \subseteq FaultKinds
  /\ NoId \notin Ids /\ NoDate \notin Dates /\ NoText \notin Texts /\ Dates \subseteq Nat
  /\ Absent \notin Entries /\ NoJob \notin Jobs
  /\ \A s \in Shapes :
       /\ s.kind \in Kinds /\ s.records \in Seq(Records)
       /\ \A n \in DOMAIN s.records : LET r == s.records[n] IN
            \/ r.op = "ingest" /\ s.kind = "ingest" /\ r.id \in Ids /\ r.text \in Texts
            \/ r.op = "forget" /\ s.kind = "forget" /\ r.id \in Ids
            \/ r.op = "forgetSource" /\ s.kind = "forget" /\ r.date \in Dates

VARIABLES
  \* on disk
  content,          \* every batch ever enqueued, in order
  inbox,            \* the positions whose file is in inbox/
  doneDir,          \* positions with a receipt in done/
  failedDir,        \* positions with a reason in failed/
  ledgerFile,       \* the dates in newspaper-retention.json
  store,            \* the ingest scope
  \* of the drain thread, for one pass
  pc,               \* where the pass is
  todo,             \* batches of the listing still to come
  batch,            \* the batch in hand, 0 if none
  worked,           \* has this pass done something
  issue,            \* the date retention is archiving, or NoDate
  expiring,         \* the expired dates retention still has to archive
  tidied,           \* has retention archived an issue in this pass
  targets,          \* ids a forget has still to archive
  missed,           \* has the forget in hand failed to archive one
  awaited,          \* the slot of the job it waits for, 0 if none
  \* of the daemon, from pass to pass
  cursor,           \* _cursor
  refused,          \* batches with an entry in _refused
  ledger, loaded,   \* _ledger, and whether it was read
  backoff,          \* _retry_at lies ahead
  due,              \* _retention_due_at has passed
  slots,            \* RoomMemory's jobs in flight
  \* environment and history
  expired,          \* the dates past RETENTION_DAYS
  crashes, faults,
  purged,           \* positions whose reason was purged
  begun, base       \* the last batch begun, and the store it found

disk    == <<content, inbox, doneDir, failedDir, ledgerFile, purged>>
inHand  == <<todo, batch, worked>>
retain  == <<issue, expiring, tidied>>
job     == <<targets, missed, awaited, slots>>
kept    == <<cursor, refused>>
dates   == <<ledger, loaded, due>>
outside == <<expired, crashes>>
origin  == <<begun, base>>
vars    == <<disk, store, pc, inHand, retain, job, kept, dates, backoff, outside, faults, origin>>

Positions == 1..Len(content)
Settled   == Positions \ inbox
Dated(b)  == {content[b].records[n].date : n \in DOMAIN content[b].records} \ {NoDate}
Invalid(b) == {n \in DOMAIN content[b].records : ~content[b].records[n].valid}

Fault(kind) == kind \in Faults /\ faults < MaxFaults /\ faults' = faults + 1
NoFault     == UNCHANGED faults

Least(S) == CHOOSE x \in S : \A y \in S : x <= y

Init ==
  /\ content = <<>> /\ inbox = {} /\ doneDir = {} /\ failedDir = {} /\ ledgerFile = {}
  /\ store = [i \in Ids |-> Absent]
  /\ pc = "idle" /\ todo = {} /\ batch = 0 /\ worked = FALSE
  /\ issue = NoDate /\ expiring = {} /\ tidied = FALSE
  /\ targets = {} /\ missed = FALSE /\ awaited = 0
  /\ slots = [k \in Slots |-> NoJob]
  /\ cursor = [b \in 1..MaxBatches |-> 0] /\ refused = {}
  /\ ledger = {} /\ loaded = FALSE /\ due = TRUE /\ backoff = FALSE
  /\ expired = {} /\ crashes = 0 /\ faults = 0
  /\ purged = {} /\ begun = 0 /\ base = store

-----------------------------------------------------------------------------
(* The command line, in a process of its own.                              *)

Enqueue(s) ==
  /\ Len(content) < MaxBatches
  /\ content' = Append(content, s)
  /\ inbox' = inbox \cup {Len(content) + 1}
  /\ UNCHANGED <<doneDir, failedDir, ledgerFile, purged, store, pc, inHand, retain, job, kept,
                 dates, backoff, outside, faults, origin>>

-----------------------------------------------------------------------------
(* A pass: list the inbox, then take its batches in order.                 *)

EndPass ==
  /\ pc' = "idle" /\ todo' = {} /\ batch' = 0 /\ worked' = FALSE
  /\ issue' = NoDate /\ expiring' = {} /\ tidied' = FALSE
  /\ targets' = {} /\ missed' = FALSE /\ awaited' = 0

\* An unreadable ledger counts as empty for the life of the process.
LoadLedger ==
  /\ pc = "idle" /\ ~loaded
  /\ loaded' = TRUE
  /\ \/ ledger' = ledgerFile /\ NoFault
     \/ ledger' = {} /\ Fault("ledger")
  /\ UNCHANGED <<disk, store, pc, inHand, retain, job, kept, due, backoff, outside, origin>>

\* An inbox that cannot be listed counts as empty.  What the memory of the
\* process says of a batch that is not listed is dropped.
StartPass ==
  /\ pc = "idle" /\ loaded /\ ~backoff
  /\ \/ todo' = inbox /\ NoFault
     \/ todo' = {} /\ Fault("list")
  /\ cursor' = [b \in DOMAIN cursor |-> IF b \in todo' THEN cursor[b] ELSE 0]
  /\ refused' = refused \cap todo'
  /\ pc' = "scan"
  /\ UNCHANGED <<disk, store, batch, worked, retain, job, dates, backoff, outside, origin>>

\* Mutant: restarts the batch when the budget runs out.
BadOutOfBudget ==
  /\ pc = "apply" \/ (pc = "scan" /\ todo # {}) \/ (pc = "retain" /\ expiring # {})
  /\ worked
  /\ EndPass
  /\ cursor' = IF batch = 0 THEN cursor ELSE [cursor EXCEPT ![batch] = 0]
  /\ UNCHANGED <<disk, store, slots, refused, dates, backoff, outside, faults, origin>>

\* The budget ran out; the cursor already stands at the next record.
OutOfBudget ==
  /\ \/ pc \in {"scan", "apply"} /\ (pc = "scan" => todo # {})
     \/ pc = "retain" /\ expiring # {}
  /\ worked
  /\ EndPass
  /\ UNCHANGED <<disk, store, slots, kept, dates, backoff, outside, faults, origin>>

\* Mutant: takes the newest batch of the listing.
BadLoad ==
  /\ pc = "scan" /\ todo # {}
  /\ batch' = (CHOOSE b \in todo : \A o \in todo : o <= b) /\ todo' = todo \ {batch'}
  /\ pc' = IF content[batch'].kind = "malformed" THEN "unreadable" ELSE "begin"
  /\ UNCHANGED <<disk, store, worked, retain, job, kept, dates, backoff, outside, faults, origin>>

\* load: an unreadable or malformed file goes to failed/.
Load ==
  /\ pc = "scan" /\ todo # {}
  /\ batch' = Least(todo) /\ todo' = todo \ {batch'}
  /\ \/ content[batch'].kind = "malformed" /\ pc' = "unreadable" /\ NoFault
     \/ content[batch'].kind # "malformed" /\ pc' = "begin" /\ NoFault
     \/ content[batch'].kind # "malformed" /\ pc' = "unreadable" /\ Fault("read")
  /\ UNCHANGED <<disk, store, worked, retain, job, kept, dates, backoff, outside, origin>>

\* _move_failed for a file that could not be read.  Whether it succeeds or
\* not, the pass goes on with the next batch.
Quarantine ==
  \/ /\ pc = "unreadable"
     /\ \/ failedDir' = failedDir \cup {batch} /\ pc' = "quarantined" /\ NoFault
        \/ UNCHANGED failedDir /\ pc' = "scan" /\ Fault("write")
     /\ UNCHANGED <<inbox, inHand>>
     /\ UNCHANGED <<content, doneDir, ledgerFile, purged, store, retain, job, kept, dates,
                    backoff, outside, origin>>
  \/ /\ pc = "quarantined" /\ pc' = "scan"
     /\ \/ inbox' = inbox \ {batch} /\ NoFault
        \/ UNCHANGED inbox /\ Fault("write")
     /\ UNCHANGED <<failedDir, inHand>>
     /\ UNCHANGED <<content, doneDir, ledgerFile, purged, store, retain, job, kept, dates,
                    backoff, outside, origin>>

\* Mutant: the new dates wait for retention to save them.
BadBegin ==
  /\ pc = "begin" /\ pc' = "apply"
  /\ ledger' = ledger \cup (IF content[batch].kind = "ingest" THEN Dated(batch) ELSE {})
  /\ IF batch > begun THEN begun' = batch /\ base' = store ELSE UNCHANGED origin
  /\ UNCHANGED <<disk, store, inHand, retain, job, kept, loaded, due, backoff, outside, faults>>

\* _track_issue_dates: before its first record is applied, the new dates of
\* a batch enter the ledger; one already expired makes retention due.
Begin ==
  /\ pc = "begin"
  /\ LET new == IF cursor[batch] = 0 /\ content[batch].kind = "ingest"
                THEN Dated(batch) \ ledger ELSE {}
     IN  /\ ledger' = ledger \cup new
         /\ due' = (due \/ new \cap expired # {})
         /\ pc' = IF new = {} THEN "apply" ELSE "save"
  /\ IF batch > begun THEN begun' = batch /\ base' = store ELSE UNCHANGED origin
  /\ UNCHANGED <<disk, store, inHand, retain, job, kept, loaded, backoff, outside, faults>>

\* _save_ledger: a failure is recorded, and the batch applied all the same.
SaveLedger ==
  /\ pc = "save" /\ pc' = "apply"
  /\ \/ ledgerFile' = ledger /\ NoFault
     \/ UNCHANGED ledgerFile /\ Fault("write")
  /\ UNCHANGED <<content, inbox, doneDir, failedDir, purged, store, inHand, retain, job, kept,
                 dates, backoff, outside, origin>>

-----------------------------------------------------------------------------
(* The records of the batch in hand, one job (or a few) each.              *)

Record == content[batch].records[cursor[batch] + 1]
AtEnd  == cursor[batch] = Len(content[batch].records)

\* Mutant: the cursor stands behind the record that failed.
BadStall ==
  /\ cursor' = [cursor EXCEPT ![batch] = @ + 1]
  /\ EndPass /\ backoff' = TRUE
  /\ UNCHANGED <<refused, dates>>

\* _stall: the batch stays at the head of the inbox until the backoff ends.
Stall ==
  /\ EndPass /\ backoff' = TRUE
  /\ UNCHANGED <<kept, dates>>

\* A failed retention is tried again later; a batch in hand stalls.
Fails ==
  IF issue = NoDate THEN Stall
  ELSE /\ due' = FALSE /\ issue' = NoDate /\ expiring' = {}
       /\ pc' = IF tidied THEN "tidy" ELSE "idle"
       /\ tidied' = FALSE /\ worked' = (worked /\ tidied)
       /\ targets' = {} /\ missed' = FALSE /\ awaited' = 0
       /\ UNCHANGED <<todo, batch, kept, ledger, loaded, backoff>>

\* The operation in hand succeeded: the next record, or the next issue.
Succeeds ==
  /\ worked' = TRUE /\ targets' = {} /\ missed' = FALSE /\ awaited' = 0
  /\ IF issue = NoDate
     THEN /\ cursor' = [cursor EXCEPT ![batch] = @ + 1] /\ pc' = "apply"
          /\ UNCHANGED <<retain, ledger>>
     ELSE /\ ledger' = ledger \ {issue} /\ pc' = "retain"
          /\ issue' = NoDate /\ expiring' = expiring \ {issue} /\ tidied' = TRUE
          /\ UNCHANGED cursor
  /\ UNCHANGED <<todo, batch, refused, loaded, due, backoff>>

\* A record memory calls invalid is noted; the rest is still applied.
Refuse ==
  /\ pc = "apply" /\ ~AtEnd /\ ~Record.valid
  /\ refused' = refused \cup {batch}
  /\ cursor' = [cursor EXCEPT ![batch] = @ + 1]
  /\ worked' = TRUE
  /\ UNCHANGED <<disk, store, pc, todo, batch, retain, job, dates, backoff, outside, faults,
                 origin>>

\* _submit: a job takes a slot and is awaited, or is refused.
Submit(op, arg, rest) ==
  \/ \E k \in Slots :
       /\ slots[k] = NoJob /\ (\A j \in Slots : j < k => slots[j] # NoJob)
       /\ slots' = [slots EXCEPT ![k] = [by |-> batch, op |-> op, arg |-> arg,
                                         status |-> "queued", found |-> {}]]
       /\ awaited' = k /\ targets' = rest /\ pc' = "wait"
       /\ NoFault
       /\ UNCHANGED <<inHand, retain, missed, kept, dates, backoff>>
  \/ /\ (NoJob \notin {slots[k] : k \in Slots} /\ NoFault) \/ Fault("busy")
     /\ Fails
     /\ UNCHANGED slots

\* An ingest is one job; a forget of a source first lists the scope.
Apply ==
  /\ pc = "apply" /\ ~AtEnd /\ Record.valid
  /\ CASE Record.op = "ingest"       -> Submit("ingest", Record, {})
       [] Record.op = "forgetSource" -> Submit("list", Record.date, {})
       [] Record.op = "forget"       -> Submit("archive", Record.id, {})
  /\ UNCHANGED <<disk, store, outside, origin>>

\* Mutant: an id that could not be archived is passed over.
BadArchive ==
  /\ pc = "archive"
  /\ \/ targets # {} /\ \E i \in targets : Submit("archive", i, targets \ {i})
     \/ targets # {} /\ Fault("slow") /\ Fails /\ UNCHANGED slots
     \/ targets = {} /\ NoFault /\ Succeeds /\ UNCHANGED slots
  /\ UNCHANGED <<disk, store, outside, origin>>

\* _archive_ids: the ids of a forget, one job each; one deadline for all.
Archive ==
  /\ pc = "archive"
  /\ \/ targets # {} /\ \E i \in targets : Submit("archive", i, targets \ {i})
     \/ targets # {} /\ Fault("slow") /\ Fails /\ UNCHANGED slots
     \/ targets = {} /\ missed /\ NoFault /\ Fails /\ UNCHANGED slots
     \/ targets = {} /\ ~missed /\ NoFault /\ Succeeds /\ UNCHANGED slots
  /\ UNCHANGED <<disk, store, outside, origin>>

\* The executor runs a job, whether or not anyone still waits for it.
RunJob(k) ==
  /\ slots[k] # NoJob /\ slots[k].status = "queued"
  /\ LET j == slots[k]
         after(status, found) == IF k = awaited
             THEN slots' = [slots EXCEPT ![k].status = status, ![k].found = found]
             ELSE slots' = [slots EXCEPT ![k] = NoJob]
     IN  \/ /\ store' = CASE j.op = "ingest"  -> Ingested(store, j.arg, j.by)
                          [] j.op = "archive" -> Archived(store, {j.arg})
                          [] j.op = "list"    -> store
            /\ after("ok", IF j.op = "list" THEN Issue(store, j.arg) ELSE {})
            /\ NoFault
         \/ /\ IF j.op = "ingest" THEN store' \in Partial(store, j.arg, j.by)
                                  ELSE UNCHANGED store
            /\ after("error", {})
            /\ Fault("store")
  /\ UNCHANGED <<disk, pc, inHand, retain, targets, missed, awaited, kept, dates, backoff,
                 outside, origin>>

\* The answer.  A failed archival does not keep the others from being tried.
Answered ==
  /\ pc = "wait" /\ slots[awaited].status # "queued"
  /\ slots' = [slots EXCEPT ![awaited] = NoJob]
  /\ LET j == slots[awaited]
     IN  \/ /\ j.op = "archive" \/ (j.op = "list" /\ j.status = "ok")
            /\ pc' = "archive" /\ awaited' = 0
            /\ targets' = targets \cup j.found
            /\ missed' = (missed \/ j.status = "error")
            /\ UNCHANGED <<inHand, retain, kept, dates, backoff>>
         \/ j.op = "ingest" /\ j.status = "ok" /\ Succeeds
         \/ j.op # "archive" /\ j.status = "error" /\ Fails
  /\ UNCHANGED <<disk, store, outside, faults, origin>>

\* _await_job: past its deadline the job is left to run by itself.
Deferred ==
  /\ pc = "wait" /\ slots[awaited].status = "queued"
  /\ Fault("slow") /\ Fails
  /\ UNCHANGED <<disk, store, slots, outside, origin>>

-----------------------------------------------------------------------------
(* The end of a batch: a receipt or a reason is written, then the batch    *)
(* file is removed.  Should either fail, the batch stalls.                 *)

\* Mutant: a receipt that could not be written is taken for written.
BadReceipt ==
  /\ pc = "apply" /\ AtEnd
  /\ \/ /\ IF batch \in refused
           THEN failedDir' = failedDir \cup {batch} /\ UNCHANGED doneDir
           ELSE doneDir' = doneDir \cup {batch} /\ UNCHANGED failedDir
        /\ NoFault
     \/ UNCHANGED <<doneDir, failedDir>> /\ Fault("write")
  /\ pc' = "remove"
  /\ UNCHANGED <<content, inbox, ledgerFile, purged, store, inHand, retain, job, kept, dates,
                 backoff, outside, origin>>

Receipt ==
  /\ pc = "apply" /\ AtEnd
  /\ \/ /\ IF batch \in refused
           THEN failedDir' = failedDir \cup {batch} /\ UNCHANGED doneDir
           ELSE doneDir' = doneDir \cup {batch} /\ UNCHANGED failedDir
        /\ pc' = "remove" /\ NoFault
        /\ UNCHANGED <<inHand, retain, targets, missed, awaited, kept, dates, backoff>>
     \/ UNCHANGED <<doneDir, failedDir>> /\ Fault("write") /\ Stall
  /\ UNCHANGED <<content, inbox, ledgerFile, purged, store, slots, outside, origin>>

RemoveFile ==
  /\ pc = "remove"
  /\ \/ /\ inbox' = inbox \ {batch}
        /\ cursor' = [cursor EXCEPT ![batch] = 0] /\ refused' = refused \ {batch}
        /\ batch' = 0 /\ worked' = TRUE /\ pc' = "scan" /\ NoFault
        /\ UNCHANGED <<todo, retain, targets, missed, awaited, dates, backoff>>
     \/ UNCHANGED inbox /\ Fault("write") /\ Stall
  /\ UNCHANGED <<content, doneDir, failedDir, ledgerFile, purged, store, slots, outside, origin>>

-----------------------------------------------------------------------------
(* Retention, when no batch stalled and the budget lasts.                  *)

\* Mutant: a pass that applied nothing archives nothing.
BadRetention ==
  /\ pc = "scan" /\ todo = {}
  /\ batch' = 0
  /\ IF due /\ worked THEN pc' = "retain" /\ expiring' = ledger \cap expired /\ UNCHANGED worked
                      ELSE pc' = "idle" /\ worked' = FALSE /\ UNCHANGED expiring
  /\ UNCHANGED <<disk, store, todo, issue, tidied, job, kept, dates, backoff, outside, faults,
                 origin>>

Retention ==
  /\ pc = "scan" /\ todo = {}
  /\ batch' = 0
  /\ IF due THEN pc' = "retain" /\ expiring' = ledger \cap expired /\ UNCHANGED worked
            ELSE pc' = "idle" /\ worked' = FALSE /\ UNCHANGED expiring
  /\ UNCHANGED <<disk, store, todo, issue, tidied, job, kept, dates, backoff, outside, faults,
                 origin>>

\* forget_source of the oldest expired issue; the ledger loses its date only
\* when all its items were archived (Succeeds).
ArchiveIssue ==
  /\ pc = "retain" /\ expiring # {}
  /\ issue' = Least(expiring) /\ pc' = "source"
  /\ UNCHANGED <<disk, store, inHand, expiring, tidied, job, kept, dates, backoff, outside,
                 faults, origin>>

ArchiveSource ==
  /\ pc = "source" /\ Submit("list", issue, {})
  /\ UNCHANGED <<disk, store, outside, origin>>

\* The ledger is saved if an issue was archived; old reasons are purged
\* unless retention failed (due is then already FALSE).
Tidy ==
  /\ \/ pc = "retain" /\ expiring = {}
     \/ pc = "tidy"
  /\ \/ (pc = "tidy" \/ tidied) /\ ledgerFile' = ledger /\ NoFault
     \/ (pc = "tidy" \/ tidied) /\ UNCHANGED ledgerFile /\ Fault("write")
     \/ pc = "retain" /\ ~tidied /\ UNCHANGED ledgerFile /\ NoFault
  /\ IF pc = "retain"
     THEN \E old \in {{}, failedDir} :
            failedDir' = failedDir \ old /\ purged' = purged \cup old
     ELSE UNCHANGED <<failedDir, purged>>
  /\ due' = FALSE
  /\ EndPass
  /\ UNCHANGED <<content, inbox, doneDir, store, slots, kept, ledger, loaded, backoff, outside,
                 origin>>

-----------------------------------------------------------------------------
(* Time and accidents.                                                     *)

BackoffEnds ==
  /\ backoff /\ backoff' = FALSE
  /\ UNCHANGED <<disk, store, pc, inHand, retain, job, kept, dates, outside, faults, origin>>

RetentionDue ==
  /\ ~due /\ due' = TRUE
  /\ UNCHANGED <<disk, store, pc, inHand, retain, job, kept, ledger, loaded, backoff, outside,
                 faults, origin>>

Expire(d) ==
  /\ d \notin expired /\ expired' = expired \cup {d}
  /\ UNCHANGED <<disk, store, pc, inHand, retain, job, kept, dates, backoff, crashes, faults,
                 origin>>

\* The process dies with its jobs; a new one starts from the files.
Crash ==
  /\ crashes < MaxCrashes /\ crashes' = crashes + 1
  /\ EndPass
  /\ slots' = [k \in Slots |-> NoJob]
  /\ cursor' = [b \in DOMAIN cursor |-> 0] /\ refused' = {}
  /\ ledger' = {} /\ loaded' = FALSE /\ due' = TRUE /\ backoff' = FALSE
  /\ UNCHANGED <<disk, store, expired, faults, origin>>

DrainStep ==
  \/ LoadLedger \/ StartPass \/ OutOfBudget \/ Load \/ Quarantine \/ Begin \/ SaveLedger
  \/ Refuse \/ Apply \/ Archive \/ Answered \/ Deferred \/ Receipt \/ RemoveFile
  \/ Retention \/ ArchiveIssue \/ ArchiveSource \/ Tidy

Next ==
  \/ \E s \in Shapes : Enqueue(s)
  \/ DrainStep
  \/ \E k \in Slots : RunJob(k)
  \/ BackoffEnds \/ RetentionDue \/ \E d \in Dates : Expire(d)
  \/ Crash

Spec == Init /\ [][Next]_vars

\* The heartbeat kicks the drain and the executor has workers; nobody owes a
\* batch, a death or a fault, and faults are finitely many.
Fairness ==
  /\ WF_vars(DrainStep) /\ \A k \in Slots : WF_vars(RunJob(k))
  /\ WF_vars(BackoffEnds) /\ WF_vars(RetentionDue)

FairSpec == Spec /\ Fairness
-----------------------------------------------------------------------------
(* Properties.                                                             *)

Ops == {"ingest", "archive", "list"}
Args(op) == CASE op = "ingest" -> Records [] op = "archive" -> Ids [] op = "list" -> Dates
IsJob(j) ==
  /\ j.by \in Nat /\ j.op \in Ops /\ j.arg \in Args(j.op)
  /\ j.status \in {"queued", "ok", "error"} /\ j.found \subseteq Ids

\* Types, and that the files and the drain speak of batches that exist.
TypeOK ==
  /\ content \in Seq(Shapes) /\ Len(content) <= MaxBatches
  /\ inbox \cup doneDir \cup failedDir \cup purged \cup todo \cup refused \subseteq Positions
  /\ ledgerFile \cup ledger \cup expiring \cup expired \subseteq Dates
  /\ store \in Stores /\ base \in Stores
  /\ pc \in {"idle", "scan", "unreadable", "quarantined", "begin", "save", "apply", "wait",
             "archive", "remove", "retain", "source", "tidy"}
  /\ batch \in Positions \cup {0} /\ begun \in Positions \cup {0}
  /\ cursor \in [1..MaxBatches -> Nat] /\ issue \in Dates \cup {NoDate}
  /\ targets \subseteq Ids /\ awaited \in Slots \cup {0}
  /\ \A k \in Slots : slots[k] # NoJob => IsJob(slots[k])
  /\ {worked, tidied, missed, loaded, backoff, due} \subseteq BOOLEAN
  /\ crashes \in Nat /\ faults \in Nat

\* A record comes (back) to life, or gets another text, only through a batch
\* with no younger batch settled: the order of enqueueing is the order in
\* which the store changes (the contract of the drain's docstring).
OrderKept ==
  [][\A i \in Ids : store'[i] # store[i] /\ i \in Live(store')
                      => \A b \in Settled : b <= store'[i].by]_vars

\* When a batch gets its receipt or its reason, the store looks as if the
\* batch had been applied once, cleanly, to the store it found, however often
\* it was replayed after a death of the daemon.
Converges ==
  [][pc = "apply" /\ pc' = "remove" =>
       Face(store) = Face(Replayed(base, content[batch].records, batch))]_vars

\* No text of the store or of the batch comes to another id through the batch: two of its
\* records have one text only if they have one id, and a record whose text the store has
\* under another id either follows one that gave that id a text of its own, or leaves the
\* text where it is.
KeepsTexts(s, recs) ==
  LET puts == {n \in DOMAIN recs : recs[n].valid /\ recs[n].op = "ingest"} IN
  \A n \in puts :
    /\ \A m \in puts : recs[m].text = recs[n].text => recs[m].id = recs[n].id
    /\ \A i \in Clashes(s, recs[n]) :
         \/ \E m \in puts : m < n /\ recs[m].id = i /\ Clashes(s, recs[m]) = {}
         \/ \A m \in puts : recs[m].id # i /\ (recs[m].text = recs[n].text => recs[m].supersedes # i)

\* The last batch begun moves no text.
TextsStay == begun # 0 => KeepsTexts(base, content[begun].records)

\* What the drain amounts to: while a batch is being applied, and applied again, the store is
\* still the one it found; when its file leaves the inbox, all of it has been applied, once.
\* Batches go in enqueue order, the oldest first, and but for them only expired items change.
\* (A file that cannot be read is set aside, with what the batch did until then.)
Unread == IF pc \in {"unreadable", "quarantined"} /\ content[batch].kind # "malformed"
          THEN batch ELSE 0
Whole  == IF begun \in inbox THEN base ELSE store
Batches == INSTANCE AtomicBatches WITH
  arrived <- content, waiting <- inbox, unread <- Unread, store <- Whole

AppliesAtomically == Batches!Spec

\* A batch leaves the inbox with exactly one of a receipt and a reason, and
\* with the receipt just when every record of it could be applied.
Receipts ==
  \A b \in Settled :
    /\ (b \in doneDir) = (content[b].kind # "malformed" /\ Invalid(b) = {})
    /\ (b \in failedDir \cup purged) = (b \notin doneDir)

\* The ledger on disk names the date of every newspaper record that is live:
\* a death of the daemon can leave an extra date, never a missing one.
LedgerCovers == \A i \in Live(store) : store[i].date \in ledgerFile \cup {NoDate}

\* Every batch leaves the inbox, whatever was deferred, refused or lost in
\* between.
BatchesSettle == \A b \in 1..MaxBatches : b \in inbox ~> b \notin inbox

\* The items of an expired issue do not stay live, as long as the ledger is one to
\* be relied on: neither on disk nor as the drain has read it is an item's date missing.
LedgerRead == loaded => \A i \in Live(store) : store[i].date \in ledger \cup {NoDate}
ExpiredArchived ==
  [](LedgerCovers /\ LedgerRead) =>
    \A i \in Ids : (i \in Live(store) /\ store[i].date \in expired)
                     ~> ~(i \in Live(store) /\ store[i].date \in expired)
=============================================================================
