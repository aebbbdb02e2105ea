----------------------------- MODULE DrainProofs -----------------------------
(***************************************************************************)
(* Theorems about Drain, for any batches, ids, dates and bounds, and under *)
(* the faults each names: types, exact receipts, a ledger on disk that     *)
(* misses no live item, a store that changes in enqueue order, and batches *)
(* that leave, however often they are replayed, what one application does. *)
(*                                                                         *)
(* DrainInv is one inductive invariant for the first four. Its parts       *)
(* depend on each other (a write under way has a date the ledger on disk   *)
(* has because the batch in hand was tracked, and saved, before its first  *)
(* record), and each is claimed under the faults that leave it true.       *)
(*                                                                         *)
(* The last rests on two more: HandInv, that one batch at a time is being  *)
(* replayed, and ConvInv, how far the store may then be from the clean     *)
(* one: per id, either as the records passed so far leave it, or as the    *)
(* record in hand does, or (what no record has written yet) as an earlier  *)
(* attempt at the batch did.  From these, and from RetireInv (retention    *)
(* works on what has expired), Drain implements AtomicBatches.             *)
(***************************************************************************)
EXTENDS Drain, SequenceTheorems, WellFoundedInduction, TLAPS

\* The drain waits for a job, or is about to submit the next archiving one.
Asking == {"wait", "archive"}

\* Where the drain's thread is.
Places == {"idle", "scan", "unreadable", "quarantined", "begin", "save", "apply", "wait",
           "archive", "remove", "retain", "source", "tidy"}

\* A batch is in hand; it may be waiting for one of its jobs.
Applying == pc \in {"begin", "save", "apply", "remove"} \/ (pc \in Asking /\ issue = NoDate)

\* A file that is no batch is in hand.
Failing == pc \in {"unreadable", "quarantined"}

\* Retention is at work.
Expiring == pc \in {"retain", "source", "tidy"} \/ (pc \in Asking /\ issue # NoDate)

\* A batch file that is one.
Readable(b) == content[b].kind # "malformed"

\* A batch every record of which is valid.
Applicable(b) == Readable(b) /\ Invalid(b) = {}

\* A record of a batch is valid.
Valid(b, n) == content[b].records[n].valid

\* The batches are in the spool's directories, and the pass works on them.
BatchTypes ==
  /\ content \in Seq(Shapes) /\ Len(content) <= MaxBatches
  /\ inbox \subseteq Positions /\ doneDir \subseteq Positions /\ failedDir \subseteq Positions
  /\ purged \subseteq Positions /\ todo \subseteq Positions /\ refused \subseteq Positions
  /\ batch \in Positions \cup {0} /\ begun \in Positions \cup {0}

\* The ledger, the dates that expire and the issue in hand are dates.
DateTypes ==
  /\ ledgerFile \subseteq Dates /\ ledger \subseteq Dates /\ expiring \subseteq Dates
  /\ expired \subseteq Dates
  /\ issue \in Dates \cup {NoDate}

\* The store holds records.
StoreTypes == store \in Stores /\ base \in Stores

\* Places, flags and counts.
PlainTypes ==
  /\ pc \in Places /\ worked \in BOOLEAN /\ tidied \in BOOLEAN /\ missed \in BOOLEAN
  /\ loaded \in BOOLEAN /\ backoff \in BOOLEAN /\ due \in BOOLEAN
  /\ crashes \in Nat /\ faults \in Nat

\* What retention has still to archive are ids.
TargetTypes == targets \subseteq Ids

\* The batch in hand is in the inbox and can be read; what is still to do is younger and in
\* the inbox; retention has no batch in hand; no pass runs without a ledger in memory.
PlaceInv ==
  /\ Applying \/ Failing => batch \in inbox
  /\ Applying => Readable(batch)
  /\ pc = "idle" \/ Expiring => todo = {} /\ batch = 0
  /\ (issue # NoDate => pc \in Asking \cup {"source"}) /\ (pc = "source" => issue # NoDate)
  /\ ~loaded => pc = "idle"
  /\ todo \subseteq inbox /\ \A x \in todo : batch < x

\* A cursor is within its batch; the record that waits for a job is a valid one.
CursorInv ==
  /\ cursor \in [1..MaxBatches -> Nat]
  /\ \A b \in Positions : cursor[b] <= Len(content[b].records)
  /\ \A b \in 1..MaxBatches : b \notin Positions => cursor[b] = 0
  /\ pc \in Asking /\ issue = NoDate =>
       cursor[batch] < Len(content[batch].records) /\ Valid(batch, cursor[batch] + 1)

\* The job the drain waits for is one of those submitted, and each carries what its
\* operation works on.
JobInv ==
  /\ awaited \in Slots \cup {0} /\ (awaited # 0 <=> pc = "wait")
  /\ slots \in [Slots -> Jobs \cup {NoJob}]
  /\ pc = "wait" => slots[awaited] # NoJob
  /\ \A k \in Slots : slots[k] # NoJob =>
       /\ slots[k].arg \in Args(slots[k].op)
       /\ slots[k].op = "ingest" =>
            slots[k].arg.op = "ingest" /\ slots[k].arg.id \in Ids /\ slots[k].arg.text \in Texts

\* A job that is not waited for is over.
SoleInv == \A k \in Slots : slots[k] # NoJob => k = awaited

\* A batch with a receipt is applicable; one with a reason is not; a batch is refused just
\* when an invalid record of it has been passed.
ReceiptInv ==
  /\ \A b \in doneDir : Applicable(b)
  /\ \A b \in failedDir \cup purged : ~Applicable(b)
  /\ Settled \subseteq doneDir \cup failedDir \cup purged
  /\ pc = "quarantined" => batch \in failedDir
  /\ pc = "remove" => batch \in doneDir \cup failedDir
  /\ Failing => ~Readable(batch)
  /\ \A b \in Positions : b \in refused <=> \E n \in 1..cursor[b] : ~Valid(b, n)

\* The dates of the batch in hand are in the ledger in memory.
Tracking == pc \in {"save", "apply", "remove"} \cup Asking

\* A date in the ledger in memory, or none.
Known(d) == d \in ledger \cup {NoDate}

\* The ledger on disk has every live item's date; so has the one in memory once it is
\* loaded, and memory is ahead of disk only until it is saved.
DatesInv ==
  /\ LedgerCovers
  /\ loaded => \A i \in Live(store) : Known(store[i].date)
  /\ loaded /\ pc # "save" => ledger \subseteq ledgerFile

\* The ledger in memory has the dates of every batch begun, the one in hand among them, and
\* of every write under way; a batch begun is in hand or still to do in its pass.
TrackInv ==
  /\ ~loaded => \A b \in 1..MaxBatches : cursor[b] = 0
  /\ \A b \in inbox : content[b].kind = "ingest" /\ (cursor[b] > 0 \/ (b = batch /\ Tracking))
       => Dated(b) \subseteq ledger
  /\ pc # "idle" => \A b \in inbox : cursor[b] > 0 => b \in todo \cup {batch}
  /\ pc = "scan" => batch \notin inbox
  /\ \A k \in Slots : slots[k] # NoJob /\ slots[k].op = "ingest" => issue = NoDate
       /\ Known(slots[k].arg.date)

\* What is still live of the issue retention has in hand is in the list it works on.
ExpireInv ==
  /\ issue # NoDate /\ pc = "archive" /\ ~missed => Issue(store, issue) \subseteq targets
  /\ issue # NoDate /\ pc = "wait" =>
       LET j == slots[awaited] IN
       \/ /\ j.op = "list" /\ j.arg = issue
          /\ j.status = "ok" => Issue(store, issue) \subseteq j.found
       \/ /\ j.op = "archive"
          /\ j.status = "queued" /\ ~missed => Issue(store, issue) \subseteq targets \cup {j.arg}
          /\ j.status = "ok" /\ ~missed => Issue(store, issue) \subseteq targets

\* A batch in the inbox is younger than every settled one, and one that is neither in hand
\* nor to do is younger than those that are; a write under way is the batch's in hand.
OrderInv ==
  /\ \A b \in inbox : Readable(b) => \A s \in Settled : s < b
  /\ pc # "idle" => \A b \in inbox : Readable(b) =>
       b \in todo \/ (b = batch /\ pc # "scan") \/ (\A x \in todo \cup {batch} : x < b)
  /\ \A k \in Slots : slots[k] # NoJob /\ slots[k].op = "ingest" => issue = NoDate
       /\ slots[k].by = batch

\* What a promise may presume of the faults. A batch file can be read whenever it is there.
FilesReadable == "read" \notin Faults

\* A job ends before its deadline.
JobsInTime == "slow" \notin Faults

\* Files can be written, the ledger can be read, and jobs end in time.
LedgerKept == JobsInTime /\ "write" \notin Faults /\ "ledger" \notin Faults

\* Jobs end in time, and a file that cannot be read can be moved.
OlderFirst == JobsInTime /\ ("read" \notin Faults \/ "write" \notin Faults)

\* What holds under every fault.
TypeInv == BatchTypes /\ DateTypes /\ StoreTypes /\ PlainTypes /\ TargetTypes /\ PlaceInv
           /\ CursorInv /\ JobInv

\* The inductive invariant: the types, and each promise under the faults it allows.
DrainInv ==
  /\ TypeInv
  /\ FilesReadable => ReceiptInv
  /\ JobsInTime => SoleInv
  /\ LedgerKept => DatesInv /\ TrackInv /\ ExpireInv
  /\ OlderFirst => OrderInv

\* The parts of the invariant.
LEMMA Parts ==
  ASSUME DrainInv
  PROVE  /\ BatchTypes /\ DateTypes /\ StoreTypes /\ PlainTypes /\ TargetTypes
         /\ PlaceInv /\ CursorInv /\ JobInv
         /\ (FilesReadable => ReceiptInv) /\ (JobsInTime => SoleInv)
         /\ (LedgerKept => DatesInv /\ TrackInv /\ ExpireInv) /\ (OlderFirst => OrderInv)
  BY DEF DrainInv, TypeInv

\* A set of numbers has a least element, which is the one the pass takes first.
LEMMA LeastIs ==
  ASSUME NEW S \in SUBSET Nat, S # {}
  PROVE  Least(S) \in S /\ \A y \in S : Least(S) <= y
<1>1. \E x \in S : \A y \in S : ~ (<<y, x>> \in OpToRel(<, Nat))
  BY NatLessThanWellFounded, WFMin
<1>2. \A x, y \in Nat : x < y => <<x, y>> \in OpToRel(<, Nat)
  BY Zenon DEF OpToRel
<1>3. PICK x \in S : \A y \in S : ~ (y < x)
  BY <1>1, <1>2
<1>4. \A y \in S : x <= y
  BY <1>3
<1> QED BY <1>4 DEF Least

\* What the types say of batches and their positions.
LEMMA BatchFacts ==
  ASSUME BatchTypes
  PROVE  /\ Len(content) \in Nat /\ Positions \subseteq Nat \ {0}
         /\ Positions \subseteq 1..MaxBatches
         /\ \A b \in Positions : content[b] \in Shapes /\ content[b].kind \in Kinds
              /\ content[b].records \in Seq(Records) /\ Len(content[b].records) \in Nat
              /\ DOMAIN content[b].records = 1..Len(content[b].records)
<1>1. Len(content) \in Nat /\ \A b \in 1..Len(content) : content[b] \in Shapes
  BY LenProperties, ElementOfSeq DEF BatchTypes
<1>2. \A s \in Shapes : s.kind \in Kinds /\ s.records \in Seq(Records) /\ Len(s.records) \in Nat
                        /\ DOMAIN s.records = 1..Len(s.records)
  BY DrainAssumption, LenProperties
<1> QED BY <1>1, DrainAssumption DEF BatchTypes, Positions

\* A record of a batch is of its batch's kind, and its date one of the batch's.
LEMMA RecordIs ==
  ASSUME BatchTypes, NEW b \in Positions, NEW n \in 1..Len(content[b].records)
  PROVE  LET r == content[b].records[n] IN
         /\ r \in Records
         /\ \/ r.op = "ingest" /\ content[b].kind = "ingest" /\ r.id \in Ids /\ r.text \in Texts
               /\ (r.date = NoDate \/ r.date \in Dated(b))
            \/ r.op = "forget" /\ r.id \in Ids
            \/ r.op = "forgetSource" /\ r.date \in Dates
<1>1. content[b] \in Shapes /\ n \in DOMAIN content[b].records
      /\ content[b].records \in Seq(Records)
  BY BatchFacts
<1>2. content[b].records[n] \in Records
  BY <1>1, ElementOfSeq
<1>3. content[b].records[n].date \in {content[b].records[m].date : m \in DOMAIN content[b].records}
  BY <1>1
<1> QED BY <1>1, <1>2, DrainAssumption DEF Dated

\* The dates of a batch are dates.
LEMMA DatedAre == ASSUME BatchTypes, NEW b \in Positions PROVE Dated(b) \subseteq Dates
<1> SUFFICES ASSUME NEW n \in DOMAIN content[b].records, content[b].records[n].date # NoDate
             PROVE  content[b].records[n].date \in Dates
  BY DEF Dated
<1>1. n \in 1..Len(content[b].records)
  BY BatchFacts
<1>2. content[b].records[n] \in Records
  BY <1>1, RecordIs
<1> QED BY <1>2 DEF Records

\* The store t comes from s with no live record but s's and r, which b wrote.
Enters(s, t, r, b) ==
  \A i \in Live(t) : (i \in Live(s) /\ t[i] = s[i])
    \/ (i = r.id /\ t[i].date = r.date /\ t[i].by = b)

\* Archiving makes no record live, and takes those named from the live ones.
LEMMA ArchivedIs ==
  ASSUME NEW s \in Stores, NEW ids
  PROVE  /\ Archived(s, ids) \in Stores
         /\ \A i \in Ids :
              \/ /\ i \in Live(s) /\ i \notin ids
                 /\ i \in Live(Archived(s, ids)) /\ Archived(s, ids)[i] = s[i]
              \/ /\ i \notin Live(Archived(s, ids))
                 /\ i \notin Live(s) => Archived(s, ids)[i] = s[i]
<1> DEFINE t == Archived(s, ids)
<1>1. ASSUME NEW i \in Ids
      PROVE  /\ t[i] \in Entries \cup {Absent}
             /\ \/ i \in Live(s) /\ i \notin ids /\ i \in Live(t) /\ t[i] = s[i]
                \/ i \notin Live(t) /\ (i \notin Live(s) => t[i] = s[i])
  <2>0. t[i] = IF i \in ids \cap Live(s) THEN [s[i] EXCEPT !.life = "archived"] ELSE s[i]
    BY DEF Archived
  <2>1. CASE i \in ids \cap Live(s)
    <3>1. s[i] \in Entries
      BY <2>1 DEF Live, Stored, Stores
    <3>2. t[i] = [s[i] EXCEPT !.life = "archived"]
      BY <2>0, <2>1
    <3>3. t[i] \in Entries /\ t[i].life = "archived"
      BY <3>1, <3>2 DEF Entries
    <3> HIDE DEF t
    <3> QED BY <2>1, <3>3 DEF Live
  <2>2. CASE i \notin ids \cap Live(s)
    <3>1. t[i] = s[i]
      BY <2>0, <2>2
    <3> HIDE DEF t
    <3> QED BY <2>2, <3>1 DEF Live, Stored, Stores
  <2> QED BY <2>1, <2>2
<1>2. t = [i \in Ids |-> t[i]]
  BY DEF Archived
<1> QED BY <1>1, <1>2 DEF Stores

\* An upsert changes one record of the store.
LEMMA UpsertedIs ==
  ASSUME NEW s \in Stores, NEW r \in Records, NEW b \in Nat, r.id \in Ids, r.text \in Texts
  PROVE  LET t == Upserted(s, r, b) IN
         /\ t \in Stores /\ t[r.id].date = r.date /\ t[r.id].by = b
         /\ \A i \in Ids : i # r.id => t[i] = s[i]
<1> DEFINE e == [life |-> "live", text |-> r.text, date |-> r.date, by |-> b]
<1>1. e \in Entries /\ e.date = r.date /\ e.by = b
  BY DEF Entries, Records
<1>2. Upserted(s, r, b) = [s EXCEPT ![r.id] = e]
  BY DEF Upserted
<1> HIDE DEF e
<1> QED BY <1>1, <1>2 DEF Stores

\* Ingesting a record, whatever it collapses into or supersedes, brings at most that record
\* to life.
LEMMA IngestedIs ==
  ASSUME NEW s \in Stores, NEW r \in Records, NEW b \in Nat, r.id \in Ids, r.text \in Texts
  PROVE  /\ Ingested(s, r, b) \in Stores /\ Enters(s, Ingested(s, r, b), r, b)
         /\ Upserted(s, r, b) \in Stores /\ Enters(s, Upserted(s, r, b), r, b)
<1> DEFINE w == Upserted(s, r, b)
           t == Ingested(s, r, b)
<1>1. w \in Stores /\ w[r.id].date = r.date /\ w[r.id].by = b
      /\ \A i \in Ids : i # r.id => w[i] = s[i]
  BY UpsertedIs
<1>2. t = s \/ t = [w EXCEPT ![r.supersedes] = Absent] \/ t = Archived(w, {r.supersedes} \ {r.id})
  BY DEF Ingested
<1> HIDE DEF w, t
<1>3. Enters(s, w, r, b)
  BY <1>1 DEF Enters, Live, Stored
<1>4. ASSUME t = s PROVE t \in Stores /\ Enters(s, t, r, b)
  BY <1>4 DEF Enters
<1>5. ASSUME t = [w EXCEPT ![r.supersedes] = Absent] PROVE t \in Stores /\ Enters(s, t, r, b)
  <2>1. t \in Stores /\ \A i \in Ids : t[i] = Absent \/ t[i] = w[i]
    BY <1>1, <1>5 DEF Stores
  <2>2. \A i \in Live(t) : i \in Live(w) /\ t[i] = w[i]
    BY <2>1 DEF Live, Stored
  <2> QED BY <1>3, <2>1, <2>2 DEF Enters
<1>6. ASSUME t = Archived(w, {r.supersedes} \ {r.id}) PROVE t \in Stores /\ Enters(s, t, r, b)
  <2>1. t \in Stores /\ \A i \in Ids : (i \in Live(w) /\ t[i] = w[i]) \/ i \notin Live(t)
    BY <1>1, <1>6, ArchivedIs
  <2>2. \A i \in Live(t) : i \in Live(w) /\ t[i] = w[i]
    BY <2>1 DEF Live, Stored
  <2> QED BY <1>3, <2>1, <2>2 DEF Enters
<1> QED BY <1>1, <1>2, <1>3, <1>4, <1>5, <1>6 DEF w, t

\* So does ingesting half of it.
LEMMA PartialIs ==
  ASSUME NEW s \in Stores, NEW r \in Records, NEW b \in Nat, r.id \in Ids, r.text \in Texts,
         NEW t \in Partial(s, r, b)
  PROVE  t \in Stores /\ Enters(s, t, r, b)
<1>1. t = s \/ t = Upserted(s, r, b)
  BY DEF Partial
<1> QED BY <1>1, IngestedIs DEF Enters

\* In time, there is no job unless the drain waits for one.
LEMMA NoneAsked == ASSUME DrainInv, JobsInTime, pc # "wait" PROVE \A k \in Slots : slots[k] = NoJob
<1>1. JobInv /\ SoleInv
  BY DEF DrainInv, TypeInv
<1>2. 0 \notin Slots
  BY DEF Slots
<1> QED BY <1>1, <1>2 DEF JobInv, SoleInv

\* A ledger that is kept needs jobs that end in time.
LEMMA KeptInTime == LedgerKept => JobsInTime
  BY DEF LedgerKept

\* Batches are numbered from one.
LEMMA Numbers ==
  ASSUME BatchTypes
  PROVE  /\ Positions \subseteq Nat \ {0} /\ Positions \subseteq 1..MaxBatches
         /\ inbox \subseteq Positions /\ todo \subseteq Positions /\ batch \in Nat
         /\ \A b \in inbox : 0 < b /\ b \in Nat
         /\ 0 \notin Positions /\ 0 \notin inbox /\ batch \in Positions \cup {0}
  BY BatchFacts DEF BatchTypes

\* The pass, or what retention does of it, ends.
Leaves ==
  /\ pc' \in {"idle", "tidy"} /\ (pc' = "tidy" => issue # NoDate) /\ todo' = {} /\ batch' = 0
  /\ issue' = NoDate /\ expiring' = {} /\ targets' = {} /\ awaited' = 0
  /\ worked' \in BOOLEAN /\ tidied' \in BOOLEAN /\ missed' \in BOOLEAN

\* The cursor of the batch in hand moves on.
Forward ==
  /\ batch \in Positions /\ batch \in 1..MaxBatches /\ cursor[batch] \in Nat
  /\ cursor[batch] + 1 \in 1..Len(content[batch].records) /\ cursor'[batch] = cursor[batch] + 1
  /\ cursor' \in [1..MaxBatches -> Nat] /\ \A b \in 1..MaxBatches : b # batch
       => cursor'[b] = cursor[b]

\* Counting the record in hand keeps the cursors.
LEMMA CursorMoves ==
  ASSUME BatchTypes, CursorInv, batch \in Positions, cursor[batch] < Len(content[batch].records),
         cursor' = [cursor EXCEPT ![batch] = @ + 1]
  PROVE  Forward
<1>1. batch \in 1..MaxBatches /\ cursor[batch] \in Nat /\ Len(content[batch].records) \in Nat
  BY BatchFacts DEF CursorInv
<1> QED BY <1>1 DEF Forward, CursorInv

\* What EndPass does is to leave.
LEMMA EndPassLeaves == ASSUME EndPass PROVE Leaves
  BY DEF EndPass, Leaves

\* Jobs are let go.
Drops == slots' \in [Slots -> Jobs \cup {NoJob}] /\ \A k \in Slots : slots'[k] \in {slots[k], NoJob}

\* A job that was just submitted for the batch in hand.
Job(op, arg) == [by |-> batch, op |-> op, arg |-> arg, status |-> "queued", found |-> {}]
JobIs(j, op, arg) ==
  j \in Jobs /\ j # NoJob /\ j.op = op /\ j.arg = arg /\ j.by = batch /\ j.status = "queued"
    /\ j.found = {}

\* A job that is submitted is one.
LEMMA JobAsked ==
  ASSUME NEW op \in Ops, NEW arg \in Args(op), batch \in Nat PROVE JobIs(Job(op, arg), op, arg)
<1>1. arg \in Records \cup Ids \cup Dates
  BY DEF Ops, Args
<1>2. Job(op, arg) \in Jobs
  BY <1>1 DEF Job, Jobs, Ops
<1>3. /\ Job(op, arg).op = op /\ Job(op, arg).arg = arg /\ Job(op, arg).by = batch
      /\ Job(op, arg).status = "queued" /\ Job(op, arg).found = {}
  BY DEF Job
<1> QED BY <1>2, <1>3, DrainAssumption DEF JobIs

\* The executor runs the job of slot k: what it leaves of the store, and of the slot.
Runs(k) ==
  /\ slots[k] \in Jobs /\ slots[k] # NoJob /\ store' \in Stores
  /\ slots' \in [Slots -> Jobs \cup {NoJob}] /\ \A m \in Slots : m # k => slots'[m] = slots[m]
  /\ IF k = awaited
     THEN /\ slots'[k] # NoJob /\ slots'[k].op = slots[k].op
          /\ slots'[k].arg = slots[k].arg /\ slots'[k].by = slots[k].by
          /\ slots'[k].status \in {"ok", "error"} /\ slots[k].status = "queued"
          /\ slots'[k].status = "ok" /\ slots[k].op = "list"
               => slots'[k].found = Issue(store, slots[k].arg)
          /\ slots'[k].status = "ok" /\ slots[k].op = "archive" => slots[k].arg \notin Live(store')
     ELSE slots'[k] = NoJob
  /\ IF slots[k].op = "ingest" THEN Enters(store, store', slots[k].arg, slots[k].by)
     ELSE \A i \in Live(store') : i \in Live(store) /\ store'[i] = store[i]
  /\ slots[k].op = "list" => store' = store

\* Running a job does to the store and to its slot what Runs says.
LEMMA RunJobRuns ==
  ASSUME StoreTypes, JobInv, NEW k \in Slots, RunJob(k)
  PROVE  Runs(k)
<1> DEFINE j == slots[k]
<1>1. j \in Jobs /\ j # NoJob /\ j.arg \in Args(j.op) /\ j.op \in {"ingest", "archive", "list"}
      /\ j.by \in Nat
      /\ (j.op = "ingest" => j.arg \in Records /\ j.arg.id \in Ids /\ j.arg.text \in Texts)
           /\ j.status = "queued"
  BY DEF JobInv, RunJob, Jobs, Args
<1> DEFINE Put(status, found) == IF k = awaited
                                 THEN slots' = [slots EXCEPT ![k].status = status,
                                   ![k].found = found]
                                 ELSE slots' = [slots EXCEPT ![k] = NoJob]
           Found == IF j.op = "list" THEN Issue(store, j.arg) ELSE {}
           Done  == CASE j.op = "ingest"  -> Ingested(store, j.arg, j.by)
                      [] j.op = "archive" -> Archived(store, {j.arg})
                      [] j.op = "list"    -> store
           Undone == IF j.op = "ingest" THEN store' \in Partial(store, j.arg,
                       j.by) ELSE UNCHANGED store
<1>2. PICK status \in {"ok", "error"}, found \in SUBSET Ids :
        /\ Put(status, found) /\ (status = "ok" /\ j.op = "list" => found = Issue(store, j.arg))
        /\ (status = "ok" /\ store' = Done) \/ (status = "error" /\ Undone)
  <2>1. Found \in SUBSET Ids /\ (j.op = "list" => Found = Issue(store, j.arg))
    BY DEF Issue, Live, Stored
  <2>2. (store' = Done /\ Put("ok", Found)) \/ (Undone /\ Put("error", {}))
    BY DEF RunJob
  <2> HIDE DEF Put, Found, Done, Undone, j
  <2> QED BY <2>1, <2>2
<1> HIDE DEF j
<1>3. /\ store' \in Stores
      /\ IF j.op = "ingest" THEN Enters(store, store', j.arg, j.by)
         ELSE \A i \in Live(store') : i \in Live(store) /\ store'[i] = store[i]
      /\ j.op = "list" => store' = store
      /\ status = "ok" /\ j.op = "archive" => j.arg \notin Live(store')
  <2>1. CASE j.op = "ingest"
    BY <1>1, <1>2, <2>1, IngestedIs, PartialIs DEF StoreTypes
  <2>2. CASE j.op = "archive"
    <3>1. (store' = Archived(store, {j.arg}) /\ status = "ok")
          \/ (store' = store /\ status = "error")
      BY <1>2, <2>2
    <3>2. Live(store') \subseteq Ids
      BY DEF Live, Stored
    <3> QED BY <3>1, <3>2, <2>2, ArchivedIs DEF StoreTypes
  <2>3. CASE j.op = "list"
    BY <1>2, <2>3 DEF StoreTypes
  <2> QED BY <1>1, <2>1, <2>2, <2>3
<1>4. ASSUME k = awaited
      PROVE  /\ slots'[k] \in Jobs /\ slots'[k].op = j.op /\ slots'[k].arg = j.arg
             /\ slots'[k].by = j.by
             /\ slots'[k].status = status /\ slots'[k].found = found
                  /\ \A m \in Slots : m # k => slots'[m] = slots[m]
             /\ slots' \in [Slots -> Jobs \cup {NoJob}]
  <2> DEFINE new == [j EXCEPT !.status = status, !.found = found]
  <2>1. slots' = [slots EXCEPT ![k] = new]
    BY <1>2, <1>4 DEF j
  <2>2. new \in Jobs /\ new.op = j.op /\ new.arg = j.arg /\ new.by = j.by /\ new.status = status
        /\ new.found = found
    BY <1>1 DEF Jobs
  <2> HIDE DEF new
  <2> QED BY <2>1, <2>2 DEF JobInv
<1>5. ASSUME k # awaited
      PROVE  slots'[k] = NoJob /\ slots' \in [Slots -> Jobs \cup {NoJob}]
             /\ \A m \in Slots : m # k => slots'[m] = slots[m]
  BY <1>2, <1>5 DEF JobInv
<1>6. \A x \in Jobs : x # NoJob
  BY DrainAssumption
<1> QED BY <1>1, <1>2, <1>3, <1>4, <1>5, <1>6 DEF Runs, j

\* Loading the ledger: memory has what disk has, or, unreadable, nothing.
LEMMA LoadLedgerKeeps ==
  ASSUME DrainInv, LoadLedger
  PROVE  DrainInv'
<1>1. /\ UNCHANGED <<content, inbox, doneDir, failedDir, ledgerFile, purged, store, pc, todo, batch,
                     worked, issue, expiring, tidied, targets, missed, awaited, cursor, refused,
                     backoff, due, slots, expired, crashes, begun, base>>
      /\ Positions' = Positions /\ pc = "idle" /\ ~loaded /\ loaded' = TRUE /\ faults' \in Nat
      /\ ledger' = ledgerFile \/ (ledger' = {} /\ "ledger" \in Faults)
  BY Parts DEF LoadLedger, Positions, disk, inHand, retain, job, kept, dates, outside, origin,
     Fault, NoFault, PlainTypes
<1>2. BatchTypes'
  BY Parts, <1>1 DEF BatchTypes, Positions
<1>3. DateTypes'
  BY Parts, <1>1 DEF DateTypes
<1>4. StoreTypes'
  BY Parts, <1>1 DEF StoreTypes
<1>5. PlainTypes'
  BY Parts, <1>1 DEF PlainTypes, Places
<1>6. TargetTypes'
  BY Parts, <1>1 DEF TargetTypes
<1>7. PlaceInv'
  BY Parts, <1>1 DEF PlaceInv, Applying, Failing, Asking
<1>8. CursorInv'
  BY Parts, <1>1 DEF CursorInv, Valid
<1>9. JobInv'
  BY Parts, <1>1 DEF JobInv
<1>10. ASSUME FilesReadable PROVE ReceiptInv'
  BY Parts, <1>1, <1>10 DEF ReceiptInv, Applicable, Readable, Invalid, Settled, Failing, Valid
<1>11. ASSUME JobsInTime PROVE SoleInv'
  BY Parts, <1>1, <1>11 DEF SoleInv
<1>12. ASSUME LedgerKept PROVE DatesInv'
  BY Parts, <1>1, <1>12 DEF DatesInv, LedgerCovers, Known, LedgerKept
<1>13. ASSUME LedgerKept PROVE TrackInv'
  BY Parts, <1>1, <1>13, Numbers, NoneAsked DEF TrackInv, Tracking, Known, Dated, Asking, LedgerKept
<1>14. ASSUME LedgerKept PROVE ExpireInv'
  BY Parts, <1>1, <1>14 DEF ExpireInv
<1>15. ASSUME OlderFirst PROVE OrderInv'
  BY Parts, <1>1, <1>15 DEF OrderInv, Settled, Readable
<1> QED BY <1>2, <1>3, <1>4, <1>5, <1>6, <1>7, <1>8, <1>9, <1>10, <1>11, <1>12, <1>13, <1>14, <1>15
           DEF DrainInv, TypeInv

\* A pass begins with what is in the inbox, and forgets the cursors of the rest.
LEMMA StartPassKeeps ==
  ASSUME DrainInv, StartPass
  PROVE  DrainInv'
<1>1. /\ UNCHANGED <<content, inbox, doneDir, failedDir, ledgerFile, purged, store, batch, worked,
                     issue, expiring, tidied, targets, missed, awaited, ledger, loaded, backoff,
                     due, slots, expired, crashes, begun, base>>
      /\ Positions' = Positions /\ pc = "idle" /\ loaded /\ pc' = "scan" /\ faults' \in Nat
      /\ todo' \in {inbox, {}}
      /\ cursor' \in [1..MaxBatches -> Nat]
           /\ \A b \in 1..MaxBatches : cursor'[b] = IF b \in todo' THEN cursor[b] ELSE 0
      /\ refused' = refused \cap todo'
  BY Parts DEF StartPass, CursorInv, Positions, disk, inHand, retain, job, kept, dates, outside,
     origin, Fault, NoFault, PlainTypes
<1>2. BatchTypes'
  BY Parts, <1>1, Numbers DEF BatchTypes
<1>3. DateTypes'
  BY Parts, <1>1 DEF DateTypes
<1>4. StoreTypes'
  BY Parts, <1>1 DEF StoreTypes
<1>5. PlainTypes'
  BY Parts, <1>1 DEF PlainTypes, Places
<1>6. TargetTypes'
  BY Parts, <1>1 DEF TargetTypes
<1>7. PlaceInv'
  BY Parts, <1>1, Numbers, BatchFacts DEF PlaceInv, Applying, Failing, Expiring, Asking
<1>8. CursorInv'
  BY Parts, <1>1, Numbers DEF CursorInv, Asking
<1>9. JobInv'
  BY Parts, <1>1 DEF JobInv
<1>10. ASSUME FilesReadable PROVE ReceiptInv'
  BY Parts, <1>1, <1>10, Numbers, BatchFacts DEF ReceiptInv, Applicable, Readable, Invalid, Settled,
     Failing, Valid
<1>11. ASSUME JobsInTime PROVE SoleInv'
  BY Parts, <1>1, <1>11 DEF SoleInv
<1>12. ASSUME LedgerKept PROVE DatesInv'
  BY Parts, <1>1, <1>12 DEF DatesInv, LedgerCovers, Known
<1>13. ASSUME LedgerKept PROVE TrackInv'
  BY Parts, <1>1, <1>13, Numbers, NoneAsked, KeptInTime, DrainAssumption DEF TrackInv, Tracking,
     Known, Dated, PlaceInv
<1>14. ASSUME LedgerKept PROVE ExpireInv'
  BY Parts, <1>1, <1>14 DEF ExpireInv
<1>15. ASSUME OlderFirst PROVE OrderInv'
  BY Parts, <1>1, <1>15, Numbers DEF OrderInv, Settled, Readable, PlaceInv
<1> QED BY <1>2, <1>3, <1>4, <1>5, <1>6, <1>7, <1>8, <1>9, <1>10, <1>11, <1>12, <1>13, <1>14, <1>15
           DEF DrainInv, TypeInv

\* The oldest batch still to do is in hand, or left for another pass.
LEMMA LoadKeeps ==
  ASSUME DrainInv, Load
  PROVE  DrainInv'
<1>1. /\ UNCHANGED <<content, inbox, doneDir, failedDir, ledgerFile, purged, store, worked, issue,
                     expiring, tidied, targets, missed, awaited, cursor, refused, ledger, loaded,
                     backoff, due, slots, expired, crashes, begun, base>>
      /\ Positions' = Positions /\ pc = "scan" /\ todo # {} /\ batch' = Least(todo)
      /\ todo' = todo \ {batch'} /\ faults' \in Nat
      /\ \/ content[batch'].kind = "malformed" /\ pc' = "unreadable"
         \/ content[batch'].kind # "malformed" /\ pc' = "begin"
         \/ content[batch'].kind # "malformed" /\ pc' = "unreadable" /\ "read" \in Faults
      /\ batch' \in todo /\ \A b \in todo : batch' <= b
  <2>1. batch' \in todo /\ \A b \in todo : batch' <= b
    <3>1. todo \in SUBSET Nat /\ todo # {} /\ batch' = Least(todo)
      BY Parts, BatchFacts DEF Load, BatchTypes
    <3> QED BY <3>1, LeastIs
  <2> QED BY Parts, <2>1 DEF Load, Positions, disk, inHand, retain, job, kept, dates, outside,
             origin, Fault, NoFault, PlainTypes
<1>2. BatchTypes'
  BY Parts, <1>1, Numbers DEF BatchTypes
<1>3. DateTypes'
  BY Parts, <1>1 DEF DateTypes
<1>4. StoreTypes'
  BY Parts, <1>1 DEF StoreTypes
<1>5. PlainTypes'
  BY Parts, <1>1 DEF PlainTypes, Places
<1>6. TargetTypes'
  BY Parts, <1>1 DEF TargetTypes
<1>7. PlaceInv'
  BY Parts, <1>1, Numbers, BatchFacts DEF PlaceInv, Applying, Expiring, Asking, Readable
<1>8. CursorInv'
  BY Parts, <1>1 DEF CursorInv, Asking
<1>9. JobInv'
  BY Parts, <1>1 DEF JobInv
<1>10. ASSUME FilesReadable PROVE ReceiptInv'
  BY Parts, <1>1, <1>10, Numbers, BatchFacts DEF ReceiptInv, Applicable, Readable, Invalid, Settled,
     Failing, Valid, FilesReadable
<1>11. ASSUME JobsInTime PROVE SoleInv'
  BY Parts, <1>1, <1>11 DEF SoleInv
<1>12. ASSUME LedgerKept PROVE DatesInv'
  BY Parts, <1>1, <1>12 DEF DatesInv, LedgerCovers, Known
<1>13. ASSUME LedgerKept PROVE TrackInv'
  BY Parts, <1>1, <1>13, Numbers, BatchFacts DEF TrackInv, Tracking, Known, Dated, Asking
<1>14. ASSUME LedgerKept PROVE ExpireInv'
  BY Parts, <1>1, <1>14 DEF ExpireInv
<1>15. ASSUME OlderFirst PROVE OrderInv'
  BY Parts, <1>1, <1>15, Numbers, NoneAsked DEF OrderInv, Settled, Readable, PlaceInv, OlderFirst
<1> QED BY <1>2, <1>3, <1>4, <1>5, <1>6, <1>7, <1>8, <1>9, <1>10, <1>11, <1>12, <1>13, <1>14, <1>15
           DEF DrainInv, TypeInv

\* A file that is no batch is moved to failed/, or left in the inbox.
LEMMA QuarantineKeeps ==
  ASSUME DrainInv, Quarantine
  PROVE  DrainInv'
<1>1. /\ UNCHANGED <<content, doneDir, ledgerFile, purged, store, todo, batch, worked, issue,
                     expiring, tidied, targets, missed, awaited, cursor, refused, ledger, loaded,
                     backoff, due, slots, expired, crashes, begun, base>>
      /\ Positions' = Positions /\ faults' \in Nat
      /\ \/ pc = "unreadable" /\ failedDir' = failedDir \cup {batch} /\ pc' = "quarantined"
              /\ UNCHANGED inbox
         \/ pc = "unreadable" /\ UNCHANGED <<inbox, failedDir>> /\ pc' = "scan"
              /\ "write" \in Faults
         \/ pc = "quarantined" /\ pc' = "scan" /\ inbox' = inbox \ {batch} /\ UNCHANGED failedDir
         \/ pc = "quarantined" /\ pc' = "scan" /\ UNCHANGED <<inbox, failedDir>>
              /\ "write" \in Faults
  BY Parts DEF Quarantine, Positions, disk, inHand, retain, job, kept, dates, outside, origin,
     Fault, NoFault, PlainTypes
<1>2. BatchTypes'
  BY Parts, <1>1 DEF BatchTypes, PlaceInv, Failing
<1>3. DateTypes'
  BY Parts, <1>1 DEF DateTypes
<1>4. StoreTypes'
  BY Parts, <1>1 DEF StoreTypes
<1>5. PlainTypes'
  BY Parts, <1>1 DEF PlainTypes, Places
<1>6. TargetTypes'
  BY Parts, <1>1 DEF TargetTypes
<1>7. PlaceInv'
  BY Parts, <1>1, Numbers, BatchFacts DEF PlaceInv, Applying, Failing, Expiring, Asking
<1>8. CursorInv'
  BY Parts, <1>1 DEF CursorInv, Asking
<1>9. JobInv'
  BY Parts, <1>1 DEF JobInv
<1>10. ASSUME FilesReadable PROVE ReceiptInv'
  BY Parts, <1>1, <1>10 DEF ReceiptInv, Applicable, Readable, Invalid, Settled, Failing, Valid
<1>11. ASSUME JobsInTime PROVE SoleInv'
  BY Parts, <1>1, <1>11 DEF SoleInv
<1>12. ASSUME LedgerKept PROVE DatesInv'
  BY Parts, <1>1, <1>12 DEF DatesInv, LedgerCovers, Known
<1>13. ASSUME LedgerKept PROVE TrackInv'
  BY Parts, <1>1, <1>13, Numbers, BatchFacts DEF TrackInv, Tracking, Known, Dated, Asking,
     LedgerKept
<1>14. ASSUME LedgerKept PROVE ExpireInv'
  BY Parts, <1>1, <1>14 DEF ExpireInv
<1>15. ASSUME OlderFirst PROVE OrderInv'
  <2>1. OrderInv /\ PlaceInv /\ BatchTypes /\ batch \in inbox /\ pc # "scan" /\ pc # "idle"
    BY Parts, <1>1, <1>15 DEF PlaceInv, Failing
  <2>2. ASSUME NEW b \in inbox', Readable(b) PROVE \A s \in Positions \ inbox' : s < b
    <3>1. CASE inbox' = inbox
      BY <2>1, <2>2, <3>1 DEF OrderInv, Settled
    <3>2. CASE inbox' = inbox \ {batch}
      <4>1. b \in inbox /\ b # batch
        BY <2>2, <3>2
      <4>2. batch < b
        BY <2>1, <2>2, <4>1 DEF OrderInv, PlaceInv
      <4> QED BY <2>1, <2>2, <3>2, <4>2 DEF OrderInv, Settled
    <3> QED BY <1>1, <3>1, <3>2
  <2>3. ASSUME NEW b \in inbox', Readable(b), pc' = "scan"
       PROVE  b \in todo \/ \A x \in todo \cup {batch} : x < b
    <3>1. b \in inbox
      BY <1>1, <2>3
    <3>2. CASE b = batch
      BY Parts, <1>1, <1>15, <2>3, <3>2 DEF OlderFirst, ReceiptInv, Failing, FilesReadable
    <3> QED BY <2>1, <2>3, <3>1, <3>2 DEF OrderInv
  <2> QED BY <1>1, <2>1, <2>2, <2>3 DEF OrderInv, Settled, Readable
<1> QED BY <1>2, <1>3, <1>4, <1>5, <1>6, <1>7, <1>8, <1>9, <1>10, <1>11, <1>12, <1>13, <1>14, <1>15
           DEF DrainInv, TypeInv

\* The dates of the batch enter the ledger in memory before its first record.
LEMMA BeginKeeps ==
  ASSUME DrainInv, Begin
  PROVE  DrainInv'
<1>1. /\ UNCHANGED <<content, inbox, doneDir, failedDir, ledgerFile, purged, store, todo, batch,
                     worked, issue, expiring, tidied, targets, missed, awaited, cursor, refused,
                     loaded, backoff, slots, expired, crashes, faults>>
      /\ Positions' = Positions /\ pc = "begin" /\ due' \in BOOLEAN /\ pc' \in {"apply", "save"}
      /\ begun' \in {begun, batch} /\ base' \in {base, store}
      /\ ledger' \subseteq Dates /\ ledger \subseteq ledger' /\ (pc' = "apply" => ledger' = ledger)
      /\ content[batch].kind = "ingest" /\ cursor[batch] = 0 => Dated(batch) \subseteq ledger'
  <2> DEFINE new == IF cursor[batch] = 0
    /\ content[batch].kind = "ingest" THEN Dated(batch) \ ledger ELSE {}
  <2>1. /\ pc = "begin" /\ ledger' = ledger \cup new /\ due' = (due \/ new \cap expired # {})
        /\ pc' = IF new = {} THEN "apply" ELSE "save"
        /\ IF batch > begun THEN begun' = batch /\ base' = store ELSE UNCHANGED <<begun, base>>
        /\ UNCHANGED <<disk, store, inHand, retain, job, kept, loaded, backoff, outside, faults>>
    BY DEF Begin, origin
  <2>2. new \subseteq Dates /\ (content[batch].kind = "ingest" /\ cursor[batch] = 0
          => Dated(batch) \subseteq ledger \cup new)
    <3>1. batch \in Positions
      BY Parts, <2>1 DEF PlaceInv, Applying, BatchTypes
    <3>2. Dated(batch) \subseteq Dates
      BY Parts, <3>1, DatedAre
    <3> QED BY <3>2
  <2> HIDE DEF new
  <2> QED BY Parts, <2>1, <2>2 DEF Positions, disk, inHand, retain, job, kept, outside, DateTypes
<1>2. BatchTypes'
  BY Parts, <1>1 DEF BatchTypes, PlaceInv
<1>3. DateTypes'
  BY Parts, <1>1 DEF DateTypes
<1>4. StoreTypes'
  BY Parts, <1>1 DEF StoreTypes
<1>5. PlainTypes'
  BY Parts, <1>1 DEF PlainTypes, Places
<1>6. TargetTypes'
  BY Parts, <1>1 DEF TargetTypes
<1>7. PlaceInv'
  BY Parts, <1>1 DEF PlaceInv, Applying, Expiring, Asking, Readable
<1>8. CursorInv'
  BY Parts, <1>1 DEF CursorInv, Asking
<1>9. JobInv'
  BY Parts, <1>1 DEF JobInv
<1>10. ASSUME FilesReadable PROVE ReceiptInv'
  BY Parts, <1>1, <1>10 DEF ReceiptInv, Applicable, Readable, Invalid, Settled, Failing, Valid
<1>11. ASSUME JobsInTime PROVE SoleInv'
  BY Parts, <1>1, <1>11 DEF SoleInv
<1>12. ASSUME LedgerKept PROVE DatesInv'
  BY Parts, <1>1, <1>12 DEF DatesInv, LedgerCovers, Known
<1>13. ASSUME LedgerKept PROVE TrackInv'
  <2>1. batch \in inbox /\ TrackInv /\ pc # "idle"
    BY Parts, <1>1, <1>13 DEF PlaceInv, Applying
  <2>2. ASSUME NEW b \in inbox, content[b].kind = "ingest", cursor[b] > 0 \/ b = batch
        PROVE Dated(b) \subseteq ledger'
    <3>1. CASE cursor[b] > 0
      BY <1>1, <2>1, <2>2, <3>1 DEF TrackInv
    <3>2. CASE b = batch /\ cursor[b] = 0
      BY <1>1, <2>2, <3>2
    <3>3. cursor[b] \in Nat
      BY Parts, Numbers DEF CursorInv
    <3> QED BY <2>2, <3>1, <3>2, <3>3
  <2>3. ASSUME NEW b \in inbox, content[b].kind = "ingest", cursor[b] > 0 \/ b = batch
        PROVE Dated(b)' \subseteq ledger'
    BY <1>1, <2>2, <2>3 DEF Dated
  <2> QED BY <1>1, <2>1, <2>3 DEF TrackInv, Known
<1>14. ASSUME LedgerKept PROVE ExpireInv'
  BY Parts, <1>1, <1>14 DEF ExpireInv
<1>15. ASSUME OlderFirst PROVE OrderInv'
  BY Parts, <1>1, <1>15 DEF OrderInv, Settled, Readable
<1> QED BY <1>2, <1>3, <1>4, <1>5, <1>6, <1>7, <1>8, <1>9, <1>10, <1>11, <1>12, <1>13, <1>14, <1>15
           DEF DrainInv, TypeInv

\* The ledger is saved, or the batch waits.
LEMMA SaveLedgerKeeps ==
  ASSUME DrainInv, SaveLedger
  PROVE  DrainInv'
<1>1. /\ UNCHANGED <<content, inbox, doneDir, failedDir, purged, store, todo, batch, worked, issue,
                     expiring, tidied, targets, missed, awaited, cursor, refused, ledger, loaded,
                     backoff, due, slots, expired, crashes, begun, base>>
      /\ Positions' = Positions /\ pc = "save" /\ pc' = "apply" /\ faults' \in Nat
      /\ ledgerFile' = ledger \/ (UNCHANGED ledgerFile /\ "write" \in Faults)
  BY Parts DEF SaveLedger, Positions, disk, inHand, retain, job, kept, dates, outside, origin,
     Fault, NoFault, PlainTypes
<1>2. BatchTypes'
  BY Parts, <1>1 DEF BatchTypes, Positions
<1>3. DateTypes'
  BY Parts, <1>1 DEF DateTypes
<1>4. StoreTypes'
  BY Parts, <1>1 DEF StoreTypes
<1>5. PlainTypes'
  BY Parts, <1>1 DEF PlainTypes, Places
<1>6. TargetTypes'
  BY Parts, <1>1 DEF TargetTypes
<1>7. PlaceInv'
  BY Parts, <1>1 DEF PlaceInv, Applying, Expiring, Asking, Readable
<1>8. CursorInv'
  BY Parts, <1>1 DEF CursorInv, Asking
<1>9. JobInv'
  BY Parts, <1>1 DEF JobInv
<1>10. ASSUME FilesReadable PROVE ReceiptInv'
  BY Parts, <1>1, <1>10 DEF ReceiptInv, Applicable, Readable, Invalid, Settled, Failing, Valid
<1>11. ASSUME JobsInTime PROVE SoleInv'
  BY Parts, <1>1, <1>11 DEF SoleInv
<1>12. ASSUME LedgerKept PROVE DatesInv'
  BY Parts, <1>1, <1>12 DEF DatesInv, LedgerCovers, Known, PlaceInv, LedgerKept
<1>13. ASSUME LedgerKept PROVE TrackInv'
  BY Parts, <1>1, <1>13 DEF TrackInv, Tracking, Known, Dated, Asking
<1>14. ASSUME LedgerKept PROVE ExpireInv'
  BY Parts, <1>1, <1>14 DEF ExpireInv
<1>15. ASSUME OlderFirst PROVE OrderInv'
  BY Parts, <1>1, <1>15 DEF OrderInv, Settled, Readable
<1> QED BY <1>2, <1>3, <1>4, <1>5, <1>6, <1>7, <1>8, <1>9, <1>10, <1>11, <1>12, <1>13, <1>14, <1>15
           DEF DrainInv, TypeInv

\* An invalid record is passed over, and noted.
LEMMA RefuseKeeps ==
  ASSUME DrainInv, Refuse
  PROVE  DrainInv'
<1>1. /\ UNCHANGED <<content, inbox, doneDir, failedDir, ledgerFile, purged, store, pc, todo, batch,
                     issue, expiring, tidied, targets, missed, awaited, ledger, loaded, backoff,
                     due, slots, expired, crashes, faults, begun, base>>
      /\ Positions' = Positions /\ pc = "apply" /\ ~AtEnd /\ ~Valid(batch, cursor[batch] + 1)
      /\ refused' = refused \cup {batch}
      /\ worked' = TRUE /\ Forward
  <2>1. batch \in Positions
    BY Parts DEF Refuse, PlaceInv, Applying, BatchTypes
  <2>2. cursor[batch] < Len(content[batch].records)
    BY Parts, <2>1, BatchFacts DEF Refuse, AtEnd, CursorInv
  <2>3. Forward
    BY Parts, <2>1, <2>2, CursorMoves DEF Refuse
  <2> QED BY <2>3 DEF Positions, Refuse, Record, Valid, disk, inHand, retain, job, dates, outside,
             origin
<1>2. BatchTypes'
  BY Parts, <1>1 DEF BatchTypes, Forward
<1>3. DateTypes'
  BY Parts, <1>1 DEF DateTypes
<1>4. StoreTypes'
  BY Parts, <1>1 DEF StoreTypes
<1>5. PlainTypes'
  BY Parts, <1>1 DEF PlainTypes, Places
<1>6. TargetTypes'
  BY Parts, <1>1 DEF TargetTypes
<1>7. PlaceInv'
  BY Parts, <1>1 DEF PlaceInv, Applying, Expiring, Readable
<1>8. CursorInv'
  <2>1. cursor' \in [1..MaxBatches -> Nat] /\ cursor'[batch] <= Len(content[batch].records)
    BY Parts, <1>1, BatchFacts DEF Forward
  <2>2. \A b \in Positions : cursor'[b] <= Len(content[b].records)
    BY Parts, <1>1, Numbers DEF Forward, CursorInv
  <2>3. \A b \in 1..MaxBatches : b \notin Positions => cursor'[b] = 0
    BY Parts, <1>1 DEF Forward, CursorInv
  <2> QED BY <1>1, <2>1, <2>2, <2>3 DEF CursorInv, Asking
<1>9. JobInv'
  BY Parts, <1>1 DEF JobInv
<1>10. ASSUME FilesReadable PROVE ReceiptInv'
  <2>1. batch \in inbox /\ Readable(batch) /\ cursor[batch] + 1 \in 1..Len(content[batch].records)
    BY Parts, <1>1 DEF PlaceInv, Applying, Forward
  <2>2. ReceiptInv
    BY Parts, <1>10
  <2>3. \A b \in Positions : b \in refused' <=> \E n \in 1..cursor'[b] : ~Valid(b, n)
    <3> SUFFICES ASSUME NEW b \in Positions
                 PROVE  b \in refused' <=> \E n \in 1..cursor'[b] : ~Valid(b, n)
      OBVIOUS
    <3>1. CASE b = batch
      BY <1>1, <3>1 DEF Forward
    <3>2. CASE b # batch
      BY <1>1, <2>2, Parts, Numbers DEF ReceiptInv, Forward
    <3> QED BY <3>1, <3>2
  <2>4. (\A b \in doneDir : Applicable(b))' /\ (\A b \in failedDir \cup purged : ~Applicable(b))'
    BY <1>1, <2>2 DEF ReceiptInv, Applicable, Readable, Invalid
  <2>5. (\A b \in Positions : b \in refused <=> \E n \in 1..cursor[b] : ~Valid(b, n))'
    BY <1>1, <2>3 DEF Valid
  <2> QED BY <1>1, <2>2, <2>4, <2>5 DEF ReceiptInv, Settled, Failing
<1>11. ASSUME JobsInTime PROVE SoleInv'
  BY Parts, <1>1, <1>11 DEF SoleInv
<1>12. ASSUME LedgerKept PROVE DatesInv'
  BY Parts, <1>1, <1>12 DEF DatesInv, LedgerCovers, Known
<1>13. ASSUME LedgerKept PROVE TrackInv'
  BY Parts, <1>1, <1>13, Numbers, BatchFacts DEF TrackInv, Tracking, Known, Dated, Asking, PlaceInv,
     Expiring, Forward
<1>14. ASSUME LedgerKept PROVE ExpireInv'
  BY Parts, <1>1, <1>14 DEF ExpireInv
<1>15. ASSUME OlderFirst PROVE OrderInv'
  BY Parts, <1>1, <1>15 DEF OrderInv, Settled, Readable
<1> QED BY <1>2, <1>3, <1>4, <1>5, <1>6, <1>7, <1>8, <1>9, <1>10, <1>11, <1>12, <1>13, <1>14, <1>15
           DEF DrainInv, TypeInv

\* Retention begins, with what has expired.
LEMMA RetentionKeeps ==
  ASSUME DrainInv, Retention
  PROVE  DrainInv'
<1>1. /\ UNCHANGED <<content, inbox, doneDir, failedDir, ledgerFile, purged, store, todo, issue,
                     tidied, targets, missed, awaited, cursor, refused, ledger, loaded, backoff,
                     due, slots, expired, crashes, faults, begun, base>>
      /\ Positions' = Positions /\ pc = "scan" /\ todo = {} /\ batch' = 0 /\ worked' \in BOOLEAN
      /\ pc' \in {"retain", "idle"} /\ expiring' \in {expiring, ledger \cap expired}
  BY Parts DEF Retention, Positions, disk, inHand, retain, job, kept, dates, outside, origin,
     PlainTypes
<1>2. BatchTypes'
  BY Parts, <1>1 DEF BatchTypes, PlaceInv
<1>3. DateTypes'
  BY Parts, <1>1 DEF DateTypes
<1>4. StoreTypes'
  BY Parts, <1>1 DEF StoreTypes
<1>5. PlainTypes'
  BY Parts, <1>1 DEF PlainTypes, Places
<1>6. TargetTypes'
  BY Parts, <1>1 DEF TargetTypes
<1>7. PlaceInv'
  BY Parts, <1>1 DEF PlaceInv, Applying, Failing, Asking
<1>8. CursorInv'
  BY Parts, <1>1 DEF CursorInv, Asking
<1>9. JobInv'
  BY Parts, <1>1 DEF JobInv
<1>10. ASSUME FilesReadable PROVE ReceiptInv'
  BY Parts, <1>1, <1>10 DEF ReceiptInv, Applicable, Readable, Invalid, Settled, Failing, Valid
<1>11. ASSUME JobsInTime PROVE SoleInv'
  BY Parts, <1>1, <1>11 DEF SoleInv
<1>12. ASSUME LedgerKept PROVE DatesInv'
  BY Parts, <1>1, <1>12 DEF DatesInv, LedgerCovers, Known
<1>13. ASSUME LedgerKept PROVE TrackInv'
  BY Parts, <1>1, <1>13, Numbers DEF TrackInv, Tracking, Known, Dated
<1>14. ASSUME LedgerKept PROVE ExpireInv'
  BY Parts, <1>1, <1>14 DEF ExpireInv
<1>15. ASSUME OlderFirst PROVE OrderInv'
  BY Parts, <1>1, <1>15, Numbers, NoneAsked DEF OrderInv, Settled, Readable, PlaceInv, OlderFirst
<1> QED BY <1>2, <1>3, <1>4, <1>5, <1>6, <1>7, <1>8, <1>9, <1>10, <1>11, <1>12, <1>13, <1>14, <1>15
           DEF DrainInv, TypeInv

\* Retention takes up an issue, or has none left.
LEMMA ArchiveIssueKeeps ==
  ASSUME DrainInv, ArchiveIssue
  PROVE  DrainInv'
<1>1. /\ UNCHANGED <<content, inbox, doneDir, failedDir, ledgerFile, purged, store, todo, batch,
                     worked, expiring, tidied, targets, missed, awaited, cursor, refused, ledger,
                     loaded, backoff, due, slots, expired, crashes, faults, begun, base>>
      /\ Positions' = Positions /\ pc = "retain" /\ issue' \in expiring /\ pc' = "source"
  <2>1. expiring \in SUBSET Nat
    BY Parts, DrainAssumption DEF DateTypes
  <2>2. /\ pc = "retain" /\ expiring # {} /\ issue' = Least(expiring) /\ pc' = "source"
        /\ UNCHANGED <<disk, store, inHand, expiring, tidied, job, kept, dates, backoff, outside,
                       faults, origin>>
    BY DEF ArchiveIssue
  <2>3. issue' \in expiring
    BY <2>1, <2>2, LeastIs
  <2> QED BY <2>2, <2>3 DEF Positions, disk, inHand, job, kept, dates, outside, origin
<1>2. BatchTypes'
  BY Parts, <1>1 DEF BatchTypes, Positions
<1>3. DateTypes'
  BY Parts, <1>1 DEF DateTypes
<1>4. StoreTypes'
  BY Parts, <1>1 DEF StoreTypes
<1>5. PlainTypes'
  BY Parts, <1>1 DEF PlainTypes, Places
<1>6. TargetTypes'
  BY Parts, <1>1 DEF TargetTypes
<1>7. PlaceInv'
  BY Parts, <1>1, DrainAssumption DEF PlaceInv, Applying, Failing, Expiring, DateTypes
<1>8. CursorInv'
  BY Parts, <1>1 DEF CursorInv, Asking
<1>9. JobInv'
  BY Parts, <1>1 DEF JobInv
<1>10. ASSUME FilesReadable PROVE ReceiptInv'
  BY Parts, <1>1, <1>10 DEF ReceiptInv, Applicable, Readable, Invalid, Settled, Failing, Valid
<1>11. ASSUME JobsInTime PROVE SoleInv'
  BY Parts, <1>1, <1>11 DEF SoleInv
<1>12. ASSUME LedgerKept PROVE DatesInv'
  BY Parts, <1>1, <1>12 DEF DatesInv, LedgerCovers, Known
<1>13. ASSUME LedgerKept PROVE TrackInv'
  BY Parts, <1>1, <1>13, Numbers, NoneAsked, KeptInTime, DrainAssumption DEF TrackInv, Tracking,
     Known, Dated, Asking
<1>14. ASSUME LedgerKept PROVE ExpireInv'
  BY Parts, <1>1, <1>14 DEF ExpireInv
<1>15. ASSUME OlderFirst PROVE OrderInv'
  BY Parts, <1>1, <1>15, NoneAsked, Numbers DEF OrderInv, Settled, Readable, PlaceInv, OlderFirst
<1> QED BY <1>2, <1>3, <1>4, <1>5, <1>6, <1>7, <1>8, <1>9, <1>10, <1>11, <1>12, <1>13, <1>14, <1>15
           DEF DrainInv, TypeInv

\* The backoff ends.
LEMMA BackoffEndsKeeps ==
  ASSUME DrainInv, BackoffEnds
  PROVE  DrainInv'
<1>1. /\ UNCHANGED <<content, inbox, doneDir, failedDir, ledgerFile, purged, store, pc, todo, batch,
                     worked, issue, expiring, tidied, targets, missed, awaited, cursor, refused,
                     ledger, loaded, due, slots, expired, crashes, faults, begun, base>>
      /\ Positions' = Positions /\ backoff' = FALSE
  BY Parts DEF BackoffEnds, Positions, disk, inHand, retain, job, kept, dates, outside, origin
<1>2. BatchTypes'
  BY Parts, <1>1 DEF BatchTypes, Positions
<1>3. DateTypes'
  BY Parts, <1>1 DEF DateTypes
<1>4. StoreTypes'
  BY Parts, <1>1 DEF StoreTypes
<1>5. PlainTypes'
  BY Parts, <1>1 DEF PlainTypes, Places
<1>6. TargetTypes'
  BY Parts, <1>1 DEF TargetTypes
<1>7. PlaceInv'
  BY Parts, <1>1 DEF PlaceInv, Applying, Failing, Expiring, Readable
<1>8. CursorInv'
  BY Parts, <1>1 DEF CursorInv, Valid
<1>9. JobInv'
  BY Parts, <1>1 DEF JobInv
<1>10. ASSUME FilesReadable PROVE ReceiptInv'
  BY Parts, <1>1, <1>10 DEF ReceiptInv, Applicable, Readable, Invalid, Settled, Failing, Valid
<1>11. ASSUME JobsInTime PROVE SoleInv'
  BY Parts, <1>1, <1>11 DEF SoleInv
<1>12. ASSUME LedgerKept PROVE DatesInv'
  BY Parts, <1>1, <1>12 DEF DatesInv, LedgerCovers, Known
<1>13. ASSUME LedgerKept PROVE TrackInv'
  BY Parts, <1>1, <1>13 DEF TrackInv, Tracking, Known, Dated
<1>14. ASSUME LedgerKept PROVE ExpireInv'
  BY Parts, <1>1, <1>14 DEF ExpireInv
<1>15. ASSUME OlderFirst PROVE OrderInv'
  BY Parts, <1>1, <1>15 DEF OrderInv, Settled, Readable
<1> QED BY <1>2, <1>3, <1>4, <1>5, <1>6, <1>7, <1>8, <1>9, <1>10, <1>11, <1>12, <1>13, <1>14, <1>15
           DEF DrainInv, TypeInv

\* Retention falls due.
LEMMA RetentionDueKeeps ==
  ASSUME DrainInv, RetentionDue
  PROVE  DrainInv'
<1>1. /\ UNCHANGED <<content, inbox, doneDir, failedDir, ledgerFile, purged, store, pc, todo, batch,
                     worked, issue, expiring, tidied, targets, missed, awaited, cursor, refused,
                     ledger, loaded, backoff, slots, expired, crashes, faults, begun, base>>
      /\ Positions' = Positions /\ due' = TRUE
  BY Parts DEF RetentionDue, Positions, disk, inHand, retain, job, kept, dates, outside, origin
<1>2. BatchTypes'
  BY Parts, <1>1 DEF BatchTypes, Positions
<1>3. DateTypes'
  BY Parts, <1>1 DEF DateTypes
<1>4. StoreTypes'
  BY Parts, <1>1 DEF StoreTypes
<1>5. PlainTypes'
  BY Parts, <1>1 DEF PlainTypes, Places
<1>6. TargetTypes'
  BY Parts, <1>1 DEF TargetTypes
<1>7. PlaceInv'
  BY Parts, <1>1 DEF PlaceInv, Applying, Failing, Expiring, Readable
<1>8. CursorInv'
  BY Parts, <1>1 DEF CursorInv, Valid
<1>9. JobInv'
  BY Parts, <1>1 DEF JobInv
<1>10. ASSUME FilesReadable PROVE ReceiptInv'
  BY Parts, <1>1, <1>10 DEF ReceiptInv, Applicable, Readable, Invalid, Settled, Failing, Valid
<1>11. ASSUME JobsInTime PROVE SoleInv'
  BY Parts, <1>1, <1>11 DEF SoleInv
<1>12. ASSUME LedgerKept PROVE DatesInv'
  BY Parts, <1>1, <1>12 DEF DatesInv, LedgerCovers, Known
<1>13. ASSUME LedgerKept PROVE TrackInv'
  BY Parts, <1>1, <1>13 DEF TrackInv, Tracking, Known, Dated
<1>14. ASSUME LedgerKept PROVE ExpireInv'
  BY Parts, <1>1, <1>14 DEF ExpireInv
<1>15. ASSUME OlderFirst PROVE OrderInv'
  BY Parts, <1>1, <1>15 DEF OrderInv, Settled, Readable
<1> QED BY <1>2, <1>3, <1>4, <1>5, <1>6, <1>7, <1>8, <1>9, <1>10, <1>11, <1>12, <1>13, <1>14, <1>15
           DEF DrainInv, TypeInv

\* A date expires.
LEMMA ExpiresKeeps ==
  ASSUME DrainInv, NEW d \in Dates, Expire(d)
  PROVE  DrainInv'
<1>1. /\ UNCHANGED <<content, inbox, doneDir, failedDir, ledgerFile, purged, store, pc, todo, batch,
                     worked, issue, expiring, tidied, targets, missed, awaited, cursor, refused,
                     ledger, loaded, backoff, due, slots, crashes, faults, begun, base>>
      /\ Positions' = Positions /\ expired' = expired \cup {d}
  BY Parts DEF Expire, Positions, disk, inHand, retain, job, kept, dates, origin
<1>2. BatchTypes'
  BY Parts, <1>1 DEF BatchTypes, Positions
<1>3. DateTypes'
  BY Parts, <1>1 DEF DateTypes
<1>4. StoreTypes'
  BY Parts, <1>1 DEF StoreTypes
<1>5. PlainTypes'
  BY Parts, <1>1 DEF PlainTypes, Places
<1>6. TargetTypes'
  BY Parts, <1>1 DEF TargetTypes
<1>7. PlaceInv'
  BY Parts, <1>1 DEF PlaceInv, Applying, Failing, Expiring, Readable
<1>8. CursorInv'
  BY Parts, <1>1 DEF CursorInv, Valid
<1>9. JobInv'
  BY Parts, <1>1 DEF JobInv
<1>10. ASSUME FilesReadable PROVE ReceiptInv'
  BY Parts, <1>1, <1>10 DEF ReceiptInv, Applicable, Readable, Invalid, Settled, Failing, Valid
<1>11. ASSUME JobsInTime PROVE SoleInv'
  BY Parts, <1>1, <1>11 DEF SoleInv
<1>12. ASSUME LedgerKept PROVE DatesInv'
  BY Parts, <1>1, <1>12 DEF DatesInv, LedgerCovers, Known
<1>13. ASSUME LedgerKept PROVE TrackInv'
  BY Parts, <1>1, <1>13 DEF TrackInv, Tracking, Known, Dated
<1>14. ASSUME LedgerKept PROVE ExpireInv'
  BY Parts, <1>1, <1>14 DEF ExpireInv
<1>15. ASSUME OlderFirst PROVE OrderInv'
  BY Parts, <1>1, <1>15 DEF OrderInv, Settled, Readable
<1> QED BY <1>2, <1>3, <1>4, <1>5, <1>6, <1>7, <1>8, <1>9, <1>10, <1>11, <1>12, <1>13, <1>14, <1>15
           DEF DrainInv, TypeInv

\* The pass ends, or gives up an issue: what it had in hand stays where it was.
LEMMA LeavesKeeps ==
  ASSUME DrainInv, Leaves, UNCHANGED <<content, inbox, doneDir, failedDir, ledgerFile, purged,
           store, cursor, refused, ledger, loaded, expired, crashes, begun, base>>,
         faults' \in Nat, due' \in BOOLEAN, backoff' \in BOOLEAN, pc \notin {"idle", "save"},
           Drops, JobsInTime => \A k \in Slots : slots'[k] = NoJob
  PROVE  DrainInv'
<1>1. /\ UNCHANGED <<content, inbox, doneDir, failedDir, ledgerFile, purged, store, cursor, refused,
                     ledger, loaded, expired, crashes, begun, base>>
      /\ Positions' = Positions /\ Leaves /\ faults' \in Nat /\ due' \in BOOLEAN
      /\ backoff' \in BOOLEAN
      /\ pc \notin {"idle", "save"} /\ Drops /\ (JobsInTime => \A k \in Slots : slots'[k] = NoJob)
  BY Parts DEF Positions, disk, inHand, retain, job, kept, dates
<1>2. BatchTypes'
  BY Parts, <1>1 DEF BatchTypes, Leaves
<1>3. DateTypes'
  BY Parts, <1>1 DEF DateTypes, Leaves
<1>4. StoreTypes'
  BY Parts, <1>1 DEF StoreTypes
<1>5. PlainTypes'
  BY Parts DEF PlainTypes, Places, Leaves
<1>6. TargetTypes'
  BY Parts, <1>1 DEF TargetTypes, Leaves
<1>7. PlaceInv'
  BY Parts, <1>1, Numbers DEF PlaceInv, Applying, Failing, Asking, Leaves
<1>8. CursorInv'
  BY Parts, <1>1, Numbers DEF CursorInv, Asking, Leaves
<1>9. JobInv'
  BY Parts DEF JobInv, Leaves, Drops
<1>10. ASSUME FilesReadable PROVE ReceiptInv'
  BY Parts, <1>1, <1>10, Numbers DEF ReceiptInv, Applicable, Readable, Invalid, Settled, Failing,
     Valid, Leaves
<1>11. ASSUME JobsInTime PROVE SoleInv'
  BY Parts, <1>1, <1>11 DEF SoleInv
<1>12. ASSUME LedgerKept PROVE DatesInv'
  BY Parts, <1>1, <1>12, Numbers, KeptInTime DEF DatesInv, LedgerCovers, Known
<1>13. ASSUME LedgerKept PROVE TrackInv'
  BY Parts, <1>1, <1>13, Numbers, KeptInTime DEF TrackInv, Tracking, Known, Dated, Asking, PlaceInv,
     Expiring, Leaves
<1>14. ASSUME LedgerKept PROVE ExpireInv'
  BY Parts, <1>1, <1>14 DEF ExpireInv, Leaves
<1>15. ASSUME OlderFirst PROVE OrderInv'
  BY Parts, <1>1, <1>15, Numbers DEF OrderInv, Settled, Readable, PlaceInv, Applying, Failing,
     Leaves, OlderFirst
<1> QED BY <1>2, <1>3, <1>4, <1>5, <1>6, <1>7, <1>8, <1>9, <1>10, <1>11, <1>12, <1>13, <1>14, <1>15
           DEF DrainInv, TypeInv

\* The receipt, or the reason, is written.
LEMMA WritesKeeps ==
  ASSUME DrainInv, Receipt, pc' = "remove"
  PROVE  DrainInv'
<1>1. /\ UNCHANGED <<content, inbox, ledgerFile, purged, store, todo, batch, worked, issue,
                     expiring, tidied, targets, missed, awaited, cursor, refused, ledger, loaded,
                     backoff, due, slots, expired, crashes, begun, base>>
      /\ Positions' = Positions /\ pc = "apply" /\ AtEnd /\ pc' = "remove" /\ faults' \in Nat
      /\ IF batch \in refused THEN failedDir' = failedDir \cup {batch} /\ UNCHANGED doneDir
                              ELSE doneDir' = doneDir \cup {batch} /\ UNCHANGED failedDir
  BY Parts DEF Receipt, Stall, EndPass, Positions, disk, inHand, retain, job, kept, dates, outside,
     origin, NoFault, PlainTypes
<1>2. BatchTypes'
  BY Parts, <1>1 DEF BatchTypes, PlaceInv, Applying
<1>3. DateTypes'
  BY Parts, <1>1 DEF DateTypes
<1>4. StoreTypes'
  BY Parts, <1>1 DEF StoreTypes
<1>5. PlainTypes'
  BY Parts, <1>1 DEF PlainTypes, Places
<1>6. TargetTypes'
  BY Parts, <1>1 DEF TargetTypes
<1>7. PlaceInv'
  BY Parts, <1>1, Numbers DEF PlaceInv, Applying, Expiring, Readable
<1>8. CursorInv'
  BY Parts, <1>1 DEF CursorInv, Asking
<1>9. JobInv'
  BY Parts, <1>1 DEF JobInv
<1>10. ASSUME FilesReadable PROVE ReceiptInv'
  <2>1. batch \in Positions /\ cursor[batch] = Len(content[batch].records) /\ Readable(batch)
        /\ ReceiptInv
    BY Parts, <1>1, <1>10, Numbers DEF PlaceInv, Applying, AtEnd
  <2>2. DOMAIN content[batch].records = 1..cursor[batch]
    BY Parts, <2>1, BatchFacts
  <2>3. batch \in refused <=> ~Applicable(batch)
    BY <2>1 DEF Applicable, Invalid, Valid, ReceiptInv
  <2> QED BY <1>1, <2>1, <2>3 DEF ReceiptInv, Applicable, Readable, Invalid, Settled, Failing, Valid
<1>11. ASSUME JobsInTime PROVE SoleInv'
  BY Parts, <1>1, <1>11 DEF SoleInv
<1>12. ASSUME LedgerKept PROVE DatesInv'
  BY Parts, <1>1, <1>12 DEF DatesInv, LedgerCovers, Known
<1>13. ASSUME LedgerKept PROVE TrackInv'
  BY Parts, <1>1, <1>13, Numbers DEF TrackInv, Tracking, Known, Dated
<1>14. ASSUME LedgerKept PROVE ExpireInv'
  BY Parts, <1>1, <1>14 DEF ExpireInv
<1>15. ASSUME OlderFirst PROVE OrderInv'
  BY Parts, <1>1, <1>15, Numbers, NoneAsked, KeptInTime DEF OrderInv, Settled, Readable, PlaceInv
<1> QED BY <1>2, <1>3, <1>4, <1>5, <1>6, <1>7, <1>8, <1>9, <1>10, <1>11, <1>12, <1>13, <1>14, <1>15
           DEF DrainInv, TypeInv

\* The file leaves the inbox, and its cursor goes with it.
LEMMA RemovesKeeps ==
  ASSUME DrainInv, RemoveFile, pc' = "scan"
  PROVE  DrainInv'
<1>1. /\ UNCHANGED <<content, doneDir, failedDir, ledgerFile, purged, store, todo, issue, expiring,
                     tidied, targets, missed, awaited, ledger, loaded, backoff, due, slots, expired,
                     crashes, begun, base>>
      /\ Positions' = Positions /\ pc = "remove" /\ batch \in inbox /\ inbox' = inbox \ {batch}
      /\ pc' = "scan" /\ faults' \in Nat
      /\ cursor' \in [1..MaxBatches -> Nat] /\ cursor'[batch] = 0
           /\ (\A b \in 1..MaxBatches : b # batch => cursor'[b] = cursor[b])
      /\ refused' = refused \ {batch} /\ batch' = 0 /\ worked' = TRUE
  <2>1. batch \in inbox /\ batch \in 1..MaxBatches
    BY Parts, Numbers DEF RemoveFile, PlaceInv, Applying
  <2>2. cursor' = [cursor EXCEPT ![batch] = 0]
    BY DEF RemoveFile, Stall, EndPass
  <2>3. cursor' \in [1..MaxBatches -> Nat] /\ cursor'[batch] = 0
        /\ (\A b \in 1..MaxBatches : b # batch => cursor'[b] = cursor[b])
    BY Parts, <2>1, <2>2 DEF CursorInv
  <2> QED BY Parts, <2>1, <2>3 DEF RemoveFile, Stall, EndPass, Positions, dates, retain, outside,
             origin, PlainTypes, NoFault
<1>2. BatchTypes'
  BY Parts, <1>1, Numbers DEF BatchTypes
<1>3. DateTypes'
  BY Parts, <1>1 DEF DateTypes
<1>4. StoreTypes'
  BY Parts, <1>1 DEF StoreTypes
<1>5. PlainTypes'
  BY Parts, <1>1 DEF PlainTypes, Places
<1>6. TargetTypes'
  BY Parts, <1>1 DEF TargetTypes
<1>7. PlaceInv'
  BY Parts, <1>1, Numbers DEF PlaceInv, Applying, Failing, Expiring, Asking
<1>8. CursorInv'
  BY Parts, <1>1, Numbers DEF CursorInv, Asking
<1>9. JobInv'
  BY Parts, <1>1 DEF JobInv
<1>10. ASSUME FilesReadable PROVE ReceiptInv'
  BY Parts, <1>1, <1>10, Numbers DEF ReceiptInv, Applicable, Readable, Invalid, Settled, Failing,
     Valid
<1>11. ASSUME JobsInTime PROVE SoleInv'
  BY Parts, <1>1, <1>11 DEF SoleInv
<1>12. ASSUME LedgerKept PROVE DatesInv'
  BY Parts, <1>1, <1>12 DEF DatesInv, LedgerCovers, Known
<1>13. ASSUME LedgerKept PROVE TrackInv'
  BY Parts, <1>1, <1>13, Numbers DEF TrackInv, Tracking, Known, Dated
<1>14. ASSUME LedgerKept PROVE ExpireInv'
  BY Parts, <1>1, <1>14 DEF ExpireInv
<1>15. ASSUME OlderFirst PROVE OrderInv'
  BY Parts, <1>1, <1>15, Numbers, NoneAsked, KeptInTime DEF OrderInv, Settled, Readable, PlaceInv,
     OlderFirst
<1> QED BY <1>2, <1>3, <1>4, <1>5, <1>6, <1>7, <1>8, <1>9, <1>10, <1>11, <1>12, <1>13, <1>14, <1>15
           DEF DrainInv, TypeInv

\* Retention takes an issue it has archived from the ledger, and saves it.
LEMMA TidyKeeps ==
  ASSUME DrainInv, Tidy
  PROVE  DrainInv'
<1>1. /\ UNCHANGED <<content, inbox, doneDir, store, cursor, refused, ledger, loaded, backoff,
                     slots, expired, crashes, begun, base>>
      /\ Positions' = Positions /\ pc \in {"retain", "tidy"} /\ due' = FALSE /\ Leaves
      /\ pc' = "idle" /\ faults' \in Nat
      /\ ledgerFile' = ledger \/ UNCHANGED ledgerFile
      /\ \E old \in {{}, failedDir} : failedDir' = failedDir \ old /\ purged' = purged \cup old
  <2>1. Leaves /\ pc' = "idle" /\ UNCHANGED <<content, inbox, doneDir, store, slots, kept, ledger,
                                              loaded, backoff, outside, origin>>
    BY DEF Tidy, EndPass, Leaves
  <2>2. pc \in {"retain", "tidy"} /\ due' = FALSE /\ faults' \in Nat
        /\ (ledgerFile' = ledger \/ UNCHANGED ledgerFile)
    BY Parts DEF Tidy, Fault, NoFault, PlainTypes
  <2>3. \E old \in {{}, failedDir} : failedDir' = failedDir \ old /\ purged' = purged \cup old
    BY DEF Tidy
  <2> QED BY <2>1, <2>2, <2>3 DEF Positions, kept, outside, origin
<1>2. BatchTypes'
  BY Parts, <1>1 DEF BatchTypes, Leaves
<1>3. DateTypes'
  BY Parts, <1>1 DEF DateTypes, Leaves
<1>4. StoreTypes'
  BY Parts, <1>1 DEF StoreTypes
<1>5. PlainTypes'
  BY Parts, <1>1 DEF PlainTypes, Places, Leaves
<1>6. TargetTypes'
  BY Parts, <1>1 DEF TargetTypes, Leaves
<1>7. PlaceInv'
  BY Parts, <1>1, Numbers DEF PlaceInv, Applying, Failing, Asking, Leaves
<1>8. CursorInv'
  BY Parts, <1>1 DEF CursorInv, Asking
<1>9. JobInv'
  BY Parts, <1>1 DEF JobInv, Leaves
<1>10. ASSUME FilesReadable PROVE ReceiptInv'
  BY Parts, <1>1, <1>10, Numbers DEF ReceiptInv, Applicable, Readable, Invalid, Settled, Failing,
     Valid
<1>11. ASSUME JobsInTime PROVE SoleInv'
  BY Parts, <1>1, <1>11, NoneAsked DEF SoleInv
<1>12. ASSUME LedgerKept PROVE DatesInv'
  BY Parts, <1>1, <1>12 DEF DatesInv, LedgerCovers, Known, PlaceInv
<1>13. ASSUME LedgerKept PROVE TrackInv'
  BY Parts, <1>1, <1>13, Numbers, NoneAsked, KeptInTime DEF TrackInv, Tracking, Known, Dated, Asking
<1>14. ASSUME LedgerKept PROVE ExpireInv'
  BY Parts, <1>1, <1>14 DEF ExpireInv
<1>15. ASSUME OlderFirst PROVE OrderInv'
  BY Parts, <1>1, <1>15, Numbers, NoneAsked, KeptInTime DEF OrderInv, Settled, Readable, PlaceInv,
     Applying, Expiring, Leaves
<1> QED BY <1>2, <1>3, <1>4, <1>5, <1>6, <1>7, <1>8, <1>9, <1>10, <1>11, <1>12, <1>13, <1>14, <1>15
           DEF DrainInv, TypeInv

\* A death: the files and the store are left, and the next life starts from them.
LEMMA CrashKeeps ==
  ASSUME DrainInv, Crash
  PROVE  DrainInv'
<1>1. /\ UNCHANGED <<content, inbox, doneDir, failedDir, ledgerFile, purged, store, expired, faults,
                     begun, base>>
      /\ Positions' = Positions /\ Leaves /\ pc' = "idle" /\ crashes' \in Nat /\ due' = TRUE
      /\ backoff' = FALSE /\ loaded' = FALSE /\ ledger' = {} /\ refused' = {}
      /\ slots' \in [Slots -> Jobs \cup {NoJob}] /\ (\A k \in Slots : slots'[k] = NoJob)
      /\ cursor' \in [1..MaxBatches -> Nat] /\ \A b \in 1..MaxBatches : cursor'[b] = 0
  <2>1. Leaves /\ pc' = "idle"
    BY DEF Crash, EndPass, Leaves
  <2>2. cursor' \in [1..MaxBatches -> Nat] /\ \A b \in 1..MaxBatches : cursor'[b] = 0
    BY Parts DEF Crash, CursorInv
  <2>3. slots' \in [Slots -> Jobs \cup {NoJob}] /\ \A k \in Slots : slots'[k] = NoJob
    BY DEF Crash
  <2>4. crashes' \in Nat
    BY Parts DEF Crash, PlainTypes
  <2> QED BY <2>1, <2>2, <2>3, <2>4 DEF Crash, Positions, disk, origin
<1>2. BatchTypes'
  BY Parts, <1>1 DEF BatchTypes, Leaves
<1>3. DateTypes'
  BY Parts, <1>1 DEF DateTypes, Leaves
<1>4. StoreTypes'
  BY Parts, <1>1 DEF StoreTypes
<1>5. PlainTypes'
  BY Parts, <1>1 DEF PlainTypes, Places, Leaves
<1>6. TargetTypes'
  BY Parts, <1>1 DEF TargetTypes, Leaves
<1>7. PlaceInv'
  BY Parts, <1>1, Numbers DEF PlaceInv, Applying, Failing, Asking, Leaves
<1>8. CursorInv'
  BY Parts, <1>1, Numbers DEF CursorInv, Asking
<1>9. JobInv'
  BY Parts, <1>1 DEF JobInv, Leaves
<1>10. ASSUME FilesReadable PROVE ReceiptInv'
  BY Parts, <1>1, <1>10, Numbers DEF ReceiptInv, Applicable, Readable, Invalid, Settled, Failing
<1>11. ASSUME JobsInTime PROVE SoleInv'
  BY Parts, <1>1, <1>11 DEF SoleInv
<1>12. ASSUME LedgerKept PROVE DatesInv'
  BY Parts, <1>1, <1>12 DEF DatesInv, LedgerCovers
<1>13. ASSUME LedgerKept PROVE TrackInv'
  BY Parts, <1>1, <1>13, Numbers DEF TrackInv, Tracking, Known, Dated, Asking
<1>14. ASSUME LedgerKept PROVE ExpireInv'
  BY Parts, <1>1, <1>14 DEF ExpireInv
<1>15. ASSUME OlderFirst PROVE OrderInv'
  BY Parts, <1>1, <1>15, Numbers DEF OrderInv, Settled, Readable, PlaceInv
<1> QED BY <1>2, <1>3, <1>4, <1>5, <1>6, <1>7, <1>8, <1>9, <1>10, <1>11, <1>12, <1>13, <1>14, <1>15
           DEF DrainInv, TypeInv

\* A job is submitted, and waited for.
LEMMA SubmitsKeeps ==
  ASSUME DrainInv, NEW op \in Ops, NEW arg \in Args(op), NEW rest \in SUBSET Ids, NEW k \in Slots,
           slots[k] = NoJob,
         slots' = [slots EXCEPT ![k] = Job(op, arg)], awaited' = k, targets' = rest, pc' = "wait",
           NoFault,
         UNCHANGED <<disk, store, inHand, retain, missed, kept, dates, backoff, outside, origin>>,
         pc \in {"apply", "source", "archive"},
         pc = "apply" => ~AtEnd /\ Valid(batch, cursor[batch] + 1),
         op = "ingest" => pc = "apply" /\ arg.op = "ingest" /\ arg.id \in Ids /\ arg.text \in Texts
           /\ content[batch].kind = "ingest" /\ (arg.date = NoDate \/ arg.date \in Dated(batch)),
         issue # NoDate => (op = "list" /\ arg = issue)
           \/ (op = "archive" /\ targets = rest \cup {arg} /\ pc = "archive")
  PROVE  DrainInv'
<1>1. /\ UNCHANGED <<content, inbox, doneDir, failedDir, ledgerFile, purged, store, todo, batch,
                     worked, issue, expiring, tidied, missed, cursor, refused, ledger, loaded,
                     backoff, due, expired, crashes, faults, begun, base>>
      /\ Positions' = Positions /\ JobIs(slots'[k], op, arg)
           /\ (\A j \in Slots : j # k => slots'[j] = slots[j])
      /\ slots' \in [Slots -> Jobs \cup {NoJob}] /\ k # 0 /\ awaited' = k /\ targets' = rest
      /\ pc' = "wait"
      /\ pc \in {"apply", "source", "archive"}
  <2>1. JobIs(Job(op, arg), op, arg)
    BY Parts, Numbers, JobAsked
  <2>2. slots'[k] = Job(op, arg) /\ \A j \in Slots : j # k => slots'[j] = slots[j]
    BY Parts DEF JobInv
  <2>3. slots' \in [Slots -> Jobs \cup {NoJob}]
    BY Parts, <2>1 DEF JobInv, JobIs
  <2> QED BY <2>1, <2>2, <2>3 DEF Positions, disk, inHand, retain, kept, dates, outside, origin,
             NoFault, Slots
<1>2. BatchTypes'
  BY Parts, <1>1 DEF BatchTypes, Positions
<1>3. DateTypes'
  BY Parts, <1>1 DEF DateTypes
<1>4. StoreTypes'
  BY Parts, <1>1 DEF StoreTypes
<1>5. PlainTypes'
  BY Parts, <1>1 DEF PlainTypes, Places
<1>6. TargetTypes'
  BY Parts, <1>1 DEF TargetTypes, JobIs
<1>7. PlaceInv'
  BY Parts, <1>1, Numbers DEF PlaceInv, Applying, Failing, Expiring, Asking, Readable
<1>8. CursorInv'
  BY Parts, <1>1, Numbers, BatchFacts DEF CursorInv, Valid, Asking, AtEnd, PlaceInv, Applying
<1>9. JobInv'
  BY Parts, <1>1 DEF JobInv, JobIs
<1>10. ASSUME FilesReadable PROVE ReceiptInv'
  BY Parts, <1>1, <1>10, Numbers DEF ReceiptInv, Applicable, Readable, Invalid, Settled, Failing,
     Valid
<1>11. ASSUME JobsInTime PROVE SoleInv'
  BY Parts, <1>11, NoneAsked DEF SoleInv
<1>12. ASSUME LedgerKept PROVE DatesInv'
  BY Parts, <1>1, <1>12 DEF DatesInv, LedgerCovers, Known
<1>13. ASSUME LedgerKept PROVE TrackInv'
  <2>1. TrackInv /\ Tracking' /\ pc # "idle" /\ pc # "scan"
    BY Parts, <1>13 DEF Tracking, Asking
  <2>2. batch \in inbox /\ content[batch].kind = "ingest" /\ pc # "source"
          => Dated(batch) \subseteq ledger
    BY Parts, <2>1 DEF TrackInv, Tracking, Asking
  <2>3. op = "ingest" => issue = NoDate /\ Known(arg.date)
    BY Parts, <2>2 DEF PlaceInv, Applying, Known
  <2>4. pc # "source" => Tracking
    BY <1>1 DEF Tracking, Asking
  <2>5. pc = "source" => batch = 0
    BY Parts DEF PlaceInv, Expiring
  <2> QED BY Parts, <1>1, <2>1, <2>3, <2>4, <2>5, Numbers DEF TrackInv, JobIs, Known, Dated
<1>14. ASSUME LedgerKept PROVE ExpireInv'
  BY Parts, <1>1, <1>14 DEF ExpireInv, JobIs
<1>15. ASSUME OlderFirst PROVE OrderInv'
  BY Parts, <1>1, <1>15, Numbers DEF OrderInv, Settled, Readable, PlaceInv, Applying, JobIs
<1> QED BY <1>2, <1>3, <1>4, <1>5, <1>6, <1>7, <1>8, <1>9, <1>10, <1>11, <1>12, <1>13, <1>14, <1>15
           DEF DrainInv, TypeInv

\* The job of a record has ended well: the next record's turn.
LEMMA AdvancesKeeps ==
  ASSUME DrainInv, Forward, issue = NoDate, pc \in Asking, pc' = "apply", targets' = {},
           missed' = FALSE, awaited' = 0, worked' = TRUE,
         UNCHANGED <<content, inbox, doneDir, failedDir, ledgerFile, purged, store, todo, batch,
           issue, expiring, tidied, refused, ledger, loaded, backoff, due, expired, crashes, begun,
             base>>,
         faults' \in Nat, Drops, JobsInTime => \A k \in Slots : slots'[k] = NoJob
  PROVE  DrainInv'
<1>1. /\ UNCHANGED <<content, inbox, doneDir, failedDir, ledgerFile, purged, store, todo, batch,
                     issue, expiring, tidied, refused, ledger, loaded, backoff, due, expired,
                     crashes, begun, base>>
      /\ Positions' = Positions /\ Forward /\ issue = NoDate /\ pc \in Asking /\ pc' = "apply"
      /\ targets' = {} /\ missed' = FALSE /\ awaited' = 0 /\ worked' = TRUE
      /\ faults' \in Nat /\ Drops /\ (JobsInTime => \A k \in Slots : slots'[k] = NoJob)
  BY Parts DEF Positions, disk, inHand, retain, job, kept, dates
<1>2. BatchTypes'
  BY Parts, <1>1 DEF BatchTypes, Positions
<1>3. DateTypes'
  BY Parts, <1>1 DEF DateTypes
<1>4. StoreTypes'
  BY Parts, <1>1 DEF StoreTypes
<1>5. PlainTypes'
  BY Parts, <1>1 DEF PlainTypes, Places
<1>6. TargetTypes'
  BY Parts, <1>1 DEF TargetTypes, Forward
<1>7. PlaceInv'
  BY Parts, <1>1, Numbers DEF PlaceInv, Applying, Failing, Expiring, Readable
<1>8. CursorInv'
  BY Parts, <1>1, Numbers DEF CursorInv, Asking, Forward
<1>9. JobInv'
  BY Parts, <1>1 DEF JobInv, Drops
<1>10. ASSUME FilesReadable PROVE ReceiptInv'
  <2>1. Valid(batch, cursor[batch] + 1) /\ ReceiptInv
    BY Parts, <1>1, <1>10 DEF CursorInv
  <2>2. ASSUME NEW b \in Positions
       PROVE  (\E n \in 1..cursor'[b] : ~Valid(b, n))
              <=> \E n \in 1..cursor[b] : ~Valid(b, n)
    <3>1. CASE b = batch
      <4>1. 1..cursor'[b] = 1..cursor[b] \cup {cursor[b] + 1}
        BY <1>1, <3>1 DEF Forward
      <4> QED BY <2>1, <3>1, <4>1
    <3>2. CASE b # batch
      BY Parts, <3>2, Numbers DEF Forward
    <3> QED BY <3>1, <3>2
  <2> QED BY <1>1, <2>1, <2>2 DEF ReceiptInv, Applicable, Readable, Invalid, Settled, Failing, Valid
<1>11. ASSUME JobsInTime PROVE SoleInv'
  BY Parts, <1>1, <1>11 DEF SoleInv
<1>12. ASSUME LedgerKept PROVE DatesInv'
  BY Parts, <1>1, <1>12, Numbers, KeptInTime DEF DatesInv, LedgerCovers, Known, Asking
<1>13. ASSUME LedgerKept PROVE TrackInv'
  BY Parts, <1>1, <1>13, Numbers, KeptInTime DEF TrackInv, Tracking, Known, Dated, Asking, PlaceInv,
     Forward
<1>14. ASSUME LedgerKept PROVE ExpireInv'
  BY Parts, <1>1, <1>14, Numbers DEF ExpireInv
<1>15. ASSUME OlderFirst PROVE OrderInv'
  BY Parts, <1>1, <1>15, Numbers DEF OrderInv, Settled, Readable, PlaceInv, Applying, Failing, Drops
<1> QED BY <1>2, <1>3, <1>4, <1>5, <1>6, <1>7, <1>8, <1>9, <1>10, <1>11, <1>12, <1>13, <1>14, <1>15
           DEF DrainInv, TypeInv

\* The job of an issue has ended well, and nothing of the issue is live.
LEMMA ArchivesKeeps ==
  ASSUME DrainInv, issue # NoDate, pc \in Asking, pc' = "retain", ledger' = ledger \ {issue},
           issue' = NoDate,
         expiring' = expiring \ {issue}, tidied' = TRUE, targets' = {}, missed' = FALSE,
           awaited' = 0, worked' = TRUE,
         UNCHANGED <<content, inbox, doneDir, failedDir, ledgerFile, purged, store, todo, batch,
           cursor, refused, loaded, backoff, due, expired, crashes, begun, base>>,
         faults' \in Nat, Drops, JobsInTime => \A k \in Slots : slots'[k] = NoJob,
         LedgerKept => Issue(store, issue) = {}
  PROVE  DrainInv'
<1>1. /\ UNCHANGED <<content, inbox, doneDir, failedDir, ledgerFile, purged, store, todo, batch,
                     cursor, refused, loaded, backoff, due, expired, crashes, begun, base>>
      /\ Positions' = Positions /\ issue # NoDate /\ pc \in Asking /\ pc' = "retain"
      /\ ledger' = ledger \ {issue} /\ issue' = NoDate
      /\ expiring' = expiring \ {issue} /\ tidied' = TRUE /\ targets' = {} /\ missed' = FALSE
      /\ awaited' = 0 /\ worked' = TRUE
      /\ faults' \in Nat /\ Drops /\ (JobsInTime => \A k \in Slots : slots'[k] = NoJob)
      /\ LedgerKept => Issue(store, issue) = {}
  BY Parts DEF Positions, disk, inHand, retain, job, kept, dates
<1>2. BatchTypes'
  BY Parts, <1>1 DEF BatchTypes, Positions
<1>3. DateTypes'
  BY Parts, <1>1 DEF DateTypes, Drops
<1>4. StoreTypes'
  BY Parts, <1>1 DEF StoreTypes
<1>5. PlainTypes'
  BY Parts, <1>1 DEF PlainTypes, Places
<1>6. TargetTypes'
  BY Parts, <1>1 DEF TargetTypes, Drops
<1>7. PlaceInv'
  BY Parts, <1>1, Numbers DEF PlaceInv, Applying, Failing, Expiring, Asking
<1>8. CursorInv'
  BY Parts, <1>1 DEF CursorInv, Asking
<1>9. JobInv'
  BY Parts, <1>1 DEF JobInv, Drops
<1>10. ASSUME FilesReadable PROVE ReceiptInv'
  BY Parts, <1>1, <1>10, Numbers DEF ReceiptInv, Applicable, Readable, Invalid, Settled, Failing,
     Valid
<1>11. ASSUME JobsInTime PROVE SoleInv'
  BY Parts, <1>1, <1>11 DEF SoleInv
<1>12. ASSUME LedgerKept PROVE DatesInv'
  <2>1. \A i \in Live(store) : store[i].date # issue
    BY <1>1, <1>12 DEF Issue
  <2> QED BY Parts, <1>1, <1>12, <2>1 DEF DatesInv, LedgerCovers, Known, Asking
<1>13. ASSUME LedgerKept PROVE TrackInv'
  BY Parts, <1>1, <1>13, Numbers, KeptInTime DEF TrackInv, Tracking, Known, Dated, Asking, PlaceInv,
     Expiring
<1>14. ASSUME LedgerKept PROVE ExpireInv'
  BY Parts, <1>1, <1>14 DEF ExpireInv
<1>15. ASSUME OlderFirst PROVE OrderInv'
  BY Parts, <1>1, <1>15, Numbers DEF OrderInv, Settled, Readable, PlaceInv, Applying, Drops
<1> QED BY <1>2, <1>3, <1>4, <1>5, <1>6, <1>7, <1>8, <1>9, <1>10, <1>11, <1>12, <1>13, <1>14, <1>15
           DEF DrainInv, TypeInv

\* The job that listed an issue has answered: the list is what there is to archive.
LEMMA CollectsKeeps ==
  ASSUME DrainInv, pc = "wait", pc' = "archive", awaited' = 0, targets' \subseteq Ids,
           missed' \in BOOLEAN,
         slots' = [slots EXCEPT ![awaited] = NoJob],
         UNCHANGED <<content, inbox, doneDir, failedDir, ledgerFile, purged, store, todo, batch,
           worked, issue, expiring, tidied, cursor, refused, ledger, loaded, backoff, due, expired,
             crashes, faults, begun, base>>,
         targets' = targets \cup slots[awaited].found,
         missed' = (missed \/ slots[awaited].status = "error"), slots[awaited].status # "queued"
  PROVE  DrainInv'
<1>1. /\ UNCHANGED <<content, inbox, doneDir, failedDir, ledgerFile, purged, store, todo, batch,
                     worked, issue, expiring, tidied, cursor, refused, ledger, loaded, backoff, due,
                     expired, crashes, faults, begun, base>>
      /\ Positions' = Positions /\ pc = "wait" /\ pc' = "archive" /\ awaited' = 0
      /\ targets' \subseteq Ids /\ missed' \in BOOLEAN
      /\ targets' = targets \cup slots[awaited].found
           /\ missed' = (missed \/ slots[awaited].status = "error")
      /\ slots[awaited].status \in {"ok", "error"} /\ Drops
           /\ (JobsInTime => \A k \in Slots : slots'[k] = NoJob)
  <2>1. awaited \in Slots /\ slots[awaited] \in Jobs /\ slots[awaited].status \in {"ok", "error"}
    BY Parts DEF JobInv, Jobs
  <2>2. Drops /\ slots'[awaited] = NoJob /\ \A k \in Slots : k # awaited => slots'[k] = slots[k]
    BY Parts, <2>1 DEF JobInv, Drops
  <2>3. ASSUME JobsInTime PROVE \A k \in Slots : slots'[k] = NoJob
    BY Parts, <2>2, <2>3 DEF SoleInv
  <2> QED BY <2>1, <2>2, <2>3 DEF Positions
<1>2. BatchTypes'
  BY Parts, <1>1 DEF BatchTypes, Positions
<1>3. DateTypes'
  BY Parts, <1>1 DEF DateTypes
<1>4. StoreTypes'
  BY Parts, <1>1 DEF StoreTypes
<1>5. PlainTypes'
  BY Parts, <1>1 DEF PlainTypes, Places
<1>6. TargetTypes'
  BY Parts, <1>1 DEF TargetTypes, Drops
<1>7. PlaceInv'
  BY Parts, <1>1, Numbers DEF PlaceInv, Applying, Failing, Expiring, Asking, Readable
<1>8. CursorInv'
  BY Parts, <1>1 DEF CursorInv, Valid, Asking
<1>9. JobInv'
  BY Parts, <1>1 DEF JobInv, Drops
<1>10. ASSUME FilesReadable PROVE ReceiptInv'
  BY Parts, <1>1, <1>10, Numbers DEF ReceiptInv, Applicable, Readable, Invalid, Settled, Failing,
     Valid
<1>11. ASSUME JobsInTime PROVE SoleInv'
  BY Parts, <1>1, <1>11 DEF SoleInv
<1>12. ASSUME LedgerKept PROVE DatesInv'
  BY Parts, <1>1, <1>12 DEF DatesInv, LedgerCovers, Known
<1>13. ASSUME LedgerKept PROVE TrackInv'
  BY Parts, <1>1, <1>13, Numbers DEF TrackInv, Tracking, Known, Dated, Asking, PlaceInv
<1>14. ASSUME LedgerKept PROVE ExpireInv'
  BY Parts, <1>1, <1>14 DEF ExpireInv
<1>15. ASSUME OlderFirst PROVE OrderInv'
  BY Parts, <1>1, <1>15, Numbers DEF OrderInv, Settled, Readable, PlaceInv, Applying
<1> QED BY <1>2, <1>3, <1>4, <1>5, <1>6, <1>7, <1>8, <1>9, <1>10, <1>11, <1>12, <1>13, <1>14, <1>15
           DEF DrainInv, TypeInv

\* A batch arrives, younger than all there are.
LEMMA EnqueueKeeps ==
  ASSUME DrainInv, NEW s \in Shapes, Enqueue(s)
  PROVE  DrainInv'
<1>1. /\ UNCHANGED <<doneDir, failedDir, ledgerFile, purged, store, pc, todo, batch, worked, issue,
                     expiring, tidied, targets, missed, awaited, cursor, refused, ledger, loaded,
                     backoff, due, slots, expired, crashes, faults, begun, base>>
      /\ Len(content) \in Nat /\ Len(content) < MaxBatches
      /\ content' \in Seq(Shapes) /\ Len(content') = Len(content) + 1
      /\ Positions' = Positions \cup {Len(content) + 1} /\ Len(content) + 1 \notin Positions
      /\ inbox' = inbox \cup {Len(content) + 1}
      /\ \A b \in Positions : content'[b] = content[b] /\ b < Len(content) + 1
  <2>1. Len(content) \in Nat /\ content \in Seq(Shapes)
    BY Parts, BatchFacts DEF BatchTypes
  <2>2. /\ content' = Append(content, s) /\ inbox' = inbox \cup {Len(content) + 1}
        /\ Len(content) < MaxBatches
        /\ UNCHANGED <<doneDir, failedDir, ledgerFile, purged, store, pc, inHand, retain, job, kept,
                       dates, backoff, outside, faults, origin>>
    BY DEF Enqueue
  <2>3. content' \in Seq(Shapes) /\ Len(content') = Len(content) + 1
        /\ \A b \in 1..Len(content) : content'[b] = content[b]
    BY <2>1, <2>2, AppendProperties
  <2> QED BY <2>1, <2>2, <2>3 DEF Positions, inHand, retain, job, kept, dates, outside, origin
<1>2. BatchTypes'
  <2>1. ASSUME NEW S, S \subseteq Positions PROVE S \subseteq Positions'
    BY <1>1, <2>1
  <2> QED BY Parts, <1>1, DrainAssumption DEF BatchTypes
<1>3. DateTypes'
  BY Parts, <1>1 DEF DateTypes
<1>4. StoreTypes'
  BY Parts, <1>1 DEF StoreTypes
<1>5. PlainTypes'
  BY Parts, <1>1 DEF PlainTypes, Places
<1>6. TargetTypes'
  BY Parts, <1>1 DEF TargetTypes
<1>7. PlaceInv'
  BY Parts, <1>1, Numbers DEF PlaceInv, Applying, Failing, Expiring, Readable
<1>8. CursorInv'
  <2>1. Len(content) + 1 \in 1..MaxBatches /\ cursor[Len(content) + 1] = 0
    BY Parts, <1>1, DrainAssumption DEF CursorInv
  <2>2. s \in Shapes => Len(s.records) \in Nat
    BY DrainAssumption, LenProperties
  <2>3. content'[Len(content) + 1] = s
    BY Parts, <1>1, AppendProperties DEF Enqueue
  <2>4. pc \in Asking /\ issue = NoDate => batch \in Positions
    BY Parts, Numbers DEF PlaceInv, Applying
  <2> QED BY Parts, <1>1, <2>1, <2>4 DEF CursorInv, Valid
<1>9. JobInv'
  BY Parts, <1>1 DEF JobInv
<1>10. ASSUME FilesReadable PROVE ReceiptInv'
  <2>1. ReceiptInv /\ cursor[Len(content) + 1] = 0 /\ refused \subseteq Positions
        /\ Len(content) + 1 \in 1..MaxBatches
        /\ doneDir \subseteq Positions /\ failedDir \cup purged \subseteq Positions
    BY Parts, <1>1, <1>10, DrainAssumption DEF CursorInv, BatchTypes
  <2>2. ASSUME NEW b \in Positions
       PROVE  /\ Applicable(b)' <=> Applicable(b)
              /\ Readable(b)' <=> Readable(b)
              /\ \A n : Valid(b, n)' <=> Valid(b, n)
    BY <1>1 DEF Applicable, Readable, Invalid, Valid
  <2>3. Settled' = Settled
    BY Parts, <1>1, Numbers DEF Settled
  <2>4. Failing => batch \in Positions
    BY Parts, Numbers DEF PlaceInv
  <2>5. \A b \in Positions' : b \in refused <=> \E n \in 1..cursor[b] : ~Valid(b, n)'
    BY <1>1, <2>1, <2>2 DEF ReceiptInv
  <2>6. \A b \in doneDir : Applicable(b)'
    BY <2>1, <2>2 DEF ReceiptInv
  <2>7. \A b \in failedDir \cup purged : ~Applicable(b)'
    BY <2>1, <2>2 DEF ReceiptInv
  <2>8. Failing => content'[batch].kind = "malformed"
    BY <1>1, <2>1, <2>4 DEF ReceiptInv, Readable
  <2> QED BY <1>1, <2>1, <2>3, <2>5, <2>6, <2>7, <2>8 DEF ReceiptInv, Failing, Readable
<1>11. ASSUME JobsInTime PROVE SoleInv'
  BY Parts, <1>1, <1>11 DEF SoleInv
<1>12. ASSUME LedgerKept PROVE DatesInv'
  BY Parts, <1>1, <1>12 DEF DatesInv, LedgerCovers, Known
<1>13. ASSUME LedgerKept PROVE TrackInv'
  <2>1. TrackInv /\ cursor[Len(content) + 1] = 0 /\ Len(content) + 1 # batch /\ Len(content) + 1 # 0
    BY Parts, <1>1, <1>13, DrainAssumption, Numbers DEF CursorInv
  <2>2. ASSUME NEW b \in inbox PROVE content'[b] = content[b] /\ Dated(b)' = Dated(b)
    BY Parts, <1>1, Numbers DEF Dated
  <2>3. ASSUME NEW b \in inbox', cursor[b] > 0 \/ b = batch PROVE b \in inbox
    BY <1>1, <2>1, <2>3
  <2>4. ASSUME NEW b \in inbox', content'[b].kind = "ingest",
               cursor[b] > 0 \/ (b = batch /\ Tracking)
        PROVE  Dated(b)' \subseteq ledger
    BY <2>1, <2>2, <2>3, <2>4 DEF TrackInv
  <2>5. pc = "scan" => batch \notin inbox'
    BY <1>1, <2>1 DEF TrackInv
  <2>6. pc # "idle" => \A b \in inbox' : cursor[b] > 0 => b \in todo \cup {batch}
    BY <2>1, <2>3 DEF TrackInv
  <2> QED BY <1>1, <2>1, <2>4 DEF TrackInv, Tracking, Known
<1>14. ASSUME LedgerKept PROVE ExpireInv'
  BY Parts, <1>1, <1>14 DEF ExpireInv
<1>15. ASSUME OlderFirst PROVE OrderInv'
  <2>1. Settled' = Settled /\ Settled \subseteq Positions /\ OrderInv
    BY Parts, <1>1, <1>15, Numbers DEF Settled
  <2>2. \A b \in inbox : Readable(b)' <=> Readable(b)
    BY Parts, <1>1, Numbers DEF Readable
  <2>3. \A x \in todo \cup {batch} : x < Len(content) + 1
    <3>1. batch \in Positions \cup {0}
      BY Parts DEF BatchTypes
    <3> QED BY Parts, <1>1, <3>1, Numbers
  <2>4. \A b \in inbox' : Readable(b)' => \A x \in Settled : x < b
    BY <1>1, <2>1, <2>2 DEF OrderInv
  <2>5. pc # "idle" => \A b \in inbox' : Readable(b)' =>
          b \in todo \/ (b = batch /\ pc # "scan") \/ (\A x \in todo \cup {batch} : x < b)
    BY <1>1, <2>1, <2>2, <2>3 DEF OrderInv
  <2> QED BY <1>1, <2>1, <2>4, <2>5 DEF OrderInv
<1> QED BY <1>2, <1>3, <1>4, <1>5, <1>6, <1>7, <1>8, <1>9, <1>10, <1>11, <1>12, <1>13, <1>14, <1>15
           DEF DrainInv, TypeInv

\* A job runs: what it brings to life is what the batch in hand has, with a date the ledger
\* on disk has.
LEMMA RunJobKeeps ==
  ASSUME DrainInv, NEW k \in Slots, RunJob(k)
  PROVE  DrainInv'
<1>1. /\ UNCHANGED <<content, inbox, doneDir, failedDir, ledgerFile, purged, pc, todo, batch,
                     worked, issue, expiring, tidied, targets, missed, awaited, cursor, refused,
                     ledger, loaded, backoff, due, expired, crashes, begun, base>>
      /\ Positions' = Positions /\ faults' \in Nat /\ Runs(k)
  <2>1. Runs(k)
    BY Parts, RunJobRuns
  <2>2. faults' \in Nat
    BY Parts DEF RunJob, Fault, NoFault, PlainTypes
  <2> QED BY <2>1, <2>2 DEF RunJob, Positions, disk, inHand, retain, kept, dates, outside, origin
<1>2. BatchTypes'
  BY Parts, <1>1 DEF BatchTypes, Positions
<1>3. DateTypes'
  BY Parts, <1>1 DEF DateTypes
<1>4. StoreTypes'
  BY Parts, <1>1 DEF StoreTypes, Runs
<1>5. PlainTypes'
  BY Parts, <1>1 DEF PlainTypes, Places
<1>6. TargetTypes'
  BY Parts, <1>1 DEF TargetTypes
<1>7. PlaceInv'
  BY Parts, <1>1 DEF PlaceInv, Applying, Failing, Expiring, Readable
<1>8. CursorInv'
  BY Parts, <1>1 DEF CursorInv, Valid
<1>9. JobInv'
  BY Parts, <1>1 DEF JobInv, Runs
<1>10. ASSUME FilesReadable PROVE ReceiptInv'
  BY Parts, <1>1, <1>10 DEF ReceiptInv, Applicable, Readable, Invalid, Settled, Failing, Valid
<1>11. ASSUME JobsInTime PROVE SoleInv'
  BY Parts, <1>1, <1>11 DEF SoleInv, Runs
<1>12. ASSUME LedgerKept PROVE DatesInv'
  <2>1. \A i \in Live(store') : (i \in Live(store) /\ store'[i] = store[i])
        \/ (loaded /\ Known(store'[i].date) /\ pc = "wait")
    <3>1. slots[k].op = "ingest" => Known(slots[k].arg.date)
      BY Parts, <1>1, <1>12 DEF TrackInv, Runs
    <3>2. loaded /\ pc = "wait"
      <4>1. k = awaited /\ k # 0
        BY Parts, <1>1, <1>12, KeptInTime DEF SoleInv, Runs, Slots
      <4> QED BY Parts, <4>1 DEF JobInv, PlaceInv
    <3> QED BY <1>1, <3>1, <3>2 DEF Runs, Enters
  <2> QED BY Parts, <1>1, <1>12, <2>1 DEF DatesInv, LedgerCovers, Known
<1>13. ASSUME LedgerKept PROVE TrackInv'
  BY Parts, <1>1, <1>13, KeptInTime DEF TrackInv, Tracking, Known, Dated, Asking, Runs
<1>14. ASSUME LedgerKept PROVE ExpireInv'
  <2>1. k = awaited /\ k # 0 /\ pc = "wait"
    BY Parts, <1>1, <1>14, KeptInTime DEF SoleInv, JobInv, Runs, Slots
  <2>2. ASSUME issue # NoDate PROVE Issue(store', issue) \subseteq Issue(store, issue)
    <3>1. slots[k].op # "ingest"
      BY Parts, <1>1, <1>14, <2>2 DEF TrackInv, Runs
    <3> QED BY <1>1, <3>1 DEF Runs, Issue
  <2>3. slots'[k].status = "ok" /\ slots[k].op = "archive"
          => slots[k].arg \notin Issue(store', issue)
    BY <1>1, <2>1 DEF Runs, Issue
  <2>4. slots[k].op = "list" => store' = store
    BY <1>1 DEF Runs
  <2>5. /\ slots'[k].op = slots[k].op /\ slots'[k].arg = slots[k].arg
        /\ slots[k].status = "queued" /\ slots'[k].status \in {"ok", "error"}
        /\ slots'[k].status = "ok" /\ slots[k].op = "list"
             => slots'[k].found = Issue(store, slots[k].arg)
    BY <1>1, <2>1 DEF Runs
  <2>6. UNCHANGED <<pc, issue, awaited, targets, missed>> /\ ExpireInv
    BY Parts, <1>1, <1>14
  <2> QED BY <2>1, <2>2, <2>3, <2>5, <2>6 DEF ExpireInv
<1>15. ASSUME OlderFirst PROVE OrderInv'
  BY Parts, <1>1, <1>15 DEF OrderInv, Settled, Readable, PlaceInv, Runs
<1> QED BY <1>2, <1>3, <1>4, <1>5, <1>6, <1>7, <1>8, <1>9, <1>10, <1>11, <1>12, <1>13, <1>14, <1>15
           DEF DrainInv, TypeInv

\* Nothing happens.
LEMMA StutterKeeps ==
  ASSUME DrainInv, UNCHANGED vars
  PROVE  DrainInv'
<1>1. /\ UNCHANGED <<content, inbox, doneDir, failedDir, ledgerFile, purged, store, pc, todo, batch,
                     worked, issue, expiring, tidied, targets, missed, awaited, cursor, refused,
                     ledger, loaded, backoff, due, slots, expired, crashes, faults, begun, base>>
      /\ Positions' = Positions /\ TRUE
  BY Parts DEF vars, Positions, disk, inHand, retain, job, kept, dates, outside, origin
<1>2. BatchTypes'
  BY Parts, <1>1 DEF BatchTypes, Positions
<1>3. DateTypes'
  BY Parts, <1>1 DEF DateTypes
<1>4. StoreTypes'
  BY Parts, <1>1 DEF StoreTypes
<1>5. PlainTypes'
  BY Parts, <1>1 DEF PlainTypes, Places
<1>6. TargetTypes'
  BY Parts, <1>1 DEF TargetTypes
<1>7. PlaceInv'
  BY Parts, <1>1 DEF PlaceInv, Applying, Failing, Expiring, Readable
<1>8. CursorInv'
  BY Parts, <1>1 DEF CursorInv, Valid
<1>9. JobInv'
  BY Parts, <1>1 DEF JobInv
<1>10. ASSUME FilesReadable PROVE ReceiptInv'
  BY Parts, <1>1, <1>10 DEF ReceiptInv, Applicable, Readable, Invalid, Settled, Failing, Valid
<1>11. ASSUME JobsInTime PROVE SoleInv'
  BY Parts, <1>1, <1>11 DEF SoleInv
<1>12. ASSUME LedgerKept PROVE DatesInv'
  BY Parts, <1>1, <1>12 DEF DatesInv, LedgerCovers, Known
<1>13. ASSUME LedgerKept PROVE TrackInv'
  BY Parts, <1>1, <1>13 DEF TrackInv, Tracking, Known, Dated
<1>14. ASSUME LedgerKept PROVE ExpireInv'
  BY Parts, <1>1, <1>14 DEF ExpireInv
<1>15. ASSUME OlderFirst PROVE OrderInv'
  BY Parts, <1>1, <1>15 DEF OrderInv, Settled, Readable
<1> QED BY <1>2, <1>3, <1>4, <1>5, <1>6, <1>7, <1>8, <1>9, <1>10, <1>11, <1>12, <1>13, <1>14, <1>15
           DEF DrainInv, TypeInv

\* Leaving the slots alone drops no job, and in time there is none.
LEMMA NothingDropped ==
  ASSUME DrainInv, pc # "wait", UNCHANGED slots
  PROVE  Drops /\ (JobsInTime => \A k \in Slots : slots'[k] = NoJob)
<1>1. JobInv
  BY DEF DrainInv, TypeInv
<1> QED BY <1>1, NoneAsked DEF JobInv, Drops

\* What a transient failure does, of a batch or of an issue.
LEMMA FailsKeeps ==
  ASSUME DrainInv, Fails, UNCHANGED <<disk, store, outside, origin>>, faults' \in Nat,
         pc \in {"apply", "source"} \cup Asking, Drops, JobsInTime
           => \A k \in Slots : slots'[k] = NoJob
  PROVE  DrainInv'
<1>0. PlaceInv /\ PlainTypes
  BY DEF DrainInv, TypeInv
<1>1. Leaves
  <2>1. CASE issue = NoDate
    BY <2>1, EndPassLeaves DEF Fails, Stall
  <2>2. CASE issue # NoDate
    <3>1. todo' = {} /\ batch' = 0
      BY <1>0, <2>2 DEF Fails, PlaceInv, Expiring
    <3>2. pc' \in {"idle", "tidy"} /\ tidied' = FALSE /\ worked' = (worked /\ tidied)
      BY <2>2 DEF Fails
    <3>3. worked' \in BOOLEAN
      BY <3>2
    <3> QED BY <2>2, <3>1 DEF Fails, Leaves
  <2> QED BY <2>1, <2>2
<1>2. UNCHANGED <<cursor, refused, ledger, loaded>> /\ due' \in BOOLEAN /\ backoff' \in BOOLEAN
  BY <1>0 DEF Fails, Stall, kept, dates, PlainTypes
<1> QED BY <1>1, <1>2, LeavesKeeps DEF disk, outside, origin, Asking

\* What a job that ended well does, of a batch or of an issue.
LEMMA SucceedsKeeps ==
  ASSUME DrainInv, Succeeds, UNCHANGED <<disk, store, outside, origin>>, faults' \in Nat,
         pc \in Asking, Drops, JobsInTime => \A k \in Slots : slots'[k] = NoJob,
         issue # NoDate /\ LedgerKept => Issue(store, issue) = {}
  PROVE  DrainInv'
<1>1. CASE issue = NoDate
  <2>1. batch \in Positions /\ cursor[batch] < Len(content[batch].records) /\ BatchTypes
        /\ CursorInv
    BY <1>1, Numbers DEF DrainInv, TypeInv, PlaceInv, Applying, CursorInv
  <2>2. Forward
    BY <1>1, <2>1, CursorMoves DEF Succeeds
  <2> QED BY <1>1, <2>2, AdvancesKeeps DEF Succeeds, retain, disk, outside, origin
<1>2. CASE issue # NoDate
  BY <1>2, ArchivesKeeps DEF Succeeds, disk, outside, origin
<1> QED BY <1>1, <1>2

\* A job is submitted, or refused because memory is busy.
LEMMA SubmitKeeps ==
  ASSUME DrainInv, NEW op \in Ops, NEW arg \in Args(op), NEW rest \in SUBSET Ids,
           Submit(op, arg, rest),
         UNCHANGED <<disk, store, outside, origin>>, pc \in {"apply", "source", "archive"},
         pc = "apply" => ~AtEnd /\ Valid(batch, cursor[batch] + 1),
         op = "ingest" => pc = "apply" /\ arg.op = "ingest" /\ arg.id \in Ids /\ arg.text \in Texts
           /\ content[batch].kind = "ingest" /\ (arg.date = NoDate \/ arg.date \in Dated(batch)),
         issue # NoDate => (op = "list" /\ arg = issue)
           \/ (op = "archive" /\ targets = rest \cup {arg} /\ pc = "archive")
  PROVE  DrainInv'
<1>1. CASE Fails /\ UNCHANGED slots /\ (Fault("busy") \/ NoFault)
  <2>1. faults' \in Nat
    BY <1>1 DEF Fault, NoFault, DrainInv, TypeInv, PlainTypes
  <2> QED BY <1>1, <2>1, FailsKeeps, NothingDropped DEF Asking
<1>2. ASSUME NEW k \in Slots, slots[k] = NoJob, slots' = [slots EXCEPT ![k] = Job(op, arg)],
             awaited' = k, targets' = rest, pc' = "wait", NoFault,
             UNCHANGED <<inHand, retain, missed, kept, dates, backoff>>
      PROVE  DrainInv'
  BY <1>2, SubmitsKeeps
<1> QED BY <1>1, <1>2 DEF Submit, Job

\* A valid record goes to memory.
LEMMA ApplyKeeps == ASSUME DrainInv, Apply PROVE DrainInv'
<1>0. BatchTypes /\ PlaceInv /\ CursorInv
  BY DEF DrainInv, TypeInv
<1>1. pc = "apply" /\ issue = NoDate /\ batch \in Positions /\ ~AtEnd /\ Record.valid
      /\ UNCHANGED <<disk, store, outside, origin>>
  BY <1>0, Numbers DEF Apply, PlaceInv, Applying, Asking
<1>2. cursor[batch] + 1 \in 1..Len(content[batch].records)
  BY <1>0, <1>1, Numbers DEF CursorInv, AtEnd
<1>3. Valid(batch, cursor[batch] + 1)
  BY <1>1 DEF Record, Valid
<1>4. /\ Record \in Records
      /\ \/ Record.op = "ingest" /\ content[batch].kind = "ingest" /\ Record.id \in Ids
              /\ Record.text \in Texts
            /\ (Record.date = NoDate \/ Record.date \in Dated(batch))
         \/ Record.op = "forget" /\ Record.id \in Ids
         \/ Record.op = "forgetSource" /\ Record.date \in Dates
  BY <1>0, <1>1, <1>2, RecordIs DEF Record
<1>5. CASE Record.op = "ingest"
  <2>1. Submit("ingest", Record, {}) /\ "ingest" \in Ops /\ Record \in Args("ingest")
    BY <1>4, <1>5 DEF Apply, Ops, Args
  <2> QED BY <1>1, <1>3, <1>4, <1>5, <2>1, SubmitKeeps
<1>6. CASE Record.op = "forget"
  <2>1. Submit("archive", Record.id, {}) /\ "archive" \in Ops /\ Record.id \in Args("archive")
    BY <1>4, <1>6 DEF Apply, Ops, Args
  <2> QED BY <1>1, <1>3, <2>1, SubmitKeeps
<1>7. CASE Record.op = "forgetSource"
  <2>1. Submit("list", Record.date, {}) /\ "list" \in Ops /\ Record.date \in Args("list")
    BY <1>4, <1>7 DEF Apply, Ops, Args
  <2> QED BY <1>1, <1>3, <2>1, SubmitKeeps
<1> QED BY <1>4, <1>5, <1>6, <1>7

\* The next id of the issue goes to memory, or there is none.
LEMMA ArchiveKeeps == ASSUME DrainInv, Archive PROVE DrainInv'
<1>0. pc = "archive" /\ UNCHANGED <<disk, store, outside, origin>> /\ targets \subseteq Ids
  BY DEF Archive, DrainInv, TypeInv, TargetTypes
<1>1. ASSUME NEW i \in targets, Submit("archive", i, targets \ {i}) PROVE DrainInv'
  <2>1. "archive" \in Ops /\ i \in Args("archive") /\ targets = (targets \ {i}) \cup {i}
        /\ targets \ {i} \in SUBSET Ids
    BY <1>0, <1>1 DEF Ops, Args
  <2> QED BY <1>0, <1>1, <2>1, SubmitKeeps
<1>2. ASSUME Fails, UNCHANGED slots, faults' \in Nat PROVE DrainInv'
  BY <1>0, <1>2, FailsKeeps, NothingDropped DEF Asking
<1>3. ASSUME targets = {}, ~missed, NoFault, Succeeds, UNCHANGED slots PROVE DrainInv'
  <2>1. faults' \in Nat
    BY <1>3 DEF NoFault, DrainInv, TypeInv, PlainTypes
  <2>2. issue # NoDate /\ LedgerKept => Issue(store, issue) = {}
    BY <1>0, <1>3 DEF DrainInv, ExpireInv
  <2> QED BY <1>0, <1>3, <2>1, <2>2, SucceedsKeeps, NothingDropped DEF Asking
<1>4. Fault("slow") \/ NoFault => faults' \in Nat
  BY DEF Fault, NoFault, DrainInv, TypeInv, PlainTypes
<1> QED BY <1>1, <1>2, <1>3, <1>4 DEF Archive

\* The issue's items are listed.
LEMMA ArchiveSourceKeeps == ASSUME DrainInv, ArchiveSource PROVE DrainInv'
<1>1. pc = "source" /\ issue # NoDate /\ issue \in Dates /\ Submit("list", issue, {})
      /\ UNCHANGED <<disk, store, outside, origin>>
  BY DEF ArchiveSource, DrainInv, TypeInv, PlaceInv, DateTypes
<1>2. "list" \in Ops /\ issue \in Args("list")
  BY <1>1 DEF Ops, Args
<1> QED BY <1>1, <1>2, SubmitKeeps

\* The job that was waited for has ended.
LEMMA AnsweredKeeps == ASSUME DrainInv, Answered PROVE DrainInv'
<1>0. JobInv /\ TargetTypes /\ PlainTypes
  BY DEF DrainInv, TypeInv
<1>1. /\ pc = "wait" /\ awaited \in Slots /\ slots[awaited] \in Jobs
      /\ slots[awaited].status # "queued"
      /\ slots' = [slots EXCEPT ![awaited] = NoJob] /\ UNCHANGED <<disk, store, outside, faults,
                                                                   origin>>
  BY <1>0 DEF Answered, JobInv
<1>2. Drops /\ (JobsInTime => \A k \in Slots : slots'[k] = NoJob) /\ faults' \in Nat
  <2>1. slots'[awaited] = NoJob /\ (\A k \in Slots : k # awaited => slots'[k] = slots[k]) /\ Drops
    BY <1>0, <1>1 DEF JobInv, Drops
  <2> QED BY <1>0, <1>1, <2>1 DEF DrainInv, SoleInv, PlainTypes
<1>3. ASSUME pc' = "archive", awaited' = 0, targets' = targets \cup slots[awaited].found,
             missed' = (missed \/ slots[awaited].status = "error"),
             UNCHANGED <<inHand, retain, kept, dates, backoff>>
      PROVE  DrainInv'
  <2>1. targets' \subseteq Ids
    BY <1>0, <1>1, <1>3 DEF TargetTypes, Jobs
  <2>2. missed' \in BOOLEAN
    BY <1>0, <1>3 DEF PlainTypes
  <2> QED BY <1>1, <1>3, <2>1, <2>2, CollectsKeeps DEF disk, inHand, retain, kept, dates, outside,
             origin
<1>4. ASSUME slots[awaited].op = "ingest", Succeeds PROVE DrainInv'
  <2>1. LedgerKept => issue = NoDate
    BY <1>0, <1>1, <1>4 DEF DrainInv, TrackInv, JobInv
  <2> QED BY <1>1, <1>2, <1>4, <2>1, SucceedsKeeps DEF Asking
<1>5. ASSUME Fails PROVE DrainInv'
  BY <1>1, <1>2, <1>5, FailsKeeps DEF Asking
<1> QED BY <1>3, <1>4, <1>5 DEF Answered

\* The job that was waited for is late.
LEMMA DeferredKeeps == ASSUME DrainInv, Deferred PROVE DrainInv'
<1>1. Drops /\ ~JobsInTime /\ faults' \in Nat
  BY DEF Deferred, Fault, JobsInTime, DrainInv, TypeInv, JobInv, Drops, PlainTypes
<1> QED BY <1>1, FailsKeeps DEF Deferred, Asking

\* The pass ends.
LEMMA EndPassKeeps ==
  ASSUME DrainInv, EndPass, UNCHANGED <<disk, store, slots, kept, ledger, loaded, outside,
           origin>>, faults' \in Nat,
         due' \in BOOLEAN, backoff' \in BOOLEAN, pc \notin {"idle", "save", "wait"}
  PROVE  DrainInv'
  BY LeavesKeeps, EndPassLeaves, NothingDropped DEF disk, kept, outside, origin

\* The pass has used up its budget.
LEMMA OutOfBudgetKeeps == ASSUME DrainInv, OutOfBudget PROVE DrainInv'
<1>1. faults' \in Nat /\ due' \in BOOLEAN /\ backoff' \in BOOLEAN
      /\ pc \in {"scan", "apply", "retain"}
  BY DEF OutOfBudget, dates, DrainInv, TypeInv, PlainTypes
<1> QED BY <1>1, EndPassKeeps DEF OutOfBudget, dates

\* A verdict is written, or the batch waits.
LEMMA ReceiptKeeps == ASSUME DrainInv, Receipt PROVE DrainInv'
<1>1. CASE UNCHANGED <<doneDir, failedDir>> /\ Fault("write") /\ Stall
  <2>1. faults' \in Nat /\ due' \in BOOLEAN /\ backoff' \in BOOLEAN /\ pc = "apply" /\ EndPass
        /\ UNCHANGED <<disk, store, slots, kept, ledger, loaded, outside, origin>>
    BY <1>1 DEF Receipt, Stall, Fault, dates, disk, DrainInv, TypeInv, PlainTypes
  <2> QED BY <2>1, EndPassKeeps
<1>2. CASE pc' = "remove"
  BY <1>2, WritesKeeps
<1> QED BY <1>1, <1>2 DEF Receipt

\* The batch leaves the inbox, or waits.
LEMMA RemoveFileKeeps == ASSUME DrainInv, RemoveFile PROVE DrainInv'
<1>1. CASE UNCHANGED inbox /\ Fault("write") /\ Stall
  <2>1. faults' \in Nat /\ due' \in BOOLEAN /\ backoff' \in BOOLEAN /\ pc = "remove" /\ EndPass
        /\ UNCHANGED <<disk, store, slots, kept, ledger, loaded, outside, origin>>
    BY <1>1 DEF RemoveFile, Stall, Fault, dates, disk, DrainInv, TypeInv, PlainTypes
  <2> QED BY <2>1, EndPassKeeps
<1>2. CASE pc' = "scan"
  BY <1>2, RemovesKeeps
<1> QED BY <1>1, <1>2 DEF RemoveFile

\* The first states: an empty spool and an empty store.
LEMMA DrainInitially == ASSUME Init PROVE DrainInv
<1>1. /\ content = <<>> /\ inbox = {} /\ doneDir = {} /\ failedDir = {} /\ ledgerFile = {}
      /\ purged = {}
      /\ pc = "idle" /\ todo = {} /\ batch = 0 /\ begun = 0 /\ issue = NoDate /\ expiring = {}
      /\ expired = {}
      /\ targets = {} /\ awaited = 0 /\ refused = {} /\ ledger = {}
      /\ worked = FALSE /\ tidied = FALSE /\ missed = FALSE /\ loaded = FALSE /\ due = TRUE
      /\ backoff = FALSE
      /\ crashes = 0 /\ faults = 0
  BY DEF Init
<1>2. /\ slots \in [Slots -> Jobs \cup {NoJob}] /\ (\A k \in Slots : slots[k] = NoJob)
      /\ cursor \in [1..MaxBatches -> Nat] /\ (\A b \in 1..MaxBatches : cursor[b] = 0)
      /\ store \in Stores /\ (\A i \in Ids : store[i] = Absent) /\ base \in Stores
  BY DEF Init, Stores
<1>3. Positions = {} /\ content \in Seq(Shapes) /\ Len(content) <= MaxBatches /\ Settled = {}
  <2>1. Len(content) = 0 /\ content \in Seq(Shapes)
    BY <1>1, EmptySeq
  <2> QED BY <2>1, DrainAssumption DEF Positions, Settled
<1>4. Live(store) = {}
  BY <1>2 DEF Live, Stored
<1>5. BatchTypes /\ DateTypes /\ StoreTypes /\ PlainTypes /\ TargetTypes
  BY <1>1, <1>2, <1>3 DEF BatchTypes, DateTypes, StoreTypes, PlainTypes, TargetTypes, Places
<1>6. PlaceInv /\ CursorInv /\ JobInv
  BY <1>1, <1>2, <1>3 DEF PlaceInv, Applying, Failing, Asking, CursorInv, JobInv
<1>7. ReceiptInv /\ SoleInv /\ OrderInv
  BY <1>1, <1>2, <1>3 DEF ReceiptInv, Failing, SoleInv, OrderInv
<1>8. DatesInv /\ TrackInv /\ ExpireInv
  BY <1>1, <1>2, <1>4 DEF DatesInv, LedgerCovers, TrackInv, ExpireInv
<1> QED BY <1>5, <1>6, <1>7, <1>8 DEF DrainInv, TypeInv

\* Every step of the drain, of memory, of the clock and every death keeps it.
LEMMA DrainInductive == DrainInv /\ [Next]_vars => DrainInv'
<1> SUFFICES ASSUME DrainInv, [Next]_vars PROVE DrainInv'
  OBVIOUS
<1>1. CASE DrainStep
  BY <1>1, LoadLedgerKeeps, StartPassKeeps, OutOfBudgetKeeps, LoadKeeps, QuarantineKeeps,
     BeginKeeps, SaveLedgerKeeps, RefuseKeeps, ApplyKeeps, ArchiveKeeps, AnsweredKeeps,
     DeferredKeeps, ReceiptKeeps, RemoveFileKeeps, RetentionKeeps, ArchiveIssueKeeps,
     ArchiveSourceKeeps, TidyKeeps DEF DrainStep
<1>2. CASE UNCHANGED vars
  BY <1>2, StutterKeeps
<1> QED BY <1>1, <1>2, EnqueueKeeps, RunJobKeeps, BackoffEndsKeeps, RetentionDueKeeps, ExpiresKeeps,
           CrashKeeps DEF Next

\* It always holds.
LEMMA AlwaysDrainInv == Spec => []DrainInv
  BY DrainInitially, DrainInductive, PTL DEF Spec

\* The invariant implies the types.
LEMMA TypesHold == DrainInv => TypeOK
<1> SUFFICES ASSUME DrainInv PROVE TypeOK
  OBVIOUS
<1>1. \A k \in Slots : slots[k] # NoJob => IsJob(slots[k])
  BY DEF DrainInv, TypeInv, JobInv, IsJob, Jobs, Ops
<1> QED BY <1>1 DEF TypeOK, DrainInv, TypeInv, BatchTypes, DateTypes, StoreTypes, PlainTypes,
    Places, TargetTypes, CursorInv, JobInv

\* The invariant implies that receipts are exact.
LEMMA ReceiptsHold == ASSUME DrainInv, FilesReadable PROVE Receipts
<1>1. ReceiptInv
  BY DEF DrainInv
<1> QED BY <1>1 DEF ReceiptInv, Receipts, Applicable, Readable

\* For any batches, ids, dates, bounds and faults: the spool, the pass and memory's jobs
\* keep their types (daemon.drain, ingest.spool).
THEOREM DrainTypes == Spec => []TypeOK
  BY AlwaysDrainInv, TypesHold, PTL

\* Unless a batch file cannot be read for now: a batch that left the inbox has one verdict,
\* its receipt if every record could be applied, else its reason, whatever was refused,
\* deferred, retried, replayed or could not be written (drain._finish, Spool.mark_done).
THEOREM ReceiptsAreExact ==
  ASSUME "read" \notin Faults
  PROVE  Spec => []Receipts
<1>1. DrainInv => Receipts
  BY ReceiptsHold DEF FilesReadable
<1> QED BY <1>1, AlwaysDrainInv, PTL

\* As long as files can be written, the ledger can be read and jobs keep their deadline:
\* the ledger on disk has the date of every live item, at every moment the daemon may die
\* (drain._track_issue_dates, _retention).
THEOREM LedgerMissesNothing ==
  ASSUME Faults \cap {"write", "ledger", "slow"} = {}
  PROVE  Spec => []LedgerCovers
<1>1. DrainInv => LedgerCovers
  BY DEF DrainInv, LedgerKept, JobsInTime, DatesInv
<1> QED BY <1>1, AlwaysDrainInv, PTL

\* A job brings a record to life only for the batch in hand, and every settled batch is
\* older than that.
LEMMA RunsInOrder ==
  ASSUME DrainInv, OlderFirst, NEW k \in Slots, RunJob(k), NEW i \in Ids, store'[i] # store[i],
           i \in Live(store')
  PROVE  \A b \in Settled : b <= store'[i].by
<1>0. BatchTypes /\ JobInv /\ StoreTypes /\ PlaceInv /\ OrderInv /\ SoleInv
  BY DEF DrainInv, TypeInv, OlderFirst
<1>1. Runs(k)
  BY <1>0, RunJobRuns
<1>2. slots[k].op = "ingest" /\ store'[i].by = slots[k].by
  BY <1>1 DEF Runs, Enters
<1>3. issue = NoDate /\ slots[k].by = batch
  BY <1>0, <1>1 DEF OrderInv, Runs
<1>4. pc = "wait"
  BY <1>0, <1>1 DEF JobInv, SoleInv, Runs, Slots
<1>5. batch \in inbox /\ Readable(batch)
  BY <1>0, <1>3, <1>4 DEF PlaceInv, Applying, Asking
<1>6. \A b \in Settled : b < batch
  BY <1>0, <1>5 DEF OrderInv
<1>7. Settled \subseteq Nat /\ batch \in Nat
  BY <1>0, Numbers DEF Settled
<1>8. store'[i].by = batch
  BY <1>2, <1>3
<1> QED BY <1>6, <1>7, <1>8

\* What OrderKept says of a step.
OrderStep == \A i \in Ids : store'[i] # store[i] /\ i \in Live(store')
               => \A b \in Settled : b <= store'[i].by

\* As long as jobs keep their deadline, and a file that cannot be read can at least be
\* moved: the store changes in enqueue order, whatever dies, fails and is retried (drain:
\* order is the contract).
THEOREM OlderBatchesFirst ==
  ASSUME "slow" \notin Faults, "read" \notin Faults \/ "write" \notin Faults
  PROVE  Spec => OrderKept
<1>1. OlderFirst
  BY DEF OlderFirst, JobsInTime
<1>2. DrainInv /\ [Next]_vars => [OrderStep]_vars
  <2> SUFFICES ASSUME DrainInv, Next PROVE OrderStep
    OBVIOUS
  <2>1. CASE \E k \in Slots : RunJob(k)
    BY <1>1, <2>1, RunsInOrder DEF OrderStep
  <2>2. CASE store' = store
    BY <2>2 DEF OrderStep
  <2> QED BY <2>1, <2>2 DEF Next, Enqueue, DrainStep, LoadLedger, StartPass, OutOfBudget, Load,
             Quarantine, Begin, SaveLedger, Refuse, Apply, Archive, Answered, Deferred, Receipt,
             RemoveFile, Retention, ArchiveIssue, ArchiveSource, Tidy, BackoffEnds, RetentionDue,
             Expire, Crash
<1> QED BY <1>2, AlwaysDrainInv, PTL DEF Spec, OrderKept, OrderStep

(***************************************************************************)
(* Replays converge: what one clean application of a batch would leave, in *)
(* closed form, and how near to it the store is at any moment.             *)
(***************************************************************************)
\* The records of a batch that write.
Puts(recs) == {n \in DOMAIN recs : recs[n].valid /\ recs[n].op = "ingest"}

\* The text of a record was another id's when the batch began, and stays that id's.
Held(s, recs, n) == \E i \in Clashes(s, recs[n]) : \A m \in Puts(recs) : recs[m].id # i

\* Record n of a batch that began with the store s writes i.
Writes(s, recs, i, n) == n \in Puts(recs) /\ ~Held(s, recs, n) /\ recs[n].id = i

\* It archives i.
Cuts(s, recs, i, n) ==
  /\ n \in DOMAIN recs /\ recs[n].valid
  /\ \/ recs[n].op = "ingest" /\ ~Held(s, recs, n) /\ recs[n].supersedes = i /\ recs[n].id # i
     \/ recs[n].op = "forget" /\ recs[n].id = i
     \/ recs[n].op = "forgetSource" /\ s[i] # Absent /\ s[i].date = recs[n].date

\* An entry, archived; and the entry a record of batch b writes.
Arch(e) == IF e = Absent THEN e ELSE [e EXCEPT !.life = "archived"]
Fresh(r, b) == [life |-> "live", text |-> r.text, date |-> r.date, by |-> b]

\* One of the first c records writes i; the last that does.
Written(s, recs, i, c) == \E n \in 1..c : Writes(s, recs, i, n)
IsLast(s, recs, i, c, p) ==
  p \in 1..c /\ Writes(s, recs, i, p) /\ \A q \in 1..c : Writes(s, recs, i, q) => q <= p
LastWrite(s, recs, i, c) == CHOOSE p \in Nat : IsLast(s, recs, i, c, p)

\* What the first c records leave of i, and of the store: the last write, or what was there,
\* archived if any of them archives it and none writes it later.
Wrote(s, recs, b, i, c) ==
  IF Written(s, recs, i, c) THEN Fresh(recs[LastWrite(s, recs, i, c)], b) ELSE s[i]
WasCut(s, recs, i, c) ==
  \E n \in 1..c : Cuts(s, recs, i, n) /\ \A m \in n..c : ~Writes(s, recs, i, m)
Clean(s, recs, b, c) ==
  [i \in Ids |-> IF WasCut(s, recs, i, c) THEN Arch(Wrote(s, recs, b, i, c))
                                          ELSE Wrote(s, recs, b, i, c)]

\* What a record leaves of i, from the entry e.
Touched(s, recs, b, i, n, e) ==
  IF Writes(s, recs, i, n) THEN Fresh(recs[n], b) ELSE IF Cuts(s, recs, i, n) THEN Arch(e) ELSE e

\* The entries i can have while the batch is applied, however often: its own from one of
\* the batch's records, or what was there.
Own(e, s, recs, b, i) ==
  \E n \in DOMAIN recs : Writes(s, recs, i, n) /\ e \in {Fresh(recs[n], b), Arch(Fresh(recs[n], b))}
Possible(e, s, recs, b, i) == e \in {s[i], Arch(s[i])} \/ Own(e, s, recs, b, i)

\* Of i the store t is as after c records of a clean application, as far as can be known: what
\* none of the c writes but a later one will may be anything possible, and what none writes may
\* be archived already.
Settles(t, s, recs, b, i, c) ==
  /\ Written(s, recs, i, c) => t[i] = Clean(s, recs, b, c)[i]
  /\ ~Written(s, recs, i, Len(recs)) =>
       t[i] \in {Clean(s, recs, b, c)[i], Clean(s, recs, b, Len(recs))[i]}

\* The store t when c records have been applied, and perhaps a part of the next one.
Near(t, s, recs, b, c) ==
  \A i \in Ids : /\ Possible(t[i], s, recs, b, i)
                 /\ Settles(t, s, recs, b, i, c) \/ Settles(t, s, recs, b, i, c + 1)

\* The records of a batch: all of them write, or none does.
Uniform(recs) ==
  /\ recs \in Seq(Records)
  /\ \A n \in DOMAIN recs :
       /\ recs[n].op = "ingest" => recs[n].id \in Ids /\ recs[n].text \in Texts
       /\ recs[n].op = "forget" => recs[n].id \in Ids
  /\ (\A n \in DOMAIN recs : recs[n].op = "ingest") \/ (\A n \in DOMAIN recs : recs[n].op # "ingest")

\* What is known of a record of such a batch.
LEMMA OneOf ==
  ASSUME NEW recs, Uniform(recs), NEW n \in DOMAIN recs
  PROVE  /\ recs[n] \in Records /\ n \in 1..Len(recs)
         /\ recs[n].op = "ingest" => recs[n].id \in Ids /\ recs[n].text \in Texts
         /\ recs[n].op = "forget" => recs[n].id \in Ids
<1>1. recs \in Seq(Records)
  BY DEF Uniform
<1>2. Len(recs) \in Nat /\ DOMAIN recs = 1..Len(recs) /\ recs[n] \in Records
  BY <1>1, LenProperties, ElementOfSeq
<1> QED BY <1>2 DEF Uniform

\* Archiving twice is archiving once, and keeps text and date.
LEMMA ArchIs ==
  ASSUME NEW e \in Entries \cup {Absent}
  PROVE  /\ Arch(e) \in Entries \cup {Absent} /\ Arch(Arch(e)) = Arch(e)
         /\ e = Absent <=> Arch(e) = Absent
         /\ e # Absent => /\ Arch(e).text = e.text /\ Arch(e).date = e.date
                          /\ Arch(e).life = "archived" /\ (e.life # "live" => Arch(e) = e)
<1>1. CASE e = Absent
  BY <1>1, DrainAssumption DEF Arch
<1>2. CASE e # Absent
  <2>1. e \in Entries
    BY <1>2
  <2>2. Arch(e) = [e EXCEPT !.life = "archived"]
    BY <1>2 DEF Arch
  <2>3. Arch(e) \in Entries /\ Arch(e).life = "archived" /\ Arch(e).text = e.text
        /\ Arch(e).date = e.date
    BY <2>1, <2>2 DEF Entries
  <2>4. Arch(e) # Absent
    BY <2>3, DrainAssumption
  <2>5. \A d \in Entries : d.life # "live" => [d EXCEPT !.life = "archived"] = d
    BY DEF Entries
  <2>6. Arch(Arch(e)) = [Arch(e) EXCEPT !.life = "archived"]
    BY <2>4 DEF Arch
  <2> QED BY <1>2, <2>1, <2>2, <2>3, <2>4, <2>5, <2>6
<1> QED BY <1>1, <1>2

\* What a record writes is an entry.
LEMMA FreshIs ==
  ASSUME NEW recs, Uniform(recs), NEW n \in Puts(recs), NEW b \in Nat
  PROVE  /\ Fresh(recs[n], b) \in Entries /\ Fresh(recs[n], b) # Absent
         /\ Fresh(recs[n], b).text = recs[n].text
         /\ Arch(Fresh(recs[n], b)) # Absent /\ Arch(Fresh(recs[n], b)).text = recs[n].text
<1>1. n \in DOMAIN recs /\ recs[n].op = "ingest"
  BY DEF Puts
<1>2. recs[n] \in Records /\ recs[n].text \in Texts
  BY <1>1, OneOf
<1>3. Fresh(recs[n], b) \in Entries /\ Fresh(recs[n], b).text = recs[n].text
  BY <1>2 DEF Fresh, Entries, Records
<1>4. Fresh(recs[n], b) # Absent
  BY <1>3, DrainAssumption
<1> HIDE DEF Fresh
<1> QED BY <1>3, <1>4, ArchIs

\* A set of numbers up to c has a last one.
LEMMA GreatestIs ==
  ASSUME NEW W, NEW c \in Nat, W \subseteq 1..c, W # {}
  PROVE  \E p \in W : \A q \in W : q <= p
<1> DEFINE Above == {k \in Nat : \A q \in W : q <= k}
<1>1. c \in Above
  OBVIOUS
<1>2. Above \in SUBSET Nat /\ Above # {}
  BY <1>1
<1>3. PICK k \in Above : \A y \in Above : k <= y
  BY <1>2, LeastIs
<1>4. CASE k \in W
  BY <1>4
<1>5. CASE k \notin W
  <2>1. \A q \in W : q <= k /\ q # k /\ q \in Nat
    BY <1>5, <1>3
  <2>2. k \in Nat /\ k # 0
    <3>1. PICK q \in W : q \in 1..c
      OBVIOUS
    <3>2. q <= k /\ q >= 1 /\ q \in Nat /\ k \in Nat
      BY <2>1, <3>1, <1>3
    <3> QED BY <3>2
  <2>3. k - 1 \in Nat /\ \A q \in W : q <= k - 1
    BY <2>1, <2>2
  <2>4. k - 1 \in Above
    BY <2>3
  <2>5. k <= k - 1
    BY <2>4, <1>3
  <2> QED BY <2>2, <2>5
<1> QED BY <1>4, <1>5

\* The last write.
LEMMA LastIs ==
  ASSUME NEW s, NEW recs, NEW i, NEW c \in Nat, Written(s, recs, i, c)
  PROVE  /\ LastWrite(s, recs, i, c) \in 1..c /\ Writes(s, recs, i, LastWrite(s, recs, i, c))
         /\ \A q \in 1..c : Writes(s, recs, i, q) => q <= LastWrite(s, recs, i, c)
<1> DEFINE W == {n \in 1..c : Writes(s, recs, i, n)}
<1>1. W \subseteq 1..c /\ W # {}
  BY DEF Written
<1>2. \E p \in W : \A q \in W : q <= p
  BY <1>1, GreatestIs
<1>3. \E p \in Nat : IsLast(s, recs, i, c, p)
  BY <1>2 DEF IsLast
<1>4. IsLast(s, recs, i, c, LastWrite(s, recs, i, c))
  BY <1>3 DEF LastWrite
<1> QED BY <1>4 DEF IsLast

\* What c records leave of i is possible, and its own if one of them wrote it.
LEMMA WroteIs ==
  ASSUME NEW s \in Stores, NEW recs, Uniform(recs), NEW b \in Nat, NEW i \in Ids, NEW c \in Nat
  PROVE  /\ Wrote(s, recs, b, i, c) \in Entries \cup {Absent}
         /\ Clean(s, recs, b, c)[i] \in {Wrote(s, recs, b, i, c), Arch(Wrote(s, recs, b, i, c))}
         /\ Clean(s, recs, b, c)[i] \in Entries \cup {Absent}
         /\ Written(s, recs, i, c) => Own(Clean(s, recs, b, c)[i], s, recs, b, i)
         /\ ~Written(s, recs, i, c) => Wrote(s, recs, b, i, c) = s[i]
         /\ Possible(Clean(s, recs, b, c)[i], s, recs, b, i)
<1> DEFINE w == Wrote(s, recs, b, i, c)
           p == LastWrite(s, recs, i, c)
<1>1. Clean(s, recs, b, c)[i] \in {w, Arch(w)}
  BY DEF Clean
<1>2. CASE Written(s, recs, i, c)
  <2>1. w = Fresh(recs[p], b)
    BY <1>2 DEF Wrote
  <2>2. Writes(s, recs, i, p) /\ p \in Puts(recs)
    BY <1>2, LastIs DEF Writes
  <2>3. Fresh(recs[p], b) \in Entries /\ p \in DOMAIN recs
    BY <2>2, FreshIs DEF Puts
  <2> HIDE DEF w, p
  <2>4. Own(Clean(s, recs, b, c)[i], s, recs, b, i)
    BY <1>1, <2>1, <2>2, <2>3 DEF Own
  <2>5. Clean(s, recs, b, c)[i] \in Entries \cup {Absent}
    BY <1>1, <2>1, <2>3, ArchIs
  <2> QED BY <1>1, <1>2, <2>1, <2>3, <2>4, <2>5 DEF Possible, w
<1>3. CASE ~Written(s, recs, i, c)
  <2>1. w = s[i]
    BY <1>3 DEF Wrote
  <2>2. s[i] \in Entries \cup {Absent}
    BY DEF Stores
  <2> HIDE DEF w, p
  <2>3. Clean(s, recs, b, c)[i] \in {s[i], Arch(s[i])}
    BY <1>1, <2>1
  <2>4. Clean(s, recs, b, c)[i] \in Entries \cup {Absent}
    BY <2>2, <2>3, ArchIs
  <2> QED BY <1>1, <1>3, <2>1, <2>2, <2>3, <2>4 DEF Possible, w
<1> QED BY <1>2, <1>3

\* One record more: it writes i, or archives it, or leaves it.
LEMMA CleanNext ==
  ASSUME NEW s \in Stores, NEW recs, Uniform(recs), NEW b \in Nat, NEW i \in Ids, NEW c \in Nat
  PROVE  Clean(s, recs, b, c + 1)[i]
           = Touched(s, recs, b, i, c + 1, Clean(s, recs, b, c)[i])
<1> DEFINE W(n) == Writes(s, recs, i, n)
           C(n) == Cuts(s, recs, i, n)
           w(k) == Wrote(s, recs, b, i, k)
<1>0. /\ 1..(c + 1) = 1..c \cup {c + 1} /\ c + 1 \notin 1..c /\ c + 1 \in 1..(c + 1)
      /\ (c + 1)..(c + 1) = {c + 1}
      /\ \A n \in 1..c : n..(c + 1) = n..c \cup {c + 1} /\ \A m \in n..c : m \in 1..c
  OBVIOUS
<1>1. \A k : Clean(s, recs, b, k)[i]
               = IF WasCut(s, recs, i, k) THEN Arch(w(k)) ELSE w(k)
  BY DEF Clean
<1>2. CASE W(c + 1)
  <2>1. Written(s, recs, i, c + 1)
    BY <1>0, <1>2 DEF Written
  <2>2. LastWrite(s, recs, i, c + 1) = c + 1
    <3>1. LastWrite(s, recs, i, c + 1) \in 1..(c + 1) /\ c + 1 <= LastWrite(s, recs, i, c + 1)
      BY <1>0, <1>2, <2>1, LastIs
    <3> QED BY <3>1
  <2>3. w(c + 1) = Fresh(recs[c + 1], b)
    BY <2>1, <2>2 DEF Wrote
  <2>4. ~WasCut(s, recs, i, c + 1)
    <3>1. \A n \in 1..(c + 1) : c + 1 \in n..(c + 1)
      OBVIOUS
    <3> QED BY <1>2, <3>1 DEF WasCut
  <2>5. Clean(s, recs, b, c + 1)[i] = Fresh(recs[c + 1], b)
    BY <1>1, <2>3, <2>4
  <2> QED BY <1>2, <2>5 DEF Touched
<1>3. CASE ~W(c + 1)
  <2>1. Written(s, recs, i, c + 1) <=> Written(s, recs, i, c)
    BY <1>0, <1>3 DEF Written
  <2>2. LastWrite(s, recs, i, c + 1) = LastWrite(s, recs, i, c) \/ ~Written(s, recs, i, c)
    <3> SUFFICES ASSUME Written(s, recs, i, c)
                 PROVE  LastWrite(s, recs, i, c + 1) = LastWrite(s, recs, i, c)
      OBVIOUS
    <3> DEFINE p == LastWrite(s, recs, i, c)
               q == LastWrite(s, recs, i, c + 1)
    <3>1. p \in 1..c /\ W(p) /\ \A n \in 1..c : W(n) => n <= p
      BY LastIs
    <3>2. q \in 1..(c + 1) /\ W(q) /\ \A n \in 1..(c + 1) : W(n) => n <= q
      BY <2>1, LastIs
    <3> HIDE DEF p, q
    <3>3. q \in 1..c
      BY <3>2, <1>0, <1>3
    <3>4. q <= p /\ p <= q
      BY <3>1, <3>2, <3>3, <1>0
    <3>5. p \in Nat /\ q \in Nat
      BY <3>1, <3>3
    <3>6. p = q
      BY <3>4, <3>5
    <3> QED BY <3>6 DEF p, q
  <2>3. w(c + 1) = w(c)
    BY <2>1, <2>2 DEF Wrote
  <2>4. w(c) \in Entries \cup {Absent}
    BY WroteIs
  <2>5. CASE C(c + 1)
    <3>1. WasCut(s, recs, i, c + 1)
      BY <1>0, <1>3, <2>5 DEF WasCut
    <3>2. Clean(s, recs, b, c + 1)[i] = Arch(w(c))
      BY <1>1, <2>3, <3>1
    <3>3. Arch(Clean(s, recs, b, c)[i]) = Arch(w(c))
      BY <1>1, <2>4, ArchIs
    <3> QED BY <1>3, <2>5, <3>2, <3>3 DEF Touched
  <2>6. CASE ~C(c + 1)
    <3>1. WasCut(s, recs, i, c + 1) <=> WasCut(s, recs, i, c)
      BY <1>0, <1>3, <2>6 DEF WasCut
    <3>2. Clean(s, recs, b, c + 1)[i] = Clean(s, recs, b, c)[i]
      BY <1>1, <2>3, <3>1
    <3> QED BY <1>3, <2>6, <3>2 DEF Touched
  <2> QED BY <2>5, <2>6
<1> QED BY <1>2, <1>3

\* No record: the store the batch found.
LEMMA CleanStart ==
  ASSUME NEW s, NEW recs, NEW b, NEW i \in Ids
  PROVE  ~Written(s, recs, i, 0) /\ Clean(s, recs, b, 0)[i] = s[i]
<1>1. ~Written(s, recs, i, 0) /\ ~WasCut(s, recs, i, 0)
  BY DEF Written, WasCut
<1> QED BY <1>1 DEF Clean, Wrote

\* Who wrote i among the first c did among more; what no record writes is as it was, or
\* archived, and then archived at the end.
LEMMA WrittenIs ==
  ASSUME NEW s, NEW recs, Uniform(recs), NEW b, NEW i \in Ids, NEW c \in Nat
  PROVE  /\ Written(s, recs, i, c) => Written(s, recs, i, c + 1)
         /\ Written(s, recs, i, c) => Written(s, recs, i, Len(recs))
         /\ Written(s, recs, i, c + 1) <=> Written(s, recs, i, c) \/ Writes(s, recs, i, c + 1)
         /\ ~Written(s, recs, i, Len(recs)) =>
              /\ Clean(s, recs, b, c)[i] \in {s[i], Arch(s[i])}
              /\ Clean(s, recs, b, c)[i] \in {s[i], Clean(s, recs, b, Len(recs))[i]}
<1>0. Len(recs) \in Nat /\ DOMAIN recs = 1..Len(recs)
  BY LenProperties DEF Uniform
<1>1. 1..(c + 1) = 1..c \cup {c + 1}
  OBVIOUS
<1>2. \A n : Writes(s, recs, i, n) => n \in 1..Len(recs)
  BY <1>0 DEF Writes, Puts
<1>3. \A n : Cuts(s, recs, i, n) => n \in 1..Len(recs)
  BY <1>0 DEF Cuts
<1>4. ASSUME ~Written(s, recs, i, Len(recs))
      PROVE  /\ Clean(s, recs, b, c)[i] \in {s[i], Arch(s[i])}
             /\ Clean(s, recs, b, c)[i] \in {s[i], Clean(s, recs, b, Len(recs))[i]}
  <2>1. \A n : ~Writes(s, recs, i, n)
    BY <1>2, <1>4 DEF Written
  <2>2. \A k : ~Written(s, recs, i, k)
    BY <2>1 DEF Written
  <2>3. \A k : Wrote(s, recs, b, i, k) = s[i]
    BY <2>2 DEF Wrote
  <2>4. WasCut(s, recs, i, c) => WasCut(s, recs, i, Len(recs))
    BY <1>3, <2>1 DEF WasCut
  <2>5. \A k : Clean(s, recs, b, k)[i] = IF WasCut(s, recs, i, k) THEN Arch(s[i]) ELSE s[i]
    BY <2>3 DEF Clean
  <2> QED BY <2>4, <2>5
<1> QED BY <1>1, <1>2, <1>4 DEF Written

\* Whatever the next record does to i, it does to a store that is near: i is settled then.
LEMMA TouchedSettles ==
  ASSUME NEW s \in Stores, NEW recs, Uniform(recs), NEW b \in Nat, NEW c \in Nat, NEW t, NEW u,
         NEW i \in Ids, Possible(t[i], s, recs, b, i),
         Settles(t, s, recs, b, i, c) \/ Settles(t, s, recs, b, i, c + 1),
         u[i] = Touched(s, recs, b, i, c + 1, t[i])
  PROVE  Possible(u[i], s, recs, b, i) /\ Settles(u, s, recs, b, i, c + 1)
<1> DEFINE cl(k) == Clean(s, recs, b, k)[i]
           wr(k) == Written(s, recs, i, k)
           N == Len(recs)
<1>1. /\ wr(c) => wr(c + 1) /\ wr(N)
      /\ wr(c + 1) => wr(N)
      /\ wr(c + 1) <=> wr(c) \/ Writes(s, recs, i, c + 1)
  <2>1. c + 1 \in Nat
    OBVIOUS
  <2> QED BY <2>1, WrittenIs
<1>2. ~wr(N) => /\ cl(c) \in {s[i], Arch(s[i])} /\ cl(c + 1) \in {s[i], Arch(s[i])}
                /\ cl(N) \in {s[i], Arch(s[i])}
                /\ cl(c) \in {s[i], cl(N)} /\ cl(c + 1) \in {s[i], cl(N)}
  <2>1. N \in Nat /\ c + 1 \in Nat
    BY LenProperties DEF Uniform
  <2> QED BY <2>1, WrittenIs
<1>3. cl(c + 1) = Touched(s, recs, b, i, c + 1, cl(c))
  BY CleanNext
<1>4. s[i] \in Entries \cup {Absent} /\ cl(c) \in Entries \cup {Absent}
  BY WroteIs DEF Stores
<1>5. \/ (wr(c) => t[i] = cl(c)) /\ (~wr(N) => t[i] \in {cl(c), cl(N)})
      \/ (wr(c + 1) => t[i] = cl(c + 1)) /\ (~wr(N) => t[i] \in {cl(c + 1), cl(N)})
  BY DEF Settles
<1>6. /\ Arch(Arch(s[i])) = Arch(s[i]) /\ Arch(Arch(cl(c))) = Arch(cl(c))
  BY <1>4, ArchIs
<1>7. Settles(u, s, recs, b, i, c + 1)
        <=> (wr(c + 1) => u[i] = cl(c + 1)) /\ (~wr(N) => u[i] \in {cl(c + 1), cl(N)})
  BY DEF Settles
<1>8. CASE Writes(s, recs, i, c + 1)
  <2>1. u[i] = Fresh(recs[c + 1], b) /\ cl(c + 1) = Fresh(recs[c + 1], b)
    BY <1>8, <1>3 DEF Touched
  <2>2. Possible(u[i], s, recs, b, i)
    BY <1>8, <2>1 DEF Possible, Own, Writes, Puts
  <2> HIDE DEF cl, wr, N
  <2> QED BY <1>1, <1>7, <1>8, <2>1, <2>2
<1>9. CASE ~Writes(s, recs, i, c + 1) /\ Cuts(s, recs, i, c + 1)
  <2>1. u[i] = Arch(t[i]) /\ cl(c + 1) = Arch(cl(c))
    BY <1>9, <1>3 DEF Touched
  <2>2. Possible(u[i], s, recs, b, i)
    <3>1. CASE t[i] \in {s[i], Arch(s[i])}
      BY <2>1, <3>1, <1>6 DEF Possible
    <3>2. CASE Own(t[i], s, recs, b, i)
      <4>1. PICK n \in DOMAIN recs :
              Writes(s, recs, i, n) /\ t[i] \in {Fresh(recs[n], b), Arch(Fresh(recs[n], b))}
        BY <3>2 DEF Own
      <4>2. Fresh(recs[n], b) \in Entries
        BY <4>1, FreshIs DEF Writes
      <4>3. u[i] = Arch(Fresh(recs[n], b))
        BY <4>1, <4>2, <2>1, ArchIs
      <4> QED BY <4>1, <4>3 DEF Possible, Own
    <3> QED BY <3>1, <3>2 DEF Possible
  <2>3. wr(c + 1) => u[i] = cl(c + 1)
    <3> HIDE DEF cl, wr, N
    <3> QED BY <1>1, <1>5, <1>6, <1>9, <2>1
  <2>4. ~wr(N) => u[i] = cl(c + 1)
    <3> HIDE DEF cl, wr, N
    <3> QED BY <1>2, <1>5, <1>6, <2>1
  <2> QED BY <1>7, <2>2, <2>3, <2>4
<1>10. CASE ~Writes(s, recs, i, c + 1) /\ ~Cuts(s, recs, i, c + 1)
  <2>1. u[i] = t[i] /\ cl(c + 1) = cl(c)
    BY <1>10, <1>3 DEF Touched
  <2>2. Possible(u[i], s, recs, b, i)
    BY <2>1
  <2> HIDE DEF cl, wr, N
  <2> QED BY <1>1, <1>5, <1>7, <1>10, <2>1, <2>2
<1> QED BY <1>8, <1>9, <1>10

\* What a near store has of i if one of the batch's records wrote it.
LEMMA OwnIs ==
  ASSUME NEW s \in Stores, NEW recs, Uniform(recs), NEW b \in Nat, NEW c \in Nat, NEW t, NEW i \in Ids,
         Settles(t, s, recs, b, i, c) \/ Settles(t, s, recs, b, i, c + 1), Written(s, recs, i, c)
  PROVE  Own(t[i], s, recs, b, i)
<1>1. c + 1 \in Nat /\ Written(s, recs, i, c + 1)
  <2>1. 1..c \subseteq 1..(c + 1)
    OBVIOUS
  <2> QED BY <2>1 DEF Written
<1>2. t[i] = Clean(s, recs, b, c)[i] \/ t[i] = Clean(s, recs, b, c + 1)[i]
  BY <1>1 DEF Settles
<1> QED BY <1>1, <1>2, WroteIs

\* An entry of the batch's own has the text of the record that wrote it.
LEMMA OwnText ==
  ASSUME NEW s, NEW recs, Uniform(recs), NEW b \in Nat, NEW i, NEW e, Own(e, s, recs, b, i)
  PROVE  /\ e # Absent
         /\ \E n \in Puts(recs) : recs[n].id = i /\ recs[n].text = e.text
<1>1. PICK n \in DOMAIN recs :
        Writes(s, recs, i, n) /\ e \in {Fresh(recs[n], b), Arch(Fresh(recs[n], b))}
  BY DEF Own
<1>2. n \in Puts(recs) /\ recs[n].id = i
  BY <1>1 DEF Writes
<1> QED BY <1>1, <1>2, FreshIs

\* The two ways in which a text the store has under another id may stay where it is.
Replaced(s, recs, i, n) ==
  \E m \in Puts(recs) : m < n /\ recs[m].id = i /\ Clashes(s, recs[m]) = {}
Spared(s, recs, i, n) ==
  \A m \in Puts(recs) : recs[m].id # i /\ (recs[m].text = recs[n].text => recs[m].supersedes # i)

\* What KeepsTexts says.
LEMMA KeepsIs ==
  ASSUME NEW s, NEW recs, KeepsTexts(s, recs), NEW n \in Puts(recs)
  PROVE  /\ \A m \in Puts(recs) : recs[m].text = recs[n].text => recs[m].id = recs[n].id
         /\ \A i \in Clashes(s, recs[n]) : Replaced(s, recs, i, n) \/ Spared(s, recs, i, n)
  BY DEF KeepsTexts, Puts, Replaced, Spared

\* While the batch moves no text, who is in the way of a record is what was in its way when
\* the batch began, and stays so; it is not what the record supersedes.
LEMMA ClashIs ==
  ASSUME NEW s \in Stores, NEW recs, Uniform(recs), NEW b \in Nat, NEW c \in Nat, NEW t,
         Near(t, s, recs, b, c), KeepsTexts(s, recs), c + 1 \in Puts(recs)
  PROVE  LET r == recs[c + 1] IN
         /\ Held(s, recs, c + 1) => Clashes(t, r) \ {r.supersedes} # {}
         /\ ~Held(s, recs, c + 1) => Clashes(t, r) = {}
<1> DEFINE r == recs[c + 1]
<1>0. \A i \in Ids : s[i] \in Entries \cup {Absent}
  BY DEF Stores
<1>1. ASSUME NEW i \in Ids, i # r.id, t[i] # Absent, t[i].text = r.text
      PROVE  i \in Clashes(s, r) /\ Spared(s, recs, i, c + 1)
  <2>1. ~Own(t[i], s, recs, b, i)
    <3> SUFFICES ASSUME Own(t[i], s, recs, b, i) PROVE FALSE
      OBVIOUS
    <3>1. PICK n \in Puts(recs) : recs[n].id = i /\ recs[n].text = t[i].text
      BY OwnText
    <3>2. recs[n].id = r.id
      BY <1>1, <3>1, KeepsIs
    <3> QED BY <1>1, <3>1, <3>2
  <2>2. t[i] \in {s[i], Arch(s[i])}
    BY <2>1 DEF Near, Possible
  <2>3. s[i] # Absent /\ s[i].text = t[i].text
    BY <1>0, <1>1, <2>2, ArchIs
  <2>4. i \in Clashes(s, r)
    BY <1>1, <2>3 DEF Clashes, Stored
  <2>5. ~Replaced(s, recs, i, c + 1)
    <3> SUFFICES ASSUME Replaced(s, recs, i, c + 1) PROVE FALSE
      OBVIOUS
    <3>1. PICK m \in Puts(recs) : m < c + 1 /\ recs[m].id = i /\ Clashes(s, recs[m]) = {}
      BY DEF Replaced
    <3>2. Writes(s, recs, i, m)
      BY <3>1 DEF Writes, Held
    <3>3. m \in 1..c
      <4>1. m \in 1..Len(recs)
        BY <3>1, OneOf DEF Puts
      <4> QED BY <3>1, <4>1
    <3>4. Written(s, recs, i, c)
      BY <3>2, <3>3 DEF Written
    <3> QED BY <2>1, <3>4, OwnIs DEF Near
  <2> QED BY <2>4, <2>5, KeepsIs
<1>2. ASSUME NEW i \in Clashes(t, r)
      PROVE  i \in Clashes(s, r) /\ Spared(s, recs, i, c + 1)
  <2>1. i \in Ids /\ i # r.id /\ t[i] # Absent /\ t[i].text = r.text
    BY DEF Clashes, Stored
  <2> QED BY <1>1, <2>1
<1>3. ASSUME ~Held(s, recs, c + 1) PROVE Clashes(t, r) = {}
  BY <1>2, <1>3 DEF Held, Spared
<1>4. ASSUME Held(s, recs, c + 1) PROVE Clashes(t, r) \ {r.supersedes} # {}
  <2>1. PICK i \in Clashes(s, r) : \A m \in Puts(recs) : recs[m].id # i
    BY <1>4 DEF Held
  <2>2. Spared(s, recs, i, c + 1)
    BY <2>1, KeepsIs DEF Replaced
  <2>3. i # r.supersedes
    BY <2>2 DEF Spared
  <2>4. i \in Ids /\ i # r.id /\ s[i] # Absent /\ s[i].text = r.text
    BY <2>1 DEF Clashes, Stored
  <2>5. ~Own(t[i], s, recs, b, i)
    BY <2>1, OwnText
  <2>6. t[i] \in {s[i], Arch(s[i])}
    BY <2>4, <2>5 DEF Near, Possible
  <2>7. t[i] # Absent /\ t[i].text = r.text
    BY <1>0, <2>4, <2>6, ArchIs
  <2>8. i \in Clashes(t, r)
    BY <2>4, <2>7 DEF Clashes, Stored
  <2> QED BY <2>3, <2>8
<1> QED BY <1>3, <1>4

\* Archiving, id by id.
LEMMA ArchivesEach ==
  ASSUME NEW t \in Stores, NEW ids, NEW i \in Ids
  PROVE  Archived(t, ids)[i] = IF i \in ids THEN Arch(t[i]) ELSE t[i]
<1>1. t[i] \in Entries \cup {Absent}
  BY DEF Stores
<1>2. Archived(t, ids)[i] = IF i \in ids \cap Live(t) THEN [t[i] EXCEPT !.life = "archived"] ELSE t[i]
  BY DEF Archived
<1>3. i \in Live(t) <=> t[i] # Absent /\ t[i].life = "live"
  BY DEF Live, Stored
<1>4. CASE i \in ids /\ i \in Live(t)
  BY <1>2, <1>3, <1>4 DEF Arch
<1>5. CASE i \in ids /\ i \notin Live(t)
  <2>1. Arch(t[i]) = t[i]
    BY <1>1, <1>3, <1>5, ArchIs
  <2> QED BY <1>2, <1>5, <2>1
<1>6. CASE i \notin ids
  BY <1>2, <1>6
<1> QED BY <1>4, <1>5, <1>6

\* A record that writes, applied to a near store, does to each id what it is to do; cut off
\* half way, it does so or nothing.
LEMMA IngestedTouches ==
  ASSUME NEW s \in Stores, NEW recs, Uniform(recs), NEW b \in Nat, NEW c \in Nat, NEW t \in Stores,
         Near(t, s, recs, b, c), KeepsTexts(s, recs), c + 1 \in Puts(recs)
  PROVE  /\ Ingested(t, recs[c + 1], b) \in Stores
         /\ Partial(t, recs[c + 1], b) \subseteq Stores
         /\ \A i \in Ids : Ingested(t, recs[c + 1], b)[i] = Touched(s, recs, b, i, c + 1, t[i])
         /\ \A u \in Partial(t, recs[c + 1], b), i \in Ids :
              u[i] \in {t[i], Touched(s, recs, b, i, c + 1, t[i])}
<1> DEFINE r == recs[c + 1]
           w == Upserted(t, r, b)
<1>1. r \in Records /\ r.id \in Ids /\ r.text \in Texts /\ r.valid /\ r.op = "ingest"
      /\ c + 1 \in DOMAIN recs
  BY OneOf DEF Puts
<1>2. Ingested(t, r, b) \in Stores /\ w \in Stores
  BY <1>1, IngestedIs
<1>3. \A i \in Ids : w[i] = IF i = r.id THEN Fresh(r, b) ELSE t[i]
  BY <1>1 DEF Upserted, Fresh, Stores
<1>4. \A i \in Ids : /\ Writes(s, recs, i, c + 1) <=> ~Held(s, recs, c + 1) /\ i = r.id
                     /\ Cuts(s, recs, i, c + 1)
                          <=> ~Held(s, recs, c + 1) /\ i = r.supersedes /\ i # r.id
  BY <1>1 DEF Writes, Cuts
<1>5. CASE Held(s, recs, c + 1)
  <2>1. Clashes(t, r) \ {r.supersedes} # {}
    BY <1>5, ClashIs
  <2>2. Ingested(t, r, b) = t /\ Partial(t, r, b) = {t}
    BY <2>1 DEF Ingested, Partial
  <2>3. \A i \in Ids : Touched(s, recs, b, i, c + 1, t[i]) = t[i]
    BY <1>4, <1>5 DEF Touched
  <2> HIDE DEF r
  <2> QED BY <2>2, <2>3 DEF r
<1>6. CASE ~Held(s, recs, c + 1)
  <2>1. Clashes(t, r) = {}
    BY <1>6, ClashIs
  <2>2. Ingested(t, r, b) = Archived(w, {r.supersedes} \ {r.id}) /\ Partial(t, r, b) \subseteq {t, w}
    BY <2>1 DEF Ingested, Partial
  <2>3. \A i \in Ids : Touched(s, recs, b, i, c + 1, t[i])
          = IF i = r.id THEN Fresh(r, b) ELSE IF i = r.supersedes THEN Arch(t[i]) ELSE t[i]
    BY <1>4, <1>6 DEF Touched
  <2>4. \A i \in Ids : Archived(w, {r.supersedes} \ {r.id})[i]
                         = IF i = r.supersedes /\ i # r.id THEN Arch(w[i]) ELSE w[i]
    <3> HIDE DEF r, w
    <3> QED BY <1>2, ArchivesEach
  <2>5. \A i \in Ids : Ingested(t, r, b)[i] = Touched(s, recs, b, i, c + 1, t[i])
    <3> HIDE DEF r, w
    <3> QED BY <1>3, <2>2, <2>3, <2>4
  <2>6. \A u \in Partial(t, r, b), i \in Ids : u[i] \in {t[i], w[i]}
    BY <2>2
  <2>7. \A i \in Ids : w[i] \in {t[i], Touched(s, recs, b, i, c + 1, t[i])}
    <3> HIDE DEF r, w
    <3> QED BY <1>3, <2>3
  <2>8. Partial(t, r, b) \subseteq Stores
    <3> HIDE DEF r, w
    <3> QED BY <1>2, <2>2
  <2>9. \A u \in Partial(t, r, b), i \in Ids : u[i] \in {t[i], Touched(s, recs, b, i, c + 1, t[i])}
    <3> HIDE DEF r, w
    <3> QED BY <2>6, <2>7
  <2> QED BY <1>2, <2>5, <2>8, <2>9 DEF r
<1> QED BY <1>5, <1>6

\* A batch that archives writes nothing, and leaves each entry its date.
LEMMA Archiving ==
  ASSUME NEW s \in Stores, NEW recs, Uniform(recs), NEW b \in Nat, NEW c \in Nat, NEW t,
         Near(t, s, recs, b, c), NEW n \in DOMAIN recs, recs[n].op # "ingest", NEW i \in Ids
  PROVE  /\ \A m : ~Writes(s, recs, i, m)
         /\ t[i] \in {s[i], Arch(s[i])}
         /\ (t[i] = Absent <=> s[i] = Absent) /\ (s[i] # Absent => t[i].date = s[i].date)
<1>1. \A m : ~Writes(s, recs, i, m)
  BY DEF Uniform, Writes, Puts
<1>2. t[i] \in {s[i], Arch(s[i])}
  BY <1>1 DEF Near, Possible, Own
<1>3. s[i] \in Entries \cup {Absent}
  BY DEF Stores
<1> QED BY <1>1, <1>2, <1>3, ArchIs

\* A store after c clean records is near, and so is the one the batch found; c records on,
\* what is settled after the next makes it near again; and a replay starts near.
LEMMA NearIs ==
  ASSUME NEW s \in Stores, NEW recs, Uniform(recs), NEW b \in Nat, NEW c \in Nat
  PROVE  /\ Near(Clean(s, recs, b, c), s, recs, b, c) /\ Near(s, s, recs, b, 0)
         /\ \A t : Near(t, s, recs, b, c) => Near(t, s, recs, b, 0)
<1>1. ASSUME NEW i \in Ids
      PROVE  /\ Settles(Clean(s, recs, b, c), s, recs, b, i, c)
             /\ Possible(Clean(s, recs, b, c)[i], s, recs, b, i)
  BY WroteIs DEF Settles
<1>2. ASSUME NEW i \in Ids PROVE Settles(s, s, recs, b, i, 0) /\ Possible(s[i], s, recs, b, i)
  BY CleanStart DEF Settles, Possible
<1>3. ASSUME NEW t, Near(t, s, recs, b, c), NEW i \in Ids PROVE Settles(t, s, recs, b, i, 0)
  <2>1. ~Written(s, recs, i, 0) /\ Clean(s, recs, b, 0)[i] = s[i]
    BY CleanStart
  <2>2. ASSUME ~Written(s, recs, i, Len(recs))
        PROVE  t[i] \in {s[i], Clean(s, recs, b, Len(recs))[i]}
    <3>1. c + 1 \in Nat
      OBVIOUS
    <3>2. Clean(s, recs, b, c)[i] \in {s[i], Clean(s, recs, b, Len(recs))[i]}
          /\ Clean(s, recs, b, c + 1)[i] \in {s[i], Clean(s, recs, b, Len(recs))[i]}
      BY <2>2, <3>1, WrittenIs
    <3>3. t[i] \in {Clean(s, recs, b, c)[i], Clean(s, recs, b, c + 1)[i],
                    Clean(s, recs, b, Len(recs))[i]}
      BY <1>3, <2>2 DEF Near, Settles
    <3> QED BY <3>2, <3>3
  <2> QED BY <2>1, <2>2 DEF Settles
<1> QED BY <1>1, <1>2, <1>3 DEF Near

\* Once a record has settled every id, the next one can begin.
LEMMA NearNext ==
  ASSUME NEW s, NEW recs, NEW b, NEW c, NEW t, Near(t, s, recs, b, c),
         \A i \in Ids : Settles(t, s, recs, b, i, c + 1)
  PROVE  Near(t, s, recs, b, c + 1)
  BY DEF Near

\* A record that touches nothing settles all.
LEMMA Untouched ==
  ASSUME NEW s \in Stores, NEW recs, Uniform(recs), NEW b \in Nat, NEW c \in Nat, NEW t,
         Near(t, s, recs, b, c), NEW i \in Ids, ~Writes(s, recs, i, c + 1), ~Cuts(s, recs, i, c + 1)
  PROVE  Settles(t, s, recs, b, i, c + 1)
<1>1. t[i] = Touched(s, recs, b, i, c + 1, t[i])
  BY DEF Touched
<1> QED BY <1>1, TouchedSettles DEF Near

\* At its end the store is what a clean application leaves.
LEMMA NearEnd ==
  ASSUME NEW s \in Stores, NEW recs, Uniform(recs), NEW b \in Nat, NEW t \in Stores,
         Near(t, s, recs, b, Len(recs))
  PROVE  t = Clean(s, recs, b, Len(recs))
<1>1. ASSUME NEW i \in Ids PROVE t[i] = Clean(s, recs, b, Len(recs))[i]
  <2>0. Len(recs) \in Nat /\ DOMAIN recs = 1..Len(recs)
    BY LenProperties DEF Uniform
  <2>1. Len(recs) + 1 \notin DOMAIN recs
    BY <2>0
  <2>2. ~Writes(s, recs, i, Len(recs) + 1) /\ ~Cuts(s, recs, i, Len(recs) + 1)
    BY <2>1 DEF Writes, Cuts, Puts
  <2>3. Clean(s, recs, b, Len(recs) + 1)[i] = Clean(s, recs, b, Len(recs))[i]
    BY <2>0, <2>2, CleanNext DEF Touched
  <2>4. Written(s, recs, i, Len(recs)) => Written(s, recs, i, Len(recs) + 1)
    BY <2>0, WrittenIs
  <2> QED BY <2>3, <2>4 DEF Near, Settles
<1>2. t = [i \in Ids |-> t[i]]
  BY DEF Stores
<1> QED BY <1>1, <1>2 DEF Clean

\* One record applied to a near store is one record more.
LEMMA AppliedIs ==
  ASSUME NEW s \in Stores, NEW recs, Uniform(recs), NEW b \in Nat, KeepsTexts(s, recs),
         NEW c \in 0..(Len(recs) - 1)
  PROVE  Applied(Clean(s, recs, b, c), recs[c + 1], b) = Clean(s, recs, b, c + 1)
<1> DEFINE t == Clean(s, recs, b, c)
           r == recs[c + 1]
           u == Applied(t, r, b)
<1>0. c \in Nat /\ c + 1 \in DOMAIN recs /\ r \in Records
  <2>1. Len(recs) \in Nat /\ DOMAIN recs = 1..Len(recs)
    BY LenProperties DEF Uniform
  <2>2. c \in Nat /\ c + 1 \in DOMAIN recs
    BY <2>1
  <2> QED BY <2>2, OneOf
<1>1. t \in Stores /\ Near(t, s, recs, b, c)
  <2>1. \A i \in Ids : t[i] \in Entries \cup {Absent}
    BY <1>0, WroteIs
  <2>2. t = [i \in Ids |-> t[i]]
    BY DEF Clean
  <2> QED BY <1>0, <2>1, <2>2, NearIs DEF Stores
<1>2. u \in Stores /\ \A i \in Ids : u[i] = Touched(s, recs, b, i, c + 1, t[i])
  <2> HIDE DEF t
  <2>1. CASE ~r.valid
    <3>1. u = t
      BY <2>1 DEF Applied
    <3>2. \A i \in Ids : ~Writes(s, recs, i, c + 1) /\ ~Cuts(s, recs, i, c + 1)
      BY <2>1 DEF Writes, Cuts, Puts
    <3> QED BY <1>1, <3>1, <3>2 DEF Touched
  <2>2. CASE r.valid /\ r.op = "ingest"
    <3>1. u = Ingested(t, r, b) /\ c + 1 \in Puts(recs)
      BY <1>0, <2>2 DEF Applied, Puts
    <3> QED BY <1>0, <1>1, <3>1, IngestedTouches
  <2>3. CASE r.valid /\ r.op # "ingest"
    <3> DEFINE ids == IF r.op = "forget" THEN {r.id} ELSE Issue(t, r.date)
    <3>1. u = Archived(t, ids)
      BY <2>3 DEF Applied
    <3>2. u \in Stores /\ \A i \in Ids : u[i] = IF i \in ids THEN Arch(t[i]) ELSE t[i]
      <4> HIDE DEF ids, u
      <4> QED BY <1>1, <3>1, ArchivedIs, ArchivesEach
    <3>3. ASSUME NEW i \in Ids
          PROVE  (IF i \in ids THEN Arch(t[i]) ELSE t[i]) = Touched(s, recs, b, i, c + 1, t[i])
      <4>1. /\ \A m : ~Writes(s, recs, i, m)
            /\ t[i] \in {s[i], Arch(s[i])}
            /\ (t[i] = Absent <=> s[i] = Absent) /\ (s[i] # Absent => t[i].date = s[i].date)
        BY <1>0, <1>1, <2>3, Archiving
      <4>2. t[i] \in Entries \cup {Absent}
        BY <1>1 DEF Stores
      <4>3. CASE r.op = "forget"
        <5>1. Cuts(s, recs, i, c + 1) <=> i \in ids
          BY <1>0, <2>3, <4>3 DEF Cuts
        <5> QED BY <4>1, <5>1 DEF Touched
      <4>4. CASE r.op # "forget"
        <5>1. r.op = "forgetSource"
          BY <1>0, <2>3, <4>4 DEF Records
        <5>2. Cuts(s, recs, i, c + 1) <=> t[i] # Absent /\ t[i].date = r.date
          BY <1>0, <2>3, <4>1, <5>1 DEF Cuts
        <5>3. i \in ids <=> t[i] # Absent /\ t[i].life = "live" /\ t[i].date = r.date
          BY <4>4 DEF Issue, Live, Stored
        <5>4. t[i] # Absent /\ t[i].life # "live" => Arch(t[i]) = t[i]
          BY <4>2, ArchIs
        <5> HIDE DEF ids, r
        <5> QED BY <4>1, <5>2, <5>3, <5>4 DEF Touched
      <4> QED BY <4>3, <4>4
    <3> QED BY <3>2, <3>3
  <2> QED BY <2>1, <2>2, <2>3
<1>3. \A i \in Ids : u[i] = Clean(s, recs, b, c + 1)[i]
  BY <1>0, <1>2, CleanNext
<1>4. u = [i \in Ids |-> u[i]]
  BY <1>2 DEF Stores
<1> QED BY <1>3, <1>4 DEF Clean

\* A batch that moves no text, applied once, leaves what the closed form says.
LEMMA ReplayedIs ==
  ASSUME NEW s \in Stores, NEW recs, Uniform(recs), NEW b \in Nat, KeepsTexts(s, recs)
  PROVE  Replayed(s, recs, b) = Clean(s, recs, b, Len(recs))
<1> DEFINE N == Len(recs)
           IsRun(f) == f = [n \in 0..N |-> IF n = 0 THEN s ELSE Applied(f[n - 1], recs[n], b)]
           g == [n \in 0..N |-> Clean(s, recs, b, n)]
           f == CHOOSE h : IsRun(h)
<1>0. N \in Nat
  BY LenProperties DEF Uniform
<1>1. Clean(s, recs, b, 0) = s
  <2>1. \A i \in Ids : Clean(s, recs, b, 0)[i] = s[i]
    BY CleanStart
  <2>2. s = [i \in Ids |-> s[i]]
    BY DEF Stores
  <2> QED BY <2>1, <2>2 DEF Clean
<1>2. \A n \in 0..N : n # 0 => n - 1 \in 0..(N - 1) /\ n - 1 \in 0..N /\ (n - 1) + 1 = n
  BY <1>0
<1>3. \A n \in 0..N : n # 0 => Applied(Clean(s, recs, b, n - 1), recs[n], b) = Clean(s, recs, b, n)
  BY <1>2, AppliedIs
<1>4. IsRun(g)
  <2>1. \A n \in 0..N : g[n] = IF n = 0 THEN s ELSE Applied(g[n - 1], recs[n], b)
    BY <1>1, <1>2, <1>3
  <2> QED BY <2>1
<1>5. IsRun(f)
  <2> HIDE DEF IsRun
  <2> QED BY <1>4
<1>6. \A n \in 0..N : f[n] = IF n = 0 THEN s ELSE Applied(f[n - 1], recs[n], b)
  <2> HIDE DEF f
  <2> QED BY <1>5
<1>7. Replayed(s, recs, b) = f[N]
  BY DEF Replayed
<1> HIDE DEF f, N, g, IsRun
<1>8. \A n \in 0..N : f[n] = Clean(s, recs, b, n)
  <2> SUFFICES ASSUME \E n \in 0..N : f[n] # Clean(s, recs, b, n) PROVE FALSE
    OBVIOUS
  <2> DEFINE Off == {n \in 0..N : f[n] # Clean(s, recs, b, n)}
  <2>1. Off \in SUBSET Nat /\ Off # {}
    OBVIOUS
  <2>2. PICK k \in Off : \A y \in Off : k <= y
    BY <2>1, LeastIs
  <2>3. k # 0
    BY <1>1, <1>6
  <2>4. k - 1 \in 0..N /\ ~(k <= k - 1)
    BY <1>2, <2>3, <1>0
  <2>5. f[k - 1] = Clean(s, recs, b, k - 1)
    BY <2>2, <2>4
  <2>6. f[k] = Clean(s, recs, b, k)
    BY <1>3, <1>6, <2>3, <2>5
  <2> QED BY <2>6
<1> QED BY <1>0, <1>7, <1>8 DEF N

\* Replays are of one batch: listings are complete, besides what OlderFirst presumes.
OneReplayed == OlderFirst /\ "list" \notin Faults

\* A batch that has been begun is in hand.
Working == pc \in {"save", "apply", "remove"} \/ (pc \in Asking /\ issue = NoDate)

\* The last batch begun is the oldest one in the inbox that is a batch, and the only one
\* with a cursor; while it is there, a pass has it in hand or still to do.
HandInv ==
  /\ begun # 0 => Readable(begun)
  /\ \A x \in inbox : Readable(x) => begun <= x
  /\ Working => batch = begun
  /\ \A x \in inbox : x # begun => cursor[x] = 0
  /\ pc # "idle" /\ begun \in inbox => begun \in todo \cup {batch}
  /\ pc = "scan" => batch # begun \/ batch \notin inbox

\* A step that begins no batch keeps that.
LEMMA HandMoves ==
  ASSUME HandInv, UNCHANGED <<content, begun>>, inbox' \subseteq inbox,
         \A x \in inbox' : x # begun => cursor'[x] \in {0, cursor[x]},
         Working' => batch' = begun,
         pc' # "idle" /\ begun \in inbox' => begun \in todo' \cup {batch'},
         pc' = "scan" => batch' # begun \/ batch' \notin inbox'
  PROVE  HandInv'
  BY DEF HandInv, Readable

\* One that leaves pass and inbox alone does.
LEMMA HandStays ==
  ASSUME HandInv, UNCHANGED <<content, begun, inbox, cursor, pc, issue, batch, todo>>
  PROVE  HandInv'
  BY DEF HandInv, Readable, Working

\* One that ends the pass does.
LEMMA HandLeaves ==
  ASSUME HandInv, UNCHANGED <<content, begun, inbox>>, pc' = "idle",
         \A x \in inbox' : cursor'[x] \in {0, cursor[x]}
  PROVE  HandInv'
<1>1. ~Working'
  BY DEF Working, Asking
<1> QED BY <1>1, HandMoves

\* The next record of the batch in hand is begun, or its answer is waited for.
LEMMA HandAsks ==
  ASSUME DrainInv, HandInv, UNCHANGED <<content, begun, inbox, cursor, batch, todo, issue>>,
         pc \in {"save", "apply", "source"} \cup Asking, pc' \in {"apply"} \cup Asking,
         pc' = "apply" => pc = "save" \/ issue = NoDate
  PROVE  HandInv'
<1>1. PlaceInv
  BY Parts
<1>2. Working' => Working
  BY <1>1 DEF Working, PlaceInv, Asking
<1>3. pc' # "scan" /\ pc # "idle" /\ pc # "scan"
  BY DEF Asking
<1> QED BY <1>2, <1>3, HandMoves DEF HandInv

\* Retention finds no batch that was begun.
LEMMA NoneLeft ==
  ASSUME DrainInv, HandInv, Expiring
  PROVE  begun \notin inbox /\ todo = {} /\ batch = 0
<1>1. PlaceInv /\ BatchTypes /\ 0 \notin inbox
  BY Parts, Numbers
<1> QED BY <1>1 DEF PlaceInv, HandInv, Expiring, Asking

\* An issue that retention gave up on, or is through with, or goes on with.
LEMMA HandExpires ==
  ASSUME DrainInv, HandInv, Expiring, UNCHANGED <<content, begun, inbox, cursor>>,
         pc' \in {"idle", "retain", "source", "tidy"}
  PROVE  HandInv'
<1>1. ~Working' /\ pc' # "scan"
  BY DEF Working, Asking
<1>2. begun \notin inbox
  BY NoneLeft
<1> QED BY <1>1, <1>2, HandMoves

\* The record in hand has failed, or its issue has.
LEMMA HandFails ==
  ASSUME DrainInv, HandInv, Fails, UNCHANGED <<disk, origin>>, pc \in {"apply", "source"} \cup Asking
  PROVE  HandInv'
<1>1. UNCHANGED <<content, begun, inbox, cursor>>
  BY DEF Fails, Stall, kept, disk, origin
<1>2. CASE issue = NoDate
  <2>1. pc' = "idle"
    BY <1>2 DEF Fails, Stall, EndPass
  <2> QED BY <1>1, <2>1, HandLeaves
<1>3. CASE issue # NoDate
  <2>1. Expiring
    BY <1>3, Parts DEF PlaceInv, Expiring
  <2>2. pc' \in {"idle", "tidy"}
    BY <1>3 DEF Fails
  <2> QED BY <1>1, <2>1, <2>2, HandExpires
<1> QED BY <1>2, <1>3

\* It has succeeded.
LEMMA HandSucceeds ==
  ASSUME DrainInv, HandInv, Succeeds, UNCHANGED <<disk, origin>>, pc \in Asking
  PROVE  HandInv'
<1>1. UNCHANGED <<content, begun, inbox, todo, batch>>
  BY DEF Succeeds, disk, origin
<1>2. CASE issue = NoDate
  <2>1. cursor' = [cursor EXCEPT ![batch] = @ + 1] /\ pc' = "apply"
    BY <1>2 DEF Succeeds
  <2>2. batch = begun /\ pc # "idle"
    BY <1>2 DEF HandInv, Working, Asking
  <2>3. \A x \in inbox' : x # begun => cursor'[x] = cursor[x]
    <3>1. CursorInv /\ BatchTypes
      BY Parts
    <3>2. \A x \in inbox : x \in 1..MaxBatches
      BY <3>1, Numbers
    <3> QED BY <1>1, <2>1, <2>2, <3>1, <3>2 DEF CursorInv
  <2> QED BY <1>1, <2>1, <2>2, <2>3, HandMoves DEF HandInv
<1>3. CASE issue # NoDate
  <2>1. Expiring
    BY <1>3 DEF Expiring
  <2>2. pc' = "retain" /\ UNCHANGED cursor
    BY <1>3 DEF Succeeds
  <2> QED BY <1>1, <2>1, <2>2, HandExpires
<1> QED BY <1>2, <1>3

\* A job is submitted, or refused.
LEMMA HandSubmits ==
  ASSUME DrainInv, HandInv, NEW op, NEW arg, NEW rest, Submit(op, arg, rest),
         UNCHANGED <<disk, origin>>, pc \in {"apply", "source", "archive"}
  PROVE  HandInv'
<1>1. CASE Fails
  BY <1>1, HandFails DEF Asking
<1>2. ASSUME UNCHANGED <<inHand, retain, missed, kept, dates, backoff>>, pc' = "wait"
      PROVE  HandInv'
  <2>1. UNCHANGED <<content, begun, inbox, cursor, batch, todo, issue>>
    BY <1>2 DEF inHand, retain, kept, disk, origin
  <2> QED BY <1>2, <2>1, HandAsks DEF Asking
<1> QED BY <1>1, <1>2 DEF Submit

\* What the record in hand asks for.
LEMMA ApplySubmits ==
  ASSUME DrainInv, Apply
  PROVE  /\ pc = "apply" /\ issue = NoDate /\ Record.valid /\ ~AtEnd
         /\ UNCHANGED <<disk, store, origin>>
         /\ \/ Record.op = "ingest" /\ Submit("ingest", Record, {})
            \/ Record.op = "forget" /\ Submit("archive", Record.id, {})
            \/ Record.op = "forgetSource" /\ Submit("list", Record.date, {})
<1>0. BatchTypes /\ PlaceInv /\ CursorInv
  BY Parts
<1>1. pc = "apply" /\ issue = NoDate /\ batch \in Positions /\ ~AtEnd /\ Record.valid
      /\ UNCHANGED <<disk, store, outside, origin>>
  BY <1>0, Numbers DEF Apply, PlaceInv, Applying, Asking
<1>2. cursor[batch] + 1 \in 1..Len(content[batch].records)
  BY <1>0, <1>1, Numbers DEF CursorInv, AtEnd
<1>3. Record \in Records
  BY <1>0, <1>1, <1>2, RecordIs DEF Record
<1>4. Record.op \in {"ingest", "forget", "forgetSource"}
  BY <1>3 DEF Records
<1> QED BY <1>1, <1>4 DEF Apply

\* A batch is begun, or begun anew.
LEMMA HandBegins ==
  ASSUME DrainInv, OneReplayed, HandInv, Begin
  PROVE  HandInv' /\ batch \in inbox /\ (batch = begun \/ (batch > begun /\ cursor[batch] = 0))
<1>0. BatchTypes /\ PlaceInv /\ OrderInv
  BY Parts DEF OneReplayed
<1>1. /\ pc = "begin" /\ pc' \in {"apply", "save"} /\ UNCHANGED <<content, inbox, cursor, batch, todo>>
      /\ IF batch > begun THEN begun' = batch ELSE UNCHANGED begun
  BY DEF Begin, disk, kept, inHand, origin
<1>2. batch \in inbox /\ Readable(batch) /\ begun <= batch
  BY <1>0, <1>1 DEF PlaceInv, Applying, HandInv
<1>3. batch \in Nat /\ begun \in Nat /\ inbox \subseteq Nat
  BY <1>0, Numbers DEF BatchTypes
<1>4. begun' = batch
  BY <1>1, <1>2, <1>3
<1>5. \A x \in inbox : Readable(x) => batch <= x
  <2> SUFFICES ASSUME NEW x \in inbox, Readable(x) PROVE batch <= x
    OBVIOUS
  <2>1. x \in todo \/ x = batch \/ (\A y \in todo \cup {batch} : y < x)
    BY <1>0, <1>1 DEF OrderInv
  <2>2. \A y \in todo : batch < y
    BY <1>0 DEF PlaceInv
  <2> QED BY <1>3, <2>1, <2>2
<1>6. \A x \in inbox : x # batch => cursor[x] = 0
  <2> SUFFICES ASSUME NEW x \in inbox, x # batch, x = begun PROVE FALSE
    BY DEF HandInv
  <2>1. x < batch /\ x # 0
    BY <1>0, <1>2, <1>3, Numbers
  <2>2. Readable(x)
    BY <2>1 DEF HandInv
  <2> QED BY <1>3, <1>5, <2>1, <2>2
<1>7. Readable(batch)' /\ \A x \in inbox' : Readable(x)' <=> Readable(x)
  BY <1>1, <1>2 DEF Readable
<1>8. HandInv'
  <2>1. begun' # 0 => Readable(begun)'
    BY <1>1, <1>4, <1>7 DEF Readable
  <2>2. \A x \in inbox' : Readable(x)' => begun' <= x
    BY <1>1, <1>4, <1>5, <1>7
  <2> QED BY <1>1, <1>4, <1>6, <2>1, <2>2 DEF HandInv, Working
<1>9. batch # begun => cursor[batch] = 0
  BY <1>2 DEF HandInv
<1> QED BY <1>2, <1>3, <1>8, <1>9

\* No step takes hold of two batches.
LEMMA HandStep ==
  ASSUME DrainInv, DrainInv', OneReplayed, HandInv, [Next]_vars
  PROVE  HandInv'
<1>0. BatchTypes /\ PlaceInv /\ CursorInv /\ OrderInv /\ 0 \notin inbox
  BY Parts, Numbers DEF OneReplayed
<1>1. ASSUME NEW s \in Shapes, Enqueue(s) PROVE HandInv'
  <2> DEFINE n == Len(content) + 1
  <2>1. /\ content' = Append(content, s) /\ inbox' = inbox \cup {n}
        /\ UNCHANGED <<begun, cursor, pc, issue, batch, todo>>
    BY <1>1 DEF Enqueue, kept, retain, inHand, origin
  <2>2. Len(content) \in Nat /\ content \in Seq(Shapes) /\ begun \in 0..Len(content)
    BY <1>0, BatchFacts DEF BatchTypes, Positions
  <2>3. \A x \in Positions : content'[x] = content[x]
    BY <2>1, <2>2, AppendProperties DEF Positions
  <2>4. inbox \subseteq Positions /\ n \notin Positions /\ n \in 1..MaxBatches /\ begun <= n
        /\ batch # n
    <3>0. Len(content') = n
      BY <2>1, <2>2, AppendProperties
    <3>1. BatchTypes' /\ Len(content') = n
      BY <3>0 DEF DrainInv, TypeInv
    <3>2. n <= MaxBatches
      BY <3>1 DEF BatchTypes
    <3> QED BY <1>0, <2>2, <3>2, DrainAssumption DEF BatchTypes, Positions
  <2>5. cursor[n] = 0
    BY <1>0, <2>4 DEF CursorInv
  <2>6. /\ begun # 0 => Readable(begun)'
        /\ \A x \in inbox : Readable(x)' => Readable(x)
    <3>1. begun # 0 => begun \in Positions
      BY <1>0 DEF BatchTypes
    <3> QED BY <2>1, <2>3, <2>4, <3>1 DEF HandInv, Readable
  <2>7. begun \notin inbox' \/ begun \in inbox \/ begun = n
    BY <2>1
  <2>8. begun # n
    BY <2>2
  <2> HIDE DEF n
  <2>9. begun' # 0 => Readable(begun)'
    BY <2>1, <2>6
  <2>10. \A x \in inbox' : Readable(x)' => begun' <= x
    BY <2>1, <2>4, <2>6 DEF HandInv
  <2>11. \A x \in inbox' : x # begun' => cursor'[x] = 0
    BY <2>1, <2>5 DEF HandInv
  <2> QED BY <2>1, <2>4, <2>7, <2>8, <2>9, <2>10, <2>11 DEF HandInv, Working, Readable
<1>2. CASE LoadLedger \/ (\E k \in Slots : RunJob(k)) \/ BackoffEnds \/ RetentionDue
             \/ (\E d \in Dates : Expire(d)) \/ UNCHANGED vars
  BY <1>2, HandStays DEF LoadLedger, RunJob, BackoffEnds, RetentionDue, Expire, vars, disk, inHand,
     retain, kept, origin
<1>3. CASE StartPass
  <2>1. /\ todo' = inbox /\ pc' = "scan" /\ pc = "idle" /\ UNCHANGED <<content, begun, inbox, batch>>
    BY <1>3 DEF StartPass, Fault, OneReplayed, disk, origin
  <2>2. \A x \in inbox' : cursor'[x] \in {0, cursor[x]}
    <3>1. \A x \in inbox : x \in DOMAIN cursor
      BY <1>0, Numbers DEF CursorInv
    <3> QED BY <1>3, <2>1, <3>1 DEF StartPass
  <2>3. batch = 0
    BY <1>0, <2>1 DEF PlaceInv
  <2> QED BY <1>0, <2>1, <2>2, <2>3, HandMoves DEF Working, Asking
<1>4. CASE OutOfBudget \/ Tidy
  <2>1. UNCHANGED <<content, begun, inbox, cursor>> /\ pc' = "idle"
    BY <1>4 DEF OutOfBudget, Tidy, EndPass, disk, kept, origin
  <2> QED BY <2>1, HandLeaves
<1>5. CASE Crash
  <2>1. UNCHANGED <<content, begun, inbox>> /\ pc' = "idle"
    BY <1>5 DEF Crash, EndPass, disk, origin
  <2>2. \A x \in inbox' : cursor'[x] = 0
    <3>1. \A x \in inbox : x \in DOMAIN cursor
      BY <1>0, Numbers DEF CursorInv
    <3> QED BY <1>5, <2>1, <3>1 DEF Crash
  <2> QED BY <2>1, <2>2, HandLeaves
<1>6. CASE Load
  <2>1. /\ UNCHANGED <<content, begun, inbox, cursor>> /\ pc = "scan"
        /\ pc' \in {"unreadable", "begin"} /\ todo' = todo \ {batch'}
    BY <1>6 DEF Load, disk, kept, origin
  <2>2. begun \in inbox' => begun \in todo' \cup {batch'}
    BY <2>1 DEF HandInv
  <2> QED BY <2>1, <2>2, HandMoves DEF Working, Asking
<1>7. CASE Quarantine
  <2>1. /\ UNCHANGED <<content, begun, cursor, todo, batch>> /\ inbox' \subseteq inbox
        /\ pc \in {"unreadable", "quarantined"} /\ pc' \in {"scan", "quarantined"}
        /\ pc' = "scan" => batch \notin inbox' \/ "write" \in Faults
    BY <1>7 DEF Quarantine, Fault, kept, inHand, origin
  <2>2. pc' = "scan" => batch' # begun \/ batch' \notin inbox'
    <3> SUFFICES ASSUME "write" \in Faults, batch \in inbox, batch = begun PROVE FALSE
      BY <2>1
    <3>1. FilesReadable
      BY DEF OneReplayed, OlderFirst, FilesReadable
    <3>2. ~Readable(batch)
      BY <2>1, <3>1, Parts DEF ReceiptInv, Failing
    <3> QED BY <1>0, <3>2 DEF HandInv
  <2> QED BY <2>1, <2>2, HandMoves DEF HandInv, Working, Asking
<1>8. CASE Begin
  BY <1>8, HandBegins
<1>9. CASE SaveLedger
  <2>1. UNCHANGED <<content, begun, inbox, cursor, batch, todo, issue>> /\ pc = "save" /\ pc' = "apply"
    BY <1>9 DEF SaveLedger, kept, inHand, retain, origin
  <2> QED BY <2>1, HandAsks
<1>10. CASE Refuse
  <2>1. /\ UNCHANGED <<content, begun, inbox, batch, todo, issue, pc>> /\ pc = "apply"
        /\ cursor' = [cursor EXCEPT ![batch] = @ + 1]
    BY <1>10 DEF Refuse, retain, disk, origin
  <2>2. batch = begun
    BY <2>1 DEF HandInv, Working
  <2>3. \A x \in inbox' : x # begun => cursor'[x] = cursor[x]
    <3>1. \A x \in inbox : x \in 1..MaxBatches
      BY <1>0, Numbers
    <3> QED BY <1>0, <2>1, <2>2, <3>1 DEF CursorInv
  <2> QED BY <2>1, <2>2, <2>3, HandMoves DEF HandInv, Working
<1>11. CASE Apply
  BY <1>11, ApplySubmits, HandSubmits
<1>12. CASE ArchiveSource
  BY <1>12, HandSubmits DEF ArchiveSource
<1>13. CASE Archive
  BY <1>13, HandSubmits, HandFails, HandSucceeds DEF Archive, Asking
<1>14. CASE Answered
  <2>1. ASSUME pc' = "archive", UNCHANGED <<inHand, retain, kept, dates, backoff>>
        PROVE  HandInv'
    <3>1. UNCHANGED <<content, begun, inbox, cursor, batch, todo, issue>> /\ pc = "wait"
      BY <1>14, <2>1 DEF Answered, inHand, retain, kept, disk, origin
    <3> QED BY <2>1, <3>1, HandAsks DEF Asking
  <2> QED BY <1>14, <2>1, HandFails, HandSucceeds DEF Answered, Asking
<1>15. CASE Deferred
  BY <1>15, HandFails DEF Deferred, Asking
<1>16. CASE Receipt
  <2>1. UNCHANGED <<content, begun, inbox, cursor>> /\ pc = "apply"
    BY <1>16 DEF Receipt, Stall, kept, origin
  <2>2. CASE pc' = "remove" /\ UNCHANGED <<inHand, retain>>
    <3>1. UNCHANGED <<batch, todo, issue>>
      BY <2>2 DEF inHand, retain
    <3> QED BY <2>1, <2>2, <3>1, HandMoves DEF HandInv, Working
  <2>3. CASE Stall
    BY <2>1, <2>3, HandLeaves DEF Stall, EndPass
  <2> QED BY <1>16, <2>2, <2>3 DEF Receipt
<1>17. CASE RemoveFile
  <2>1. UNCHANGED <<content, begun>> /\ pc = "remove" /\ batch = begun
    BY <1>17 DEF RemoveFile, origin, HandInv, Working
  <2>2. CASE UNCHANGED inbox /\ Stall
    BY <2>1, <2>2, HandLeaves DEF Stall, EndPass, kept
  <2>3. CASE /\ inbox' = inbox \ {batch} /\ cursor' = [cursor EXCEPT ![batch] = 0]
             /\ batch' = 0 /\ pc' = "scan"
    <3>1. \A x \in inbox' : cursor'[x] = cursor[x]
      <4>1. \A x \in inbox : x \in 1..MaxBatches
        BY <1>0, Numbers
      <4> QED BY <1>0, <2>3, <4>1 DEF CursorInv
    <3> QED BY <1>0, <2>1, <2>3, <3>1, HandMoves DEF Working, Asking
  <2> QED BY <1>17, <2>2, <2>3 DEF RemoveFile
<1>18. CASE Retention
  <2>1. UNCHANGED <<content, begun, inbox, cursor>> /\ pc = "scan" /\ todo = {} /\ pc' \in {"retain", "idle"}
    BY <1>18 DEF Retention, disk, kept, origin
  <2>2. begun \notin inbox
    BY <2>1 DEF HandInv
  <2> QED BY <2>1, <2>2, HandMoves DEF Working, Asking
<1>19. CASE ArchiveIssue
  <2>1. UNCHANGED <<content, begun, inbox, cursor>> /\ Expiring /\ pc' = "source"
    BY <1>19 DEF ArchiveIssue, Expiring, disk, kept, origin
  <2> QED BY <2>1, HandExpires
<1> QED BY <1>1, <1>2, <1>3, <1>4, <1>5, <1>6, <1>7, <1>8, <1>9, <1>10, <1>11, <1>12, <1>13, <1>14,
           <1>15, <1>16, <1>17, <1>18, <1>19 DEF Next, DrainStep

\* A record archives i, or writes it, not both.
LEMMA CutsOnly ==
  ASSUME NEW s, NEW recs, NEW i, NEW n, Cuts(s, recs, i, n) PROVE ~Writes(s, recs, i, n)
  BY DEF Cuts, Writes, Puts

\* A store stays near when a record does to some ids what it is to do; those are settled then,
\* and those that were stay so.
LEMMA NearTouched ==
  ASSUME NEW s \in Stores, NEW recs, Uniform(recs), NEW b \in Nat, NEW c \in Nat, NEW t, NEW u,
         Near(t, s, recs, b, c),
         \A i \in Ids : u[i] \in {t[i], Touched(s, recs, b, i, c + 1, t[i])}
  PROVE  /\ Near(u, s, recs, b, c)
         /\ \A i \in Ids : \/ u[i] = Touched(s, recs, b, i, c + 1, t[i])
                           \/ u[i] = t[i] /\ Settles(t, s, recs, b, i, c + 1)
                           => Settles(u, s, recs, b, i, c + 1)
<1>1. ASSUME NEW i \in Ids, u[i] = Touched(s, recs, b, i, c + 1, t[i])
      PROVE  Possible(u[i], s, recs, b, i) /\ Settles(u, s, recs, b, i, c + 1)
  BY <1>1, TouchedSettles DEF Near
<1>2. ASSUME NEW i \in Ids, u[i] = t[i]
      PROVE  /\ Possible(u[i], s, recs, b, i)
             /\ Settles(t, s, recs, b, i, c) => Settles(u, s, recs, b, i, c)
             /\ Settles(t, s, recs, b, i, c + 1) => Settles(u, s, recs, b, i, c + 1)
  BY <1>2 DEF Near, Settles
<1> QED BY <1>1, <1>2 DEF Near

\* The records of the batch that was begun last, and how many of them this attempt is through
\* with.
Recs == content[begun].records
At   == cursor[begun]

\* The record in hand has settled all ids but some; it is to archive each of some.
SettledBut(ids) == \A i \in Ids \ ids : Settles(store, base, Recs, begun, i, At + 1)
AreCut(ids)     == \A i \in ids : Cuts(base, Recs, i, At + 1)

\* What the job that is waited for has done, or is to do, of the record in hand.
AskedInv ==
  LET j == slots[awaited]
      r == Recs[At + 1] IN
  \/ j.op = "ingest" /\ j.arg = r /\ j.by = begun /\ (j.status = "ok" => SettledBut({}))
  \/ /\ j.op = "list" /\ r.op = "forgetSource" /\ j.arg = r.date
     /\ AreCut(j.found) /\ (j.status = "ok" => SettledBut(j.found))
  \/ /\ j.op = "archive" /\ AreCut({j.arg}) /\ j.found = {}
     /\ ~missed /\ j.status = "queued" => SettledBut(targets \cup {j.arg})
     /\ ~missed /\ j.status = "ok" => SettledBut(targets)

\* While a batch that moves no text is in the inbox, and was begun: the store is near.
ConvInv ==
  begun \in inbox /\ KeepsTexts(base, Recs) =>
    /\ Near(store, base, Recs, begun, At)
    /\ pc \in Asking => AreCut(targets)
    /\ pc = "archive" /\ ~missed => SettledBut(targets)
    /\ pc = "wait" => AskedInv

\* The batch that was begun last, while it is in the inbox.
LEMMA InHand ==
  ASSUME DrainInv, HandInv, begun \in inbox
  PROVE  /\ begun \in Positions /\ begun \in Nat /\ begun \in 1..MaxBatches
         /\ Uniform(Recs) /\ At \in Nat /\ At <= Len(Recs) /\ DOMAIN Recs = 1..Len(Recs)
         /\ Len(Recs) \in Nat /\ base \in Stores /\ store \in Stores
         /\ pc \in Asking => /\ issue = NoDate /\ batch = begun
                             /\ At + 1 \in DOMAIN Recs /\ Recs[At + 1].valid
<1>0. BatchTypes /\ CursorInv /\ StoreTypes /\ PlaceInv
  BY Parts
<1>1. begun \in Positions /\ begun \in Nat /\ begun \in 1..MaxBatches
  BY <1>0, Numbers
<1>2. /\ content[begun] \in Shapes /\ Recs \in Seq(Records) /\ Len(Recs) \in Nat
      /\ DOMAIN Recs = 1..Len(Recs)
  BY <1>0, <1>1, BatchFacts DEF Recs
<1>3. Uniform(Recs)
  BY <1>2, DrainAssumption DEF Uniform, Recs
<1>4. At \in Nat /\ At <= Len(Recs)
  BY <1>0, <1>1 DEF CursorInv, At, Recs
<1>5. ASSUME pc \in Asking
      PROVE  /\ issue = NoDate /\ batch = begun
             /\ At + 1 \in DOMAIN Recs /\ Recs[At + 1].valid
  <2>1. issue = NoDate
    BY <1>5, NoneLeft DEF Expiring
  <2>2. batch = begun
    BY <1>5, <2>1 DEF HandInv, Working
  <2>3. At < Len(Recs) /\ Recs[At + 1].valid
    BY <1>0, <1>5, <2>1, <2>2 DEF CursorInv, At, Recs, Valid
  <2> QED BY <1>2, <1>4, <2>1, <2>2, <2>3
<1> QED BY <1>0, <1>1, <1>2, <1>3, <1>4, <1>5 DEF StoreTypes

\* A step that touches neither the store nor the batch keeps the store near.
LEMMA ConvQuiet ==
  ASSUME ConvInv, UNCHANGED <<store, base, begun>>, Recs' = Recs,
         begun \in inbox' => begun \in inbox /\ At' = At, pc' \notin Asking
  PROVE  ConvInv'
<1>1. pc' # "archive" /\ pc' # "wait"
  BY DEF Asking
<1> QED BY <1>1 DEF ConvInv

\* So does one that leaves the job alone, too.
LEMMA ConvStays ==
  ASSUME ConvInv, UNCHANGED <<store, base, begun, pc, slots, awaited, targets, missed>>, Recs' = Recs,
         begun \in inbox' => begun \in inbox /\ At' = At
  PROVE  ConvInv'
<1>1. begun \in inbox' => (AskedInv' <=> AskedInv) /\ (\A ids : SettledBut(ids)' <=> SettledBut(ids))
        /\ (\A ids : AreCut(ids)' <=> AreCut(ids))
  BY DEF AskedInv, SettledBut, AreCut
<1> QED BY <1>1 DEF ConvInv

\* The record in hand has settled all: the next one.
LEMMA ConvNext ==
  ASSUME ConvInv, UNCHANGED <<store, base, begun>>, Recs' = Recs, At' = At + 1, pc' \notin Asking,
         begun \in inbox' => begun \in inbox /\ (KeepsTexts(base, Recs) => SettledBut({}))
  PROVE  ConvInv'
<1>1. pc' # "archive" /\ pc' # "wait"
  BY DEF Asking
<1>2. ASSUME begun \in inbox', KeepsTexts(base, Recs) PROVE Near(store, base, Recs, begun, At + 1)
  <2>1. Near(store, base, Recs, begun, At) /\ \A i \in Ids : Settles(store, base, Recs, begun, i, At + 1)
    BY <1>2 DEF ConvInv, SettledBut
  <2> QED BY <2>1, NearNext
<1> QED BY <1>1, <1>2 DEF ConvInv

\* A job of the batch in hand is submitted.
LEMMA ConvAsks ==
  ASSUME ConvInv, UNCHANGED <<store, base, begun, inbox, content, cursor, missed>>, pc' = "wait",
         begun \in inbox /\ KeepsTexts(base, Recs) => AreCut(targets') /\ AskedInv'
  PROVE  ConvInv'
<1>1. Recs' = Recs /\ At' = At /\ pc' # "archive"
  BY DEF Recs, At
<1>2. \A ids : AreCut(ids)' <=> AreCut(ids)
  BY <1>1 DEF AreCut
<1> QED BY <1>1, <1>2 DEF ConvInv, AreCut

\* The job that is waited for runs.
LEMMA ConvRuns ==
  ASSUME DrainInv, OneReplayed, HandInv, ConvInv, NEW k \in Slots, RunJob(k)
  PROVE  ConvInv'
<1> DEFINE j == slots[k]
           r == Recs[At + 1]
<1>1. /\ UNCHANGED <<inbox, content, begun, base, cursor, pc, awaited, targets, missed>>
      /\ Recs' = Recs /\ At' = At
  BY DEF RunJob, disk, kept, origin, Recs, At
<1> SUFFICES ASSUME begun \in inbox, KeepsTexts(base, Recs) PROVE ConvInv'
  BY <1>1 DEF ConvInv
<1>2. JobInv /\ SoleInv
  BY Parts DEF OneReplayed, OlderFirst
<1>3. k = awaited /\ k # 0 /\ pc = "wait" /\ pc \in Asking /\ j \in Jobs /\ j.status = "queued"
  BY <1>2 DEF JobInv, SoleInv, RunJob, Slots, Asking
<1>4. /\ begun \in Nat /\ Uniform(Recs) /\ At \in Nat /\ base \in Stores /\ store \in Stores
      /\ At + 1 \in DOMAIN Recs /\ r.valid
  BY <1>3, InHand
<1>5. Near(store, base, Recs, begun, At) /\ AreCut(targets) /\ AskedInv
  BY <1>3 DEF ConvInv
<1> DEFINE Found == IF j.op = "list" THEN Issue(store, j.arg) ELSE {}
           To(status, found) == slots' = [slots EXCEPT ![k].status = status, ![k].found = found]
<1>6. \/ /\ store' = CASE j.op = "ingest"  -> Ingested(store, j.arg, j.by)
                       [] j.op = "archive" -> Archived(store, {j.arg})
                       [] j.op = "list"    -> store
         /\ To("ok", Found)
      \/ /\ IF j.op = "ingest" THEN store' \in Partial(store, j.arg, j.by) ELSE UNCHANGED store
         /\ To("error", {})
  BY <1>3 DEF RunJob
<1>7. ASSUME NEW status, NEW found, To(status, found)
      PROVE  slots'[k].op = j.op /\ slots'[k].arg = j.arg /\ slots'[k].by = j.by
             /\ slots'[k].status = status /\ slots'[k].found = found
  <2>1. slots' = [slots EXCEPT ![k] = [j EXCEPT !.status = status, !.found = found]]
    BY <1>7
  <2>2. slots'[k] = [j EXCEPT !.status = status, !.found = found]
    BY <1>2, <2>1 DEF JobInv
  <2> QED BY <1>3, <2>2 DEF Jobs
<1> HIDE DEF To, Found, j
<1>8. CASE j.op = "ingest"
  <2>1. j.arg = r /\ j.by = begun
    BY <1>3, <1>5, <1>8 DEF AskedInv, j
  <2>2. r.op = "ingest" /\ At + 1 \in Puts(Recs)
    <3>1. j.arg.op = "ingest"
      BY <1>2, <1>3, <1>8, DrainAssumption DEF JobInv, j
    <3> QED BY <1>4, <2>1, <3>1 DEF Puts
  <2>3. /\ \A i \in Ids : Ingested(store, r, begun)[i] = Touched(base, Recs, begun, i, At + 1, store[i])
        /\ \A u \in Partial(store, r, begun), i \in Ids :
             u[i] \in {store[i], Touched(base, Recs, begun, i, At + 1, store[i])}
    <3>1. Near(store, base, Recs, begun, At) /\ KeepsTexts(base, Recs) /\ At + 1 \in Puts(Recs)
      BY <1>5, <2>2
    <3> HIDE DEF r
    <3>2. /\ \A i \in Ids : Ingested(store, Recs[At + 1], begun)[i]
                             = Touched(base, Recs, begun, i, At + 1, store[i])
          /\ \A u \in Partial(store, Recs[At + 1], begun), i \in Ids :
               u[i] \in {store[i], Touched(base, Recs, begun, i, At + 1, store[i])}
      BY <1>4, <3>1, IngestedTouches
    <3> QED BY <3>2 DEF r
  <2>4. CASE store' = Ingested(store, r, begun) /\ To("ok", Found)
    <3>1. \A i \in Ids : store'[i] = Touched(base, Recs, begun, i, At + 1, store[i])
      BY <2>3, <2>4
    <3>2. Near(store', base, Recs, begun, At)
          /\ \A i \in Ids : Settles(store', base, Recs, begun, i, At + 1)
      BY <1>4, <1>5, <3>1, NearTouched
    <3>3. SettledBut({})'
      BY <1>1, <3>2 DEF SettledBut
    <3>4. AskedInv'
      BY <1>1, <1>3, <1>7, <1>8, <2>1, <2>4, <3>3 DEF AskedInv
    <3> QED BY <1>1, <1>3, <1>5, <3>2, <3>4 DEF ConvInv, AreCut
  <2>5. CASE store' \in Partial(store, r, begun) /\ To("error", {})
    <3>1. \A i \in Ids : store'[i] \in {store[i], Touched(base, Recs, begun, i, At + 1, store[i])}
      BY <2>3, <2>5
    <3>2. Near(store', base, Recs, begun, At)
      BY <1>4, <1>5, <3>1, NearTouched
    <3>4. AskedInv'
      BY <1>1, <1>3, <1>7, <1>8, <2>1, <2>5 DEF AskedInv
    <3> QED BY <1>1, <1>3, <1>5, <3>2, <3>4 DEF ConvInv, AreCut
  <2> QED BY <1>6, <1>8, <2>1, <2>4, <2>5
<1>9. CASE j.op = "list"
  <2>0. r.op = "forgetSource" /\ j.arg = r.date /\ store' = store
    BY <1>3, <1>5, <1>6, <1>9 DEF AskedInv, j
  <2>1. Near(store', base, Recs, begun, At)
    BY <1>5, <2>0
  <2>2. ASSUME NEW i \in Ids
        PROVE  /\ ~Writes(base, Recs, i, At + 1)
               /\ Cuts(base, Recs, i, At + 1) <=> store[i] # Absent /\ store[i].date = r.date
    <3>1. /\ ~Writes(base, Recs, i, At + 1)
          /\ (store[i] = Absent <=> base[i] = Absent)
          /\ (base[i] # Absent => store[i].date = base[i].date)
      BY <1>4, <1>5, <2>0, Archiving
    <3> QED BY <1>4, <2>0, <3>1 DEF Cuts
  <2>3. ASSUME NEW i \in Issue(store, r.date) PROVE Cuts(base, Recs, i, At + 1)
    BY <2>2 DEF Issue, Live, Stored
  <2>4. ASSUME NEW i \in Ids, i \notin Issue(store, r.date)
        PROVE  Settles(store, base, Recs, begun, i, At + 1)
    <3>1. CASE ~Cuts(base, Recs, i, At + 1)
      BY <1>4, <1>5, <2>2, <3>1, Untouched
    <3>2. CASE Cuts(base, Recs, i, At + 1)
      <4>1. store[i] # Absent /\ store[i].date = r.date /\ store[i] \in Entries \cup {Absent}
        BY <1>4, <2>2, <3>2 DEF Stores
      <4>2. store[i].life # "live"
        BY <2>4, <4>1 DEF Issue, Live, Stored
      <4>3. store[i] = Touched(base, Recs, begun, i, At + 1, store[i])
        BY <2>2, <3>2, <4>1, <4>2, ArchIs DEF Touched
      <4> QED BY <1>4, <1>5, <4>3, TouchedSettles DEF Near
    <3> QED BY <3>1, <3>2
  <2>6. AskedInv'
    <3>1. CASE To("ok", Found)
      <4>1. slots'[k].found = Issue(store, r.date) /\ slots'[k].op = "list" /\ slots'[k].arg = r.date
        BY <1>7, <1>9, <2>0, <3>1 DEF Found
      <4>2. /\ \A i \in slots'[k].found : Cuts(base', Recs', i, At' + 1)
            /\ \A i \in Ids \ slots'[k].found : Settles(store', base', Recs', begun', i, At' + 1)
        BY <2>3, <2>4, <2>0, <1>1, <4>1
      <4> QED BY <1>1, <1>3, <2>0, <4>1, <4>2 DEF AskedInv, AreCut, SettledBut
    <3>2. CASE To("error", {})
      <4>1. slots'[k].found = {} /\ slots'[k].op = "list" /\ slots'[k].arg = r.date
            /\ slots'[k].status = "error"
        BY <1>7, <1>9, <2>0, <3>2
      <4> QED BY <1>1, <1>3, <2>0, <4>1 DEF AskedInv, AreCut
    <3> QED BY <1>6, <3>1, <3>2
  <2> QED BY <1>1, <1>3, <1>5, <2>1, <2>6 DEF ConvInv, AreCut
<1>10. CASE j.op = "archive"
  <2>0. /\ Cuts(base, Recs, j.arg, At + 1) /\ ~Writes(base, Recs, j.arg, At + 1)
        /\ (~missed => SettledBut(targets \cup {j.arg}))
    BY <1>3, <1>5, <1>10, CutsOnly DEF AskedInv, AreCut, j
  <2>1. CASE store' = Archived(store, {j.arg}) /\ To("ok", Found)
    <3>1. \A i \in Ids : store'[i] = IF i = j.arg THEN Arch(store[i]) ELSE store[i]
      BY <1>4, <2>1, ArchivesEach
    <3>2. \A i \in Ids : IF i = j.arg THEN store'[i] = Touched(base, Recs, begun, i, At + 1, store[i])
                                      ELSE store'[i] = store[i]
      BY <2>0, <3>1 DEF Touched
    <3>3. Near(store', base, Recs, begun, At)
      BY <1>4, <1>5, <3>2, NearTouched
    <3>4. ASSUME ~missed, NEW i \in Ids, i \notin targets
          PROVE  Settles(store', base, Recs, begun, i, At + 1)
      <4>1. i # j.arg => Settles(store, base, Recs, begun, i, At + 1)
        BY <2>0, <3>4 DEF SettledBut
      <4> QED BY <1>4, <1>5, <3>2, <4>1, NearTouched
    <3>5. ~missed => SettledBut(targets)'
      BY <1>1, <3>4 DEF SettledBut
    <3>6. /\ slots'[k].found = {} /\ slots'[k].op = "archive" /\ slots'[k].arg = j.arg
          /\ slots'[k].status = "ok"
      BY <1>7, <1>10, <2>1 DEF Found
    <3>7. AskedInv'
      BY <1>1, <1>3, <2>0, <3>5, <3>6 DEF AskedInv, AreCut
    <3> QED BY <1>1, <1>3, <1>5, <3>3, <3>7 DEF ConvInv, AreCut
  <2>2. CASE store' = store /\ To("error", {})
    <3>1. /\ slots'[k].found = {} /\ slots'[k].op = "archive" /\ slots'[k].arg = j.arg
          /\ slots'[k].status = "error"
      BY <1>7, <1>10, <2>2
    <3>2. AskedInv'
      BY <1>1, <1>3, <2>0, <3>1 DEF AskedInv, AreCut
    <3> QED BY <1>1, <1>3, <1>5, <2>2, <3>2 DEF ConvInv, AreCut
  <2> QED BY <1>6, <1>10, <2>1, <2>2
<1>11. j.op \in {"ingest", "list", "archive"}
  BY <1>3 DEF Jobs, j
<1> QED BY <1>8, <1>9, <1>10, <1>11

\* The records of a batch in the spool all write, or none does.
LEMMA BatchUniform ==
  ASSUME BatchTypes, NEW b \in Positions
  PROVE  Uniform(content[b].records)
  BY BatchFacts, DrainAssumption DEF Uniform

\* Nor is anything asked of the store once the batch has left the inbox.
LEMMA ConvLeft ==
  ASSUME begun' \notin inbox'
  PROVE  ConvInv'
  BY DEF ConvInv

\* The record in hand has failed: it will be applied again.
LEMMA ConvFails ==
  ASSUME ConvInv, Fails, UNCHANGED <<disk, store, origin>>
  PROVE  ConvInv'
<1>1. UNCHANGED <<content, inbox, cursor, begun, base>> /\ pc' \in {"idle", "tidy"}
  BY DEF Fails, Stall, EndPass, kept, disk, origin
<1>2. Recs' = Recs /\ At' = At /\ pc' \notin Asking
  BY <1>1 DEF Recs, At, Asking
<1> QED BY <1>1, <1>2, ConvQuiet

\* It has succeeded, and settled all.
LEMMA ConvSucceeds ==
  ASSUME DrainInv, HandInv, ConvInv, Succeeds, UNCHANGED <<disk, store, origin>>, pc \in Asking,
         begun \in inbox /\ KeepsTexts(base, Recs) => SettledBut({})
  PROVE  ConvInv'
<1>1. UNCHANGED <<content, inbox, store, begun, base>> /\ Recs' = Recs
  BY DEF disk, origin, Recs
<1>2. CASE begun \in inbox
  <2>1. issue = NoDate /\ batch = begun /\ begun \in 1..MaxBatches
    BY <1>2, InHand
  <2>2. cursor' = [cursor EXCEPT ![begun] = @ + 1] /\ pc' = "apply"
    BY <2>1 DEF Succeeds
  <2>3. At' = At + 1
    BY <1>1, <2>1, <2>2, Parts DEF At, CursorInv
  <2>4. pc' \notin Asking
    BY <2>2 DEF Asking
  <2> QED BY <1>1, <2>3, <2>4, ConvNext
<1>3. CASE begun \notin inbox
  BY <1>1, <1>3, ConvLeft
<1> QED BY <1>2, <1>3

\* A job is submitted for the record in hand, or refused.
LEMMA ConvSubmits ==
  ASSUME ConvInv, NEW op, NEW arg, NEW rest, Submit(op, arg, rest), UNCHANGED <<disk, store, origin>>,
         begun \in inbox /\ KeepsTexts(base, Recs) =>
           /\ AreCut(rest)
           /\ \/ op = "ingest" /\ arg = Recs[At + 1] /\ batch = begun
              \/ op = "list" /\ Recs[At + 1].op = "forgetSource" /\ arg = Recs[At + 1].date
              \/ op = "archive" /\ AreCut({arg}) /\ (~missed => SettledBut(rest \cup {arg})),
         DrainInv
  PROVE  ConvInv'
<1>1. CASE Fails
  BY <1>1, ConvFails
<1>2. ASSUME NEW k \in Slots,
             slots' = [slots EXCEPT ![k] = [by |-> batch, op |-> op, arg |-> arg,
                                            status |-> "queued", found |-> {}]],
             awaited' = k, targets' = rest, pc' = "wait",
             UNCHANGED <<inHand, retain, missed, kept, dates, backoff>>
      PROVE  ConvInv'
  <2> DEFINE j == slots'[awaited']
  <2>1. j = [by |-> batch, op |-> op, arg |-> arg, status |-> "queued", found |-> {}]
    BY <1>2, Parts DEF JobInv
  <2>2. j.by = batch /\ j.op = op /\ j.arg = arg /\ j.status = "queued" /\ j.found = {}
    BY <2>1
  <2> HIDE DEF j
  <2>3. UNCHANGED <<store, base, begun, inbox, content, cursor, missed>> /\ Recs' = Recs /\ At' = At
    BY <1>2 DEF kept, disk, origin, Recs, At
  <2>4. ASSUME begun \in inbox, KeepsTexts(base, Recs) PROVE AskedInv'
    <3>2. CASE op = "ingest" /\ arg = Recs[At + 1] /\ batch = begun
      BY <2>2, <2>3, <3>2 DEF AskedInv, j
    <3>3. CASE op = "list" /\ Recs[At + 1].op = "forgetSource" /\ arg = Recs[At + 1].date
      BY <2>2, <2>3, <3>3 DEF AskedInv, AreCut, j
    <3>4. CASE op = "archive" /\ AreCut({arg}) /\ (~missed => SettledBut(rest \cup {arg}))
      BY <1>2, <2>2, <2>3, <3>4 DEF AskedInv, AreCut, SettledBut, j
    <3> QED BY <2>4, <3>2, <3>3, <3>4
  <2> QED BY <1>2, <2>3, <2>4, ConvAsks
<1> QED BY <1>1, <1>2 DEF Submit

\* The next record of the batch is taken.
LEMMA ConvApply ==
  ASSUME DrainInv, HandInv, ConvInv, Apply
  PROVE  ConvInv'
<1>1. /\ pc = "apply" /\ issue = NoDate /\ Record.valid /\ ~AtEnd /\ UNCHANGED <<disk, store, origin>>
      /\ \/ Record.op = "ingest" /\ Submit("ingest", Record, {})
         \/ Record.op = "forget" /\ Submit("archive", Record.id, {})
         \/ Record.op = "forgetSource" /\ Submit("list", Record.date, {})
  BY ApplySubmits
<1>2. batch = begun /\ Record = Recs[At + 1]
  BY <1>1 DEF HandInv, Working, Record, Recs, At
<1>3. AreCut({})
  BY DEF AreCut
<1>4. CASE Record.op = "ingest" /\ Submit("ingest", Record, {})
  BY <1>1, <1>2, <1>3, <1>4, ConvSubmits
<1>5. CASE Record.op = "forgetSource" /\ Submit("list", Record.date, {})
  BY <1>1, <1>2, <1>3, <1>5, ConvSubmits
<1>6. CASE Record.op = "forget" /\ Submit("archive", Record.id, {})
  <2>1. ASSUME begun \in inbox, KeepsTexts(base, Recs)
        PROVE  AreCut({Record.id}) /\ SettledBut({} \cup {Record.id})
    <3>1. /\ Uniform(Recs) /\ At \in Nat /\ At < Len(Recs) /\ DOMAIN Recs = 1..Len(Recs)
          /\ Len(Recs) \in Nat /\ base \in Stores /\ begun \in Nat
      BY <1>1, <1>2, <2>1, InHand DEF AtEnd, Recs, At
    <3>2. Near(store, base, Recs, begun, At)
      BY <2>1 DEF ConvInv
    <3>3. At + 1 \in DOMAIN Recs
      BY <3>1
    <3>4. Cuts(base, Recs, Record.id, At + 1)
      BY <1>1, <1>2, <1>6, <3>3 DEF Cuts
    <3>5. ASSUME NEW i \in Ids, i # Record.id PROVE Settles(store, base, Recs, begun, i, At + 1)
      <4>1. ~Writes(base, Recs, i, At + 1) /\ ~Cuts(base, Recs, i, At + 1)
        BY <1>2, <1>6, <3>5 DEF Writes, Puts, Cuts
      <4> QED BY <3>1, <3>2, <4>1, Untouched
    <3> QED BY <3>4, <3>5 DEF AreCut, SettledBut
  <2> QED BY <1>1, <1>3, <1>6, <2>1, ConvSubmits
<1> QED BY <1>1, <1>4, <1>5, <1>6

\* The next archiving job of the record in hand, or its end.
LEMMA ConvArchive ==
  ASSUME DrainInv, HandInv, ConvInv, Archive
  PROVE  ConvInv'
<1>1. pc = "archive" /\ pc \in Asking /\ UNCHANGED <<disk, store, origin>>
  BY DEF Archive, Asking
<1>2. begun \in inbox /\ KeepsTexts(base, Recs) => AreCut(targets) /\ (~missed => SettledBut(targets))
  BY <1>1 DEF ConvInv
<1>3. ASSUME NEW i \in targets, Submit("archive", i, targets \ {i}) PROVE ConvInv'
  <2>1. AreCut(targets) => AreCut(targets \ {i}) /\ AreCut({i})
    BY DEF AreCut
  <2>2. (targets \ {i}) \cup {i} = targets
    OBVIOUS
  <2> QED BY <1>1, <1>2, <1>3, <2>1, <2>2, ConvSubmits
<1>4. CASE Fails
  BY <1>1, <1>4, ConvFails
<1>5. CASE targets = {} /\ ~missed /\ Succeeds
  BY <1>1, <1>2, <1>5, ConvSucceeds
<1> QED BY <1>3, <1>4, <1>5 DEF Archive

\* The answer of the job that is waited for.
LEMMA ConvAnswered ==
  ASSUME DrainInv, HandInv, ConvInv, Answered
  PROVE  ConvInv'
<1> DEFINE j == slots[awaited]
<1>1. /\ pc = "wait" /\ pc \in Asking /\ j.status # "queued" /\ UNCHANGED <<disk, store, origin>>
      /\ j.status \in {"ok", "error"}
  BY Parts DEF Answered, Asking, JobInv, Jobs
<1>2. /\ begun \in inbox /\ KeepsTexts(base, Recs) => AskedInv /\ AreCut(targets)
      /\ UNCHANGED <<content, inbox, begun, base>>
  BY <1>1 DEF ConvInv, disk, origin
<1>3. CASE j.op = "ingest" /\ j.status = "ok" /\ Succeeds
  <2>1. AskedInv => SettledBut({})
    BY <1>3 DEF AskedInv
  <2> QED BY <1>1, <1>2, <1>3, <2>1, ConvSucceeds
<1>4. CASE Fails
  BY <1>1, <1>4, ConvFails
<1>5. CASE /\ j.op = "archive" \/ (j.op = "list" /\ j.status = "ok")
           /\ pc' = "archive" /\ targets' = targets \cup j.found
           /\ missed' = (missed \/ j.status = "error") /\ UNCHANGED kept
  <2>1. UNCHANGED <<cursor, content, begun>> /\ Recs' = Recs /\ At' = At
    BY <1>2, <1>5 DEF kept, Recs, At
  <2>2. ASSUME AskedInv, AreCut(targets)
        PROVE  AreCut(targets \cup j.found)
               /\ (~missed' => SettledBut(targets \cup j.found))
    <3>1. AreCut(j.found) /\ (~missed /\ j.status = "ok" => SettledBut(targets \cup j.found))
      <4>1. CASE j.op = "archive"
        BY <1>1, <2>2, <4>1 DEF AskedInv, AreCut
      <4>2. CASE j.op = "list" /\ j.status = "ok"
        BY <2>2, <4>2 DEF AskedInv, SettledBut
      <4> QED BY <1>5, <4>1, <4>2
    <3> QED BY <1>1, <1>5, <2>2, <3>1 DEF AreCut
  <2>3. ASSUME begun' \in inbox', KeepsTexts(base, Recs)'
        PROVE  /\ Near(store, base, Recs, begun, At)' /\ AreCut(targets)'
               /\ (~missed => SettledBut(targets))'
    <3>1. begun \in inbox /\ KeepsTexts(base, Recs)
      BY <1>2, <2>1, <2>3
    <3>2. Near(store, base, Recs, begun, At)'
      BY <1>1, <1>2, <2>1, <3>1 DEF ConvInv
    <3> QED BY <1>1, <1>2, <1>5, <2>1, <2>2, <3>1, <3>2 DEF AreCut, SettledBut
  <2> QED BY <1>5, <2>3 DEF ConvInv
<1> QED BY <1>3, <1>4, <1>5 DEF Answered

\* A record that memory calls invalid is passed by.
LEMMA ConvRefuse ==
  ASSUME DrainInv, HandInv, ConvInv, Refuse
  PROVE  ConvInv'
<1>1. /\ UNCHANGED <<content, inbox, begun, base, store, pc>> /\ pc = "apply"
      /\ cursor' = [cursor EXCEPT ![batch] = @ + 1] /\ ~Record.valid
  BY DEF Refuse, disk, origin
<1>2. batch = begun /\ Record = Recs[At + 1] /\ Recs' = Recs /\ pc' \notin Asking
  BY <1>1 DEF HandInv, Working, Record, Recs, At, Asking
<1>3. CASE begun \in inbox
  <2>1. begun \in 1..MaxBatches /\ Uniform(Recs) /\ At \in Nat /\ base \in Stores /\ begun \in Nat
    BY <1>3, InHand
  <2>2. At' = At + 1
    BY <1>1, <1>2, <2>1, Parts DEF At, CursorInv
  <2>3. KeepsTexts(base, Recs) => SettledBut({})
    <3>1. ASSUME NEW i \in Ids PROVE ~Writes(base, Recs, i, At + 1) /\ ~Cuts(base, Recs, i, At + 1)
      BY <1>1, <1>2 DEF Writes, Puts, Cuts
    <3> QED BY <1>3, <2>1, <3>1, Untouched DEF SettledBut, ConvInv
  <2> QED BY <1>1, <1>2, <2>2, <2>3, ConvNext
<1>4. CASE begun \notin inbox
  BY <1>1, <1>4, ConvLeft
<1> QED BY <1>3, <1>4

\* A batch is begun: the store is the one it found; or begun anew: the store is as it was.
LEMMA ConvBegins ==
  ASSUME DrainInv, DrainInv', OneReplayed, HandInv, ConvInv, Begin
  PROVE  ConvInv'
<1>1. /\ UNCHANGED <<content, inbox, cursor, store, batch>> /\ pc' \notin Asking /\ pc = "begin"
      /\ IF batch > begun THEN begun' = batch /\ base' = store ELSE UNCHANGED <<begun, base>>
  BY DEF Begin, disk, kept, inHand, origin, Asking
<1>2. HandInv' /\ batch \in inbox /\ (batch = begun \/ (batch > begun /\ cursor[batch] = 0))
  BY HandBegins
<1>3. begun \in Nat /\ batch \in Nat
  BY Parts, Numbers DEF BatchTypes
<1>4. CASE batch = begun
  <2>1. UNCHANGED <<begun, base>> /\ Recs' = Recs /\ At' = At
    BY <1>1, <1>3, <1>4 DEF Recs, At
  <2> QED BY <1>1, <2>1, ConvQuiet
<1>5. CASE batch > begun /\ cursor[batch] = 0
  <2>1. begun' \in inbox' /\ At' = 0 /\ base' = store /\ store' = store
    BY <1>1, <1>2, <1>5 DEF At
  <2>2. Uniform(Recs)' /\ base' \in Stores /\ begun' \in Nat
    <3>1. batch \in Positions /\ base' = store /\ begun' = batch /\ Recs' = content[batch].records
      BY <1>1, <1>2, <1>5, Parts, Numbers DEF Recs, disk, Begin
    <3> QED BY <1>3, <3>1, Parts, BatchUniform DEF StoreTypes
  <2>3. Near(store', base', Recs', begun', At')
    BY <2>1, <2>2, NearIs
  <2> QED BY <1>1, <2>3 DEF ConvInv, Asking
<1> QED BY <1>2, <1>4, <1>5

\* Every step keeps the store near.
LEMMA ConvStep ==
  ASSUME DrainInv, DrainInv', OneReplayed, HandInv, ConvInv, [Next]_vars
  PROVE  ConvInv'
<1>0. BatchTypes /\ PlaceInv /\ CursorInv
  BY Parts
<1>1. ASSUME UNCHANGED <<content, store, cursor>>, UNCHANGED origin, inbox' \subseteq inbox,
             pc' \notin Asking
      PROVE  ConvInv'
  <2>1. UNCHANGED <<base, begun>> /\ Recs' = Recs /\ At' = At
    BY <1>1 DEF origin, Recs, At
  <2> QED BY <1>1, <2>1, ConvQuiet
<1>2. CASE LoadLedger \/ OutOfBudget \/ Load \/ SaveLedger \/ Retention \/ ArchiveIssue \/ Tidy
  <2>1. pc' \notin Asking
    BY <1>2 DEF LoadLedger, OutOfBudget, Load, SaveLedger, Retention, ArchiveIssue, Tidy, EndPass, Asking
  <2> QED BY <1>1, <1>2, <2>1 DEF LoadLedger, OutOfBudget, Load, SaveLedger, Retention, ArchiveIssue,
             Tidy, disk, kept
<1>3. CASE Quarantine
  <2>1. pc' \notin Asking /\ inbox' \subseteq inbox
    BY <1>3 DEF Quarantine, Asking
  <2> QED BY <1>1, <1>3, <2>1 DEF Quarantine, kept
<1>4. CASE StartPass
  <2>1. /\ UNCHANGED <<content, inbox, store, begun, base>> /\ Recs' = Recs /\ pc' \notin Asking
        /\ todo' = inbox
    BY <1>4 DEF StartPass, Fault, OneReplayed, disk, origin, Recs, Asking
  <2>2. begun \in inbox => At' = At
    <3>1. begun \in inbox => begun \in DOMAIN cursor
      BY <1>0, Numbers DEF CursorInv
    <3> QED BY <1>4, <2>1, <3>1 DEF StartPass, At
  <2> QED BY <2>1, <2>2, ConvQuiet
<1>5. CASE Receipt
  <2>1. CASE pc' = "remove" /\ UNCHANGED kept
    BY <1>1, <1>5, <2>1 DEF Receipt, kept, Asking
  <2>2. CASE Stall
    BY <1>1, <1>5, <2>2 DEF Receipt, Stall, EndPass, kept, Asking
  <2> QED BY <1>5, <2>1, <2>2 DEF Receipt
<1>6. CASE RemoveFile
  <2>1. CASE UNCHANGED inbox /\ Stall
    BY <1>1, <1>6, <2>1 DEF RemoveFile, Stall, EndPass, kept, Asking
  <2>2. CASE inbox' = inbox \ {batch}
    BY <1>6, <2>2, ConvLeft DEF RemoveFile, origin, HandInv, Working
  <2> QED BY <1>6, <2>1, <2>2 DEF RemoveFile
<1>7. ASSUME NEW s \in Shapes, Enqueue(s) PROVE ConvInv'
  <2> DEFINE n == Len(content) + 1
  <2>1. /\ content' = Append(content, s) /\ inbox' = inbox \cup {n}
        /\ UNCHANGED <<store, base, begun, cursor, pc, slots, awaited, targets, missed>>
    BY <1>7 DEF Enqueue, kept, job, origin
  <2>2. Len(content) \in Nat /\ content \in Seq(Shapes) /\ begun \in 0..Len(content)
    BY <1>0, BatchFacts DEF BatchTypes, Positions
  <2>3. begun # n /\ (begun # 0 => content'[begun] = content[begun])
    BY <2>1, <2>2, AppendProperties
  <2>4. CASE begun = 0
    <3>1. begun' \notin inbox'
      BY <1>0, <2>1, <2>2, <2>4, Numbers
    <3> QED BY <3>1, ConvLeft
  <2>5. CASE begun # 0
    <3>1. Recs' = Recs /\ (begun \in inbox' => begun \in inbox /\ At' = At)
      BY <2>1, <2>3, <2>5 DEF Recs, At
    <3> QED BY <2>1, <3>1, ConvStays
  <2> QED BY <2>4, <2>5
<1>8. CASE BackoffEnds \/ RetentionDue \/ (\E d \in Dates : Expire(d)) \/ UNCHANGED vars
  <2>1. UNCHANGED <<content, inbox, cursor, store, base, begun, pc, slots, awaited, targets, missed>>
    BY <1>8 DEF BackoffEnds, RetentionDue, Expire, vars, disk, job, kept, origin
  <2>2. Recs' = Recs /\ At' = At
    BY <2>1 DEF Recs, At
  <2> QED BY <2>1, <2>2, ConvStays
<1>9. CASE Crash
  <2>1. UNCHANGED <<content, inbox, store, begun, base>> /\ pc' \notin Asking /\ Recs' = Recs
    BY <1>9 DEF Crash, EndPass, disk, origin, Recs, Asking
  <2>2. CASE begun \in inbox
    <3>1. /\ Uniform(Recs) /\ At \in Nat /\ base \in Stores /\ begun \in Nat
          /\ begun \in 1..MaxBatches
      BY <2>2, InHand
    <3>2. At' = 0
      BY <1>0, <1>9, <2>1, <3>1 DEF Crash, At, CursorInv
    <3>3. KeepsTexts(base, Recs) => Near(store, base, Recs, begun, 0)
      BY <2>2, <3>1, NearIs DEF ConvInv
    <3> QED BY <2>1, <3>2, <3>3 DEF ConvInv, Asking
  <2>3. CASE begun \notin inbox
    BY <2>1, <2>3, ConvLeft
  <2> QED BY <2>2, <2>3
<1>10. CASE ArchiveSource
  <2>1. begun \notin inbox /\ UNCHANGED <<begun, inbox>>
    BY <1>0, <1>10, NoneLeft DEF ArchiveSource, PlaceInv, Expiring, disk, origin, Submit
  <2> QED BY <2>1, ConvLeft
<1>11. CASE Deferred
  BY <1>11 DEF Deferred, Fault, OneReplayed, OlderFirst, JobsInTime
<1> QED BY <1>2, <1>3, <1>4, <1>5, <1>6, <1>7, <1>8, <1>9, <1>10, <1>11, ConvBegins, ConvRefuse,
           ConvApply, ConvArchive, ConvAnswered, ConvRuns DEF Next, DrainStep

\* Nothing has been begun at first.
LEMMA ConvInit ==
  ASSUME Init
  PROVE  HandInv /\ ConvInv
  BY DEF Init, HandInv, ConvInv, Working, Asking

\* A batch whose last record has been taken and that moves no text has left what a clean
\* application leaves.
LEMMA ReceiptConverges ==
  ASSUME DrainInv, HandInv, ConvInv, TextsStay, Receipt, pc' = "remove"
  PROVE  store = Replayed(base, content[batch].records, batch)
<1>1. pc = "apply" /\ AtEnd
  BY DEF Receipt
<1>2. batch = begun /\ batch \in inbox
  BY <1>1, Parts DEF HandInv, Working, PlaceInv, Applying
<1>3. /\ begun # 0 /\ At = Len(Recs) /\ Uniform(Recs) /\ begun \in Nat /\ base \in Stores
      /\ store \in Stores /\ KeepsTexts(base, Recs)
  BY <1>1, <1>2, InHand, Parts, Numbers DEF AtEnd, Recs, At, TextsStay
<1>4. Near(store, base, Recs, begun, Len(Recs))
  BY <1>2, <1>3 DEF ConvInv
<1>5. store = Replayed(base, Recs, begun)
  BY <1>3, <1>4, NearEnd, ReplayedIs
<1> QED BY <1>2, <1>5 DEF Recs

\* What Converges says of a step.
ConvergesStep ==
  pc = "apply" /\ pc' = "remove" =>
    Face(store) = Face(Replayed(base, content[batch].records, batch))

\* As long as jobs keep their deadline, listings are complete and a file that cannot be read
\* can at least be moved: a batch that moves no text gets its receipt, or its reason, when the
\* store is what one clean application of it makes of the store it found, however often the
\* daemon died or a job failed half way on the way there (drain: a replay converges on
\* upserts, so the cursor need not be durable).
THEOREM ReplaysConverge ==
  ASSUME "slow" \notin Faults, "list" \notin Faults, "read" \notin Faults \/ "write" \notin Faults
  PROVE  Spec /\ []TextsStay => Converges
<1>1. OneReplayed
  BY DEF OneReplayed, OlderFirst, JobsInTime
<1>2. Init => HandInv /\ ConvInv
  BY ConvInit
<1>3. DrainInv /\ DrainInv' /\ HandInv /\ ConvInv /\ [Next]_vars => HandInv' /\ ConvInv'
  BY <1>1, HandStep, ConvStep
<1>4. DrainInv /\ HandInv /\ ConvInv /\ TextsStay /\ [Next]_vars => [ConvergesStep]_vars
  <2> SUFFICES ASSUME DrainInv, HandInv, ConvInv, TextsStay, Next, pc = "apply", pc' = "remove"
               PROVE  Face(store) = Face(Replayed(base, content[batch].records, batch))
    BY DEF ConvergesStep
  <2>1. ~Apply
    <3>1. Fails => pc' \in {"idle", "tidy"}
      BY DEF Fails, Stall, EndPass
    <3> QED BY <3>1, ApplySubmits DEF Submit
  <2>2. Receipt \/ ~DrainStep
    BY <2>1 DEF DrainStep, LoadLedger, StartPass, OutOfBudget, EndPass, Load, Quarantine, Begin,
       SaveLedger, Refuse, Archive, Answered, Deferred, RemoveFile, Retention, ArchiveIssue,
       ArchiveSource, Tidy
  <2>3. DrainStep
    BY DEF Next, Enqueue, RunJob, BackoffEnds, RetentionDue, Expire, Crash, EndPass
  <2> QED BY <2>2, <2>3, ReceiptConverges
<1> QED BY <1>2, <1>3, <1>4, AlwaysDrainInv, PTL DEF Spec, Converges, ConvergesStep

(***************************************************************************)
(* The drain implements AtomicBatches: what happens between the first      *)
(* record of a batch and the removal of its file, deaths and replays       *)
(* included, is one step of it.                                            *)
(***************************************************************************)
\* The abstract batches are applied to a store of the same making.
LEMMA SameStores ==
  \A s, recs, r, b, ids :
    /\ Batches!Replayed(s, recs, b) = Replayed(s, recs, b)
    /\ Batches!Archived(s, ids) = Archived(s, ids) /\ Batches!Live(s) = Live(s)
    /\ Batches!Upserted(s, r, b) = Upserted(s, r, b)
<1>1. \A s, recs, b : Batches!Replayed(s, recs, b) = Replayed(s, recs, b)
  BY Zenon DEF Replayed, Applied, Ingested, Clashes, Stored, Live, Issue, Upserted, Archived,
     Batches!Replayed, Batches!Applied, Batches!Ingested, Batches!Clashes, Batches!Stored,
     Batches!Live, Batches!Issue, Batches!Upserted, Batches!Archived
<1>2. \A s, r, b, ids : /\ Batches!Archived(s, ids) = Archived(s, ids) /\ Batches!Live(s) = Live(s)
                        /\ Batches!Upserted(s, r, b) = Upserted(s, r, b)
  BY DEF Stored, Live, Upserted, Archived, Batches!Stored, Batches!Live, Batches!Upserted,
     Batches!Archived
<1> QED BY <1>1, <1>2

\* A store that is near is one a batch may be given up at.
LEMMA HalfIs ==
  ASSUME NEW s \in Stores, NEW recs, Uniform(recs), NEW b \in Nat, NEW c \in Nat, NEW t,
         Near(t, s, recs, b, c), KeepsTexts(s, recs)
  PROVE  Batches!HalfApplied(t, s, recs, b)
<1>1. Batches!Replayed(s, recs, b) = Clean(s, recs, b, Len(recs))
  BY SameStores, ReplayedIs
<1> SUFFICES ASSUME NEW i \in Ids
             PROVE  \/ t[i] \in {s[i], Clean(s, recs, b, Len(recs))[i]}
                    \/ \E n \in DOMAIN recs :
                         /\ recs[n].op = "ingest" /\ recs[n].id = i
                         /\ \E e \in {s[i], Batches!Upserted(s, recs[n], b)[i]} :
                              t[i] = e \/ (e # Absent /\ t[i] = [e EXCEPT !.life = "archived"])
  BY <1>1 DEF Batches!HalfApplied
<1>2. CASE Written(s, recs, i, Len(recs))
  <2>1. ASSUME NEW n \in DOMAIN recs, Writes(s, recs, i, n)
        PROVE  /\ recs[n].op = "ingest" /\ recs[n].id = i
               /\ Batches!Upserted(s, recs[n], b)[i] = Fresh(recs[n], b)
    BY <2>1, SameStores DEF Writes, Puts, Upserted, Fresh, Stores
  <2>2. PICK n \in DOMAIN recs : Writes(s, recs, i, n)
    BY <1>2 DEF Written, Writes, Puts
  <2>3. \/ t[i] = s[i] \/ t[i] = Arch(s[i])
        \/ \E m \in DOMAIN recs : Writes(s, recs, i, m)
             /\ (t[i] = Fresh(recs[m], b) \/ t[i] = Arch(Fresh(recs[m], b)))
    BY DEF Near, Possible, Own
  <2>4. CASE t[i] = s[i]
    BY <2>4
  <2>5. CASE t[i] = Arch(s[i])
    BY <2>1, <2>2, <2>5 DEF Arch
  <2>6. ASSUME NEW m \in DOMAIN recs, Writes(s, recs, i, m),
               t[i] = Fresh(recs[m], b) \/ t[i] = Arch(Fresh(recs[m], b))
        PROVE  \E e \in {s[i], Batches!Upserted(s, recs[m], b)[i]} :
                 t[i] = e \/ (e # Absent /\ t[i] = [e EXCEPT !.life = "archived"])
    <3>1. Batches!Upserted(s, recs[m], b)[i] = Fresh(recs[m], b)
      BY <2>1, <2>6
    <3>2. t[i] = Fresh(recs[m], b)
          \/ (Fresh(recs[m], b) # Absent /\ t[i] = [Fresh(recs[m], b) EXCEPT !.life = "archived"])
      BY <2>6 DEF Arch
    <3> QED BY <3>1, <3>2
  <2> QED BY <2>1, <2>3, <2>4, <2>5, <2>6
<1>3. CASE ~Written(s, recs, i, Len(recs))
  <2>1. \E k \in {c, c + 1} : t[i] \in {Clean(s, recs, b, k)[i], Clean(s, recs, b, Len(recs))[i]}
    BY <1>3 DEF Near, Settles
  <2>2. \A k \in Nat : Clean(s, recs, b, k)[i] \in {s[i], Clean(s, recs, b, Len(recs))[i]}
    BY <1>3, WrittenIs
  <2> QED BY <2>1, <2>2
<1> QED BY <1>2, <1>3

\* Of ids, what is live has expired.
AreExpired(ids) == \A i \in ids \cap Live(store) : store[i].date \in expired

\* Retention works on what has expired: its issues, and the ids it archives.
RetireInv ==
  /\ expiring \subseteq expired /\ (issue # NoDate => issue \in expired)
  /\ issue # NoDate /\ pc \in Asking =>
       /\ AreExpired(targets)
       /\ pc = "wait" => LET j == slots[awaited] IN
            \/ j.op = "list" /\ j.arg = issue /\ AreExpired(j.found)
            \/ j.op = "archive" /\ AreExpired({j.arg}) /\ j.found = {}

\* It does not while it has no issue in hand.
LEMMA RetireQuiet ==
  ASSUME RetireInv, issue' = NoDate, expiring' \subseteq expiring \cup expired, expired \subseteq expired'
  PROVE  RetireInv'
  BY DEF RetireInv

\* Nor once it has taken an issue whose list it has not asked for.
LEMMA RetireTakes ==
  ASSUME RetireInv, issue' \in expired, pc' \notin Asking, UNCHANGED <<expiring, expired>>
  PROVE  RetireInv'
  BY DEF RetireInv

\* A step that leaves its jobs alone leaves them so.
LEMMA RetireStays ==
  ASSUME RetireInv, UNCHANGED <<issue, expiring, pc, targets, awaited, slots, store>>,
         expired \subseteq expired'
  PROVE  RetireInv'
<1>1. \A ids : AreExpired(ids) => AreExpired(ids)'
  BY DEF AreExpired
<1> QED BY <1>1 DEF RetireInv

\* An issue, or a batch, that is given up.
LEMMA RetireFails ==
  ASSUME RetireInv, Fails, UNCHANGED expired
  PROVE  RetireInv'
<1>1. issue' = NoDate /\ expiring' = {}
  BY DEF Fails, Stall, EndPass
<1> QED BY <1>1, RetireQuiet

\* A job is submitted for the issue in hand, or refused.
LEMMA RetireSubmits ==
  ASSUME DrainInv, RetireInv, NEW op, NEW arg, NEW rest, Submit(op, arg, rest),
         UNCHANGED <<store, expired>>,
         issue # NoDate => /\ AreExpired(rest)
                           /\ \/ op = "list" /\ arg = issue
                              \/ op = "archive" /\ AreExpired({arg})
  PROVE  RetireInv'
<1>1. CASE Fails
  BY <1>1, RetireFails
<1>2. ASSUME NEW k \in Slots,
             slots' = [slots EXCEPT ![k] = [by |-> batch, op |-> op, arg |-> arg,
                                            status |-> "queued", found |-> {}]],
             awaited' = k, targets' = rest, UNCHANGED retain
      PROVE  RetireInv'
  <2> DEFINE j == slots'[awaited']
  <2>1. j = [by |-> batch, op |-> op, arg |-> arg, status |-> "queued", found |-> {}]
    BY <1>2, Parts DEF JobInv
  <2>2. j.op = op /\ j.arg = arg /\ j.found = {}
    BY <2>1
  <2> HIDE DEF j
  <2>3. \A ids : AreExpired(ids)' <=> AreExpired(ids)
    BY DEF AreExpired
  <2>4. issue' = issue /\ expiring' = expiring /\ AreExpired({})
    BY <1>2 DEF retain, AreExpired
  <2> QED BY <1>2, <2>2, <2>3, <2>4 DEF RetireInv, AreExpired, j
<1> QED BY <1>1, <1>2 DEF Submit

\* The job of an issue archives what has expired, or lists it.
LEMMA RetireRuns ==
  ASSUME DrainInv, OneReplayed, RetireInv, NEW k \in Slots, RunJob(k)
  PROVE  RetireInv'
<1> DEFINE j == slots[k]
<1>1. UNCHANGED <<issue, expiring, expired, pc, awaited, targets>>
  BY DEF RunJob, retain, outside
<1> SUFFICES ASSUME issue # NoDate PROVE RetireInv'
  BY <1>1 DEF RetireInv
<1>2. JobInv /\ SoleInv /\ StoreTypes
  BY Parts DEF OneReplayed, OlderFirst
<1>3. k = awaited /\ pc = "wait" /\ pc \in Asking /\ j \in Jobs
  BY <1>2 DEF JobInv, SoleInv, RunJob, Slots, Asking
<1>4. AreExpired(targets) /\ issue \in expired /\ expiring \subseteq expired
  BY <1>3 DEF RetireInv
<1>5. PICK status, found :
        /\ slots' = [slots EXCEPT ![k].status = status, ![k].found = found]
        /\ \/ j.op = "list" /\ j.arg = issue /\ found \in {{}, Issue(store, issue)} /\ store' = store
           \/ /\ j.op = "archive" /\ AreExpired({j.arg}) /\ found = {}
              /\ store' = store \/ store' = Archived(store, {j.arg})
  <2>1. CASE j.op = "list" /\ j.arg = issue
    BY <1>3, <2>1 DEF RunJob
  <2>2. CASE j.op = "archive" /\ AreExpired({j.arg})
    BY <1>3, <2>2 DEF RunJob
  <2> QED BY <1>3, <2>1, <2>2 DEF RetireInv
<1>6. slots'[k].op = j.op /\ slots'[k].arg = j.arg /\ slots'[k].found = found
  <2>1. slots' = [slots EXCEPT ![k] = [j EXCEPT !.status = status, !.found = found]]
    BY <1>5
  <2>2. slots'[k] = [j EXCEPT !.status = status, !.found = found]
    BY <1>2, <2>1 DEF JobInv
  <2> QED BY <1>3, <2>2 DEF Jobs
<1>7. ASSUME NEW ids, AreExpired(ids)
      PROVE  \A i \in ids \cap Live(store') : store'[i].date \in expired'
  <2>1. \A i \in Live(store') : i \in Live(store) /\ store'[i].date = store[i].date
    <3>1. CASE store' = store
      BY <3>1
    <3>2. CASE store' = Archived(store, {j.arg})
      <4>1. \A i \in Ids : store'[i] = IF i = j.arg THEN Arch(store[i]) ELSE store[i]
        BY <1>2, <3>2, ArchivesEach DEF StoreTypes
      <4>2. \A i \in Ids : store[i] \in Entries \cup {Absent}
        BY <1>2 DEF StoreTypes, Stores
      <4>3. \A i \in Ids : /\ Arch(store[i]) = Absent <=> store[i] = Absent
                           /\ store[i] # Absent => Arch(store[i]).life = "archived"
        BY <4>2, ArchIs
      <4> QED BY <4>1, <4>3 DEF Live, Stored
    <3> QED BY <1>5, <3>1, <3>2
  <2> QED BY <1>1, <1>7, <2>1 DEF AreExpired
<1>8. AreExpired(Issue(store, issue)) /\ AreExpired({})
  BY <1>4 DEF AreExpired, Issue
<1>9. /\ \A i \in targets' \cap Live(store') : store'[i].date \in expired'
      /\ \A i \in slots'[k].found \cap Live(store') : store'[i].date \in expired'
      /\ j.op = "archive" => \A i \in {slots'[k].arg} \cap Live(store') : store'[i].date \in expired'
  <2>1. AreExpired(found)
    BY <1>5, <1>8
  <2> QED BY <1>1, <1>4, <1>5, <1>6, <1>7, <2>1
<1> HIDE DEF j
<1>10. (slots'[k].op = "list" /\ slots'[k].arg = issue)
       \/ (slots'[k].op = "archive" /\ slots'[k].found = {} /\ j.op = "archive")
  BY <1>5, <1>6
<1> QED BY <1>1, <1>3, <1>4, <1>9, <1>10 DEF RetireInv, AreExpired

\* No step puts what has not expired in the hands of retention.
LEMMA RetireStep ==
  ASSUME DrainInv, OneReplayed, RetireInv, [Next]_vars
  PROVE  RetireInv'
<1>0. PlaceInv /\ JobInv /\ DateTypes
  BY Parts
<1>1. CASE LoadLedger \/ StartPass \/ Load \/ Quarantine \/ Begin \/ SaveLedger \/ Refuse
  <2>1. UNCHANGED <<issue, expiring, expired>> /\ issue = NoDate
    BY <1>0, <1>1 DEF LoadLedger, StartPass, Load, Quarantine, Begin, SaveLedger, Refuse,
       retain, outside, PlaceInv, Asking
  <2> QED BY <2>1, RetireQuiet
<1>2. CASE OutOfBudget \/ Tidy \/ Crash
  <2>1. issue' = NoDate /\ expiring' = {} /\ expired' = expired
    BY <1>2 DEF OutOfBudget, Tidy, Crash, EndPass, outside
  <2> QED BY <2>1, RetireQuiet
<1>3. CASE (\E s \in Shapes : Enqueue(s)) \/ BackoffEnds \/ RetentionDue
             \/ (\E d \in Dates : Expire(d)) \/ UNCHANGED vars
  <2>1. UNCHANGED <<issue, expiring, pc, targets, awaited, slots, store>> /\ expired \subseteq expired'
    BY <1>3 DEF Enqueue, BackoffEnds, RetentionDue, Expire, vars, retain, job, outside
  <2> QED BY <2>1, RetireStays
<1>4. CASE Receipt \/ RemoveFile
  <2>1. expired' = expired /\ issue = NoDate
    BY <1>0, <1>4 DEF Receipt, RemoveFile, PlaceInv, Asking, outside
  <2>2. CASE UNCHANGED retain
    BY <2>1, <2>2, RetireQuiet DEF retain
  <2>3. CASE Stall
    BY <2>1, <2>3, RetireQuiet DEF Stall, EndPass
  <2> QED BY <1>4, <2>2, <2>3 DEF Receipt, RemoveFile
<1>5. CASE Retention
  <2>1. UNCHANGED <<issue, expired>> /\ issue = NoDate /\ expiring' \subseteq expiring \cup expired
    BY <1>0, <1>5 DEF Retention, PlaceInv, Asking, outside
  <2> QED BY <2>1, RetireQuiet
<1>6. CASE ArchiveIssue
  <2>1. expiring # {} /\ expiring \subseteq Nat
    BY <1>0, <1>6, DrainAssumption DEF ArchiveIssue, DateTypes
  <2>2. issue' \in expiring
    BY <1>6, <2>1, LeastIs DEF ArchiveIssue
  <2> QED BY <1>6, <2>2, RetireTakes DEF ArchiveIssue, RetireInv, outside, Asking
<1>7. CASE Apply
  <2>1. issue = NoDate
    BY <1>7, ApplySubmits
  <2> QED BY <1>7, <2>1, ApplySubmits, RetireSubmits DEF Apply, outside
<1>8. CASE ArchiveSource
  <2>1. AreExpired({}) /\ UNCHANGED <<store, expired>> /\ Submit("list", issue, {})
    BY <1>8 DEF AreExpired, ArchiveSource, outside
  <2> QED BY <2>1, RetireSubmits
<1>9. CASE Archive
  <2>1. UNCHANGED <<store, expired>> /\ (issue # NoDate => AreExpired(targets)) /\ pc = "archive"
    BY <1>9 DEF Archive, RetireInv, Asking, outside
  <2>2. ASSUME NEW i \in targets, Submit("archive", i, targets \ {i}) PROVE RetireInv'
    <3>1. AreExpired(targets) => AreExpired(targets \ {i}) /\ AreExpired({i})
      BY DEF AreExpired
    <3> QED BY <2>1, <2>2, <3>1, RetireSubmits
  <2>3. CASE Fails
    BY <2>1, <2>3, RetireFails
  <2>4. CASE Succeeds
    <3>1. issue' = NoDate /\ expiring' \subseteq expiring
      BY <2>4 DEF Succeeds, retain
    <3> QED BY <2>1, <3>1, RetireQuiet
  <2> QED BY <1>9, <2>2, <2>3, <2>4 DEF Archive
<1>10. CASE Answered
  <2>1. UNCHANGED <<store, expired>> /\ pc = "wait"
    BY <1>10 DEF Answered, outside
  <2>2. CASE Fails
    BY <2>1, <2>2, RetireFails
  <2>3. CASE Succeeds
    <3>1. issue' = NoDate /\ expiring' \subseteq expiring
      BY <2>3 DEF Succeeds, retain
    <3> QED BY <2>1, <3>1, RetireQuiet
  <2>4. CASE pc' = "archive" /\ targets' = targets \cup slots[awaited].found /\ UNCHANGED retain
    <3>1. issue # NoDate => AreExpired(targets) /\ AreExpired(slots[awaited].found)
      BY <2>1 DEF RetireInv, AreExpired, Asking
    <3>2. issue # NoDate => AreExpired(targets)'
      BY <2>1, <2>4, <3>1 DEF AreExpired
    <3> QED BY <2>1, <2>4, <3>2 DEF RetireInv, retain
  <2> QED BY <1>10, <2>2, <2>3, <2>4 DEF Answered
<1>11. CASE Deferred
  BY <1>11 DEF Deferred, Fault, OneReplayed, OlderFirst, JobsInTime
<1> QED BY <1>1, <1>2, <1>3, <1>4, <1>5, <1>6, <1>7, <1>8, <1>9, <1>10, <1>11, RetireRuns
        DEF Next, DrainStep

\* A batch whose verdict is written has been applied to its end.
EndInv == pc = "remove" => AtEnd

\* No step comes to the removal of a batch file otherwise.
LEMMA EndStep ==
  ASSUME DrainInv, EndInv, [Next]_vars
  PROVE  EndInv'
<1> SUFFICES ASSUME pc' = "remove" PROVE AtEnd'
  BY DEF EndInv
<1>0. BatchTypes /\ PlaceInv
  BY Parts
<1>1. Fails => pc' \in {"idle", "tidy"}
  BY DEF Fails, Stall, EndPass
<1>2. ~Apply /\ ~ArchiveSource
  BY <1>1, ApplySubmits DEF Submit, ArchiveSource
<1>3. \/ Receipt /\ UNCHANGED <<batch, cursor, content>> /\ AtEnd
      \/ pc = "remove" /\ UNCHANGED <<batch, cursor, content>>
      \/ pc = "remove" /\ UNCHANGED <<batch, cursor>> /\ \E s \in Shapes : content' = Append(content, s)
  <2>1. CASE DrainStep
    <3>1. Receipt
      BY <1>1, <1>2, <2>1 DEF DrainStep, LoadLedger, StartPass, OutOfBudget, EndPass, Load, Quarantine,
         Begin, SaveLedger, Refuse, Archive, Submit, Answered, Succeeds, Deferred, RemoveFile, Stall,
         Retention, ArchiveIssue, Tidy
    <3> QED BY <3>1 DEF Receipt, Stall, EndPass, inHand, kept
  <2>2. CASE (\E k \in Slots : RunJob(k)) \/ BackoffEnds \/ RetentionDue \/ (\E d \in Dates : Expire(d))
               \/ UNCHANGED vars
    BY <2>2 DEF RunJob, BackoffEnds, RetentionDue, Expire, vars, inHand, kept, disk
  <2>3. CASE \E s \in Shapes : Enqueue(s)
    BY <2>3 DEF Enqueue, inHand, kept
  <2>4. ~Crash
    BY DEF Crash, EndPass
  <2> QED BY <2>1, <2>2, <2>3, <2>4 DEF Next
<1>4. ASSUME pc = "remove", NEW s \in Shapes, content' = Append(content, s)
      PROVE  content'[batch] = content[batch]
  <2>1. batch \in 1..Len(content) /\ content \in Seq(Shapes)
    BY <1>0, <1>4, BatchFacts DEF BatchTypes, PlaceInv, Applying, Positions
  <2> QED BY <1>4, <2>1, AppendProperties
<1> QED BY <1>3, <1>4 DEF EndInv, AtEnd

\* What the steps of the drain are to whoever enqueues.
BatchesStep == [Batches!Next]_(Batches!vars)

\* A step of the drain's own shows nothing, or that a file can be read again.
LEMMA ShowsNothing ==
  ASSUME UNCHANGED <<content, inbox, expired>>, Whole' = Whole, Unread' \in {0, Unread}
  PROVE  BatchesStep
<1>1. CASE Unread' = Unread
  BY <1>1 DEF BatchesStep, Batches!vars
<1>2. CASE Unread' = 0
  BY <1>2 DEF BatchesStep, Batches!Next, Batches!Find
<1> QED BY <1>1, <1>2

\* Nothing that leaves the store, the inbox and its files alone shows.
LEMMA ShowsLess ==
  ASSUME UNCHANGED <<content, inbox, expired, store, base, begun>>,
         pc' \in {"unreadable", "quarantined"} =>
           pc \in {"unreadable", "quarantined"} /\ batch' = batch
  PROVE  BatchesStep
<1>1. Whole' = Whole /\ Unread' \in {0, Unread}
  BY DEF Whole, Unread
<1> QED BY <1>1, ShowsNothing

\* The batch a pass takes first is the oldest.
LEMMA OldestIs ==
  ASSUME DrainInv, OneReplayed, pc # "idle", NEW b \in inbox, Readable(b),
         b = batch \/ (pc = "scan" /\ b \in todo /\ \A x \in todo : b <= x)
  PROVE  Batches!Oldest(b)
<1>0. PlaceInv /\ OrderInv /\ BatchTypes /\ inbox \subseteq Nat /\ batch \in Nat /\ todo \subseteq inbox
  BY Parts, Numbers DEF OneReplayed, PlaceInv
<1>1. ASSUME NEW o \in inbox, Readable(o) PROVE b <= o
  <2>1. o \in todo \/ (o = batch /\ pc # "scan") \/ (\A x \in todo \cup {batch} : x < o)
    BY <1>0, <1>1 DEF OrderInv
  <2>2. \A x \in todo : batch < x
    BY <1>0 DEF PlaceInv
  <2> QED BY <1>0, <2>1, <2>2
<1> QED BY <1>1 DEF Batches!Oldest, Batches!IsBatch, Readable

\* A file is read, or cannot be.
LEMMA LoadShows ==
  ASSUME DrainInv, OneReplayed, Load
  PROVE  BatchesStep
<1>1. /\ UNCHANGED <<content, inbox, expired, store, base, begun>> /\ pc = "scan" /\ todo # {}
      /\ batch' = Least(todo) /\ pc' \in {"unreadable", "begin"}
  BY DEF Load, disk, outside, origin
<1>2. Whole' = Whole /\ Unread = 0
  BY <1>1 DEF Whole, Unread
<1>3. batch' \in todo /\ batch' \in inbox /\ \A x \in todo : batch' <= x
  <2>1. todo \subseteq inbox /\ todo \subseteq Nat
    BY Parts, Numbers DEF PlaceInv
  <2> QED BY <1>1, <2>1, LeastIs
<1>4. CASE pc' = "unreadable" /\ content[batch'].kind # "malformed"
  <2>1. Unread' = batch'
    BY <1>1, <1>4 DEF Unread
  <2>2. Batches!Oldest(batch')
    BY <1>1, <1>3, <1>4, OldestIs DEF Readable
  <2>3. Batches!Lose(batch')
    BY <1>1, <1>2, <2>1, <2>2 DEF Batches!Lose
  <2> QED BY <1>3, <2>3 DEF BatchesStep, Batches!Next
<1>5. CASE ~(pc' = "unreadable" /\ content[batch'].kind # "malformed")
  <2>1. Unread' = 0
    BY <1>1, <1>5 DEF Unread
  <2> QED BY <1>1, <1>2, <2>1, ShowsNothing
<1> QED BY <1>4, <1>5

\* A file is set aside: it is no batch, or it cannot be read.
LEMMA QuarantineShows ==
  ASSUME DrainInv, OneReplayed, HandInv, ConvInv, TextsStay, Quarantine
  PROVE  BatchesStep
<1>0. /\ PlaceInv /\ BatchTypes /\ StoreTypes /\ inbox \subseteq Positions /\ 0 \notin inbox
      /\ inbox \subseteq Nat
  BY Parts, Numbers
<1>1. /\ UNCHANGED <<content, expired, store, base, begun, batch>>
      /\ pc \in {"unreadable", "quarantined"} /\ batch \in inbox
  BY <1>0 DEF Quarantine, inHand, outside, origin, PlaceInv, Failing
<1>2. CASE UNCHANGED inbox
  BY <1>1, <1>2, ShowsLess
<1>3. CASE inbox' = inbox \ {batch} /\ pc' = "scan"
  <2>1. Unread' = 0
    BY <1>3 DEF Unread
  <2>2. CASE ~Readable(batch)
    <3>1. begun # batch /\ Unread = 0
      BY <1>0, <1>1, <2>2 DEF HandInv, Readable, Unread
    <3>2. Whole' = Whole
      BY <1>1, <1>3, <3>1 DEF Whole
    <3>3. Batches!Discard(batch)
      BY <1>1, <1>3, <2>1, <2>2, <3>1, <3>2 DEF Batches!Discard, Batches!IsBatch, Readable
    <3> QED BY <1>1, <3>3 DEF BatchesStep, Batches!Next
  <2>3. CASE Readable(batch)
    <3>1. Unread = batch /\ Batches!Oldest(batch)
      BY <1>1, <2>3, OldestIs DEF Unread, Readable
    <3>2. Batches!HalfApplied(Whole', Whole, content[batch].records, batch)
      <4>1. CASE batch = begun
        <5>1. Whole = base /\ Whole' = store /\ begun # 0
          BY <1>0, <1>1, <1>3, <4>1 DEF Whole
        <5>2. KeepsTexts(base, Recs) /\ Near(store, base, Recs, begun, At)
          BY <1>1, <4>1, <5>1 DEF TextsStay, ConvInv, Recs
        <5>3. Uniform(Recs) /\ begun \in Nat /\ At \in Nat /\ base \in Stores
          BY <1>1, <4>1, InHand
        <5>4. Batches!HalfApplied(store, base, Recs, begun)
          BY <5>2, <5>3, HalfIs
        <5> QED BY <4>1, <5>1, <5>4 DEF Recs
      <4>2. CASE batch # begun
        <5>1. Whole' = Whole
          BY <1>1, <1>3, <4>2 DEF Whole
        <5> QED BY <5>1 DEF Batches!HalfApplied
      <4> QED BY <4>1, <4>2
    <3>3. Batches!GiveUp(batch)
      BY <1>1, <1>3, <2>1, <3>1, <3>2 DEF Batches!GiveUp
    <3> QED BY <1>1, <3>3 DEF BatchesStep, Batches!Next
  <2> QED BY <2>2, <2>3
<1> QED BY <1>2, <1>3 DEF Quarantine

\* A batch is begun: the store it finds is the one that shows, and goes on showing.
LEMMA BeginShows ==
  ASSUME DrainInv, OneReplayed, HandInv, Begin
  PROVE  BatchesStep
<1>1. /\ UNCHANGED <<content, inbox, expired, store, batch>> /\ pc' \in {"apply", "save"}
      /\ IF batch > begun THEN begun' = batch /\ base' = store ELSE UNCHANGED <<begun, base>>
  BY DEF Begin, disk, inHand, outside, origin
<1>2. batch \in inbox /\ (batch = begun \/ batch > begun) /\ HandInv'
  BY HandBegins
<1>3. begun \in Nat /\ batch \in Nat /\ Readable(batch)
  BY Parts, Numbers DEF BatchTypes, PlaceInv, Applying, Begin
<1>4. Whole' = Whole
  <2>1. CASE batch = begun
    BY <1>1, <1>3, <2>1 DEF Whole
  <2>2. CASE batch > begun
    <3>1. begun \notin inbox
      <4>1. begun' = batch /\ \A x \in inbox : Readable(x) => batch <= x
        BY <1>1, <1>2, <1>3, <2>2 DEF HandInv, Readable
      <4>2. begun = 0 \/ Readable(begun)
        BY DEF HandInv
      <4>3. 0 \notin inbox
        BY Parts, Numbers
      <4> QED BY <1>3, <2>2, <4>1, <4>2, <4>3
    <3> QED BY <1>1, <1>2, <1>3, <2>2, <3>1 DEF Whole
  <2> QED BY <1>2, <2>1, <2>2
<1>5. Unread' = 0
  BY <1>1 DEF Unread
<1> QED BY <1>1, <1>4, <1>5, ShowsNothing

\* A job of the batch in hand does not show; one of an issue takes an expired item.
LEMMA RunShows ==
  ASSUME DrainInv, OneReplayed, HandInv, RetireInv, NEW k \in Slots, RunJob(k)
  PROVE  BatchesStep
<1> DEFINE j == slots[k]
<1>1. UNCHANGED <<content, inbox, expired, base, begun, pc, batch>>
  BY DEF RunJob, disk, inHand, outside, origin
<1>2. Unread' = Unread
  BY <1>1 DEF Unread
<1>3. CASE begun \in inbox
  <2>1. Whole' = Whole
    BY <1>1, <1>3 DEF Whole
  <2> QED BY <1>1, <1>2, <2>1, ShowsNothing
<1>4. CASE begun \notin inbox
  <2>0. JobInv /\ SoleInv /\ PlaceInv /\ StoreTypes
    BY Parts DEF OneReplayed, OlderFirst
  <2>1. k = awaited /\ pc = "wait" /\ pc \in Asking /\ j \in Jobs
    BY <2>0 DEF JobInv, SoleInv, RunJob, Slots, Asking
  <2>2. issue # NoDate
    BY <1>4, <2>0, <2>1 DEF HandInv, Working, PlaceInv, Applying
  <2>3. j.op = "list" \/ (j.op = "archive" /\ AreExpired({j.arg}))
    BY <2>1, <2>2 DEF RetireInv
  <2>4. store' = store \/ (j.op = "archive" /\ store' = Archived(store, {j.arg}))
    BY <2>1, <2>3 DEF RunJob
  <2>5. Whole = store /\ Whole' = store'
    BY <1>1, <1>4 DEF Whole
  <2>6. CASE store' = store
    BY <1>1, <1>2, <2>5, <2>6, ShowsNothing
  <2>7. CASE j.op = "archive" /\ store' = Archived(store, {j.arg})
    <3>1. CASE j.arg \in Live(store)
      <4>1. j.arg \in Ids /\ store[j.arg].date \in expired
        BY <2>1, <2>3, <2>7, <3>1 DEF AreExpired, Live, Stored
      <4>2. Batches!Retire(j.arg)
        BY <1>1, <1>2, <2>5, <2>7, <3>1, <4>1, SameStores DEF Batches!Retire
      <4> QED BY <4>1, <4>2 DEF BatchesStep, Batches!Next
    <3>2. CASE j.arg \notin Live(store)
      <4>1. store' = store
        BY <2>0, <2>7, <3>2 DEF Archived, StoreTypes, Stores
      <4> QED BY <2>6, <4>1
    <3> QED BY <3>1, <3>2
  <2> QED BY <2>4, <2>6, <2>7
<1> QED BY <1>3, <1>4

\* The file of the batch in hand is removed: now all of it shows.
LEMMA RemoveShows ==
  ASSUME DrainInv, HandInv, ConvInv, EndInv, TextsStay, RemoveFile
  PROVE  BatchesStep
<1>0. /\ UNCHANGED <<content, expired, store, base, begun>> /\ pc = "remove" /\ batch = begun
      /\ batch \in inbox /\ Readable(batch) /\ batch # 0
  BY Parts, Numbers DEF RemoveFile, outside, origin, HandInv, Working, PlaceInv, Applying
<1>1. CASE UNCHANGED inbox /\ Stall
  <2>1. pc' = "idle"
    BY <1>1 DEF Stall, EndPass
  <2> QED BY <1>0, <1>1, <2>1, ShowsLess
<1>2. CASE inbox' = inbox \ {batch} /\ pc' = "scan"
  <2>1. Unread = 0 /\ Unread' = 0 /\ Whole = base /\ Whole' = store
    BY <1>0, <1>2 DEF Unread, Whole
  <2>2. /\ At = Len(Recs) /\ Uniform(Recs) /\ begun \in Nat /\ base \in Stores /\ store \in Stores
        /\ KeepsTexts(base, Recs)
    BY <1>0, InHand DEF EndInv, AtEnd, Recs, At, TextsStay
  <2>3. store = Replayed(base, Recs, begun)
    <3>1. Near(store, base, Recs, begun, Len(Recs))
      BY <1>0, <2>2 DEF ConvInv
    <3> QED BY <2>2, <3>1, NearEnd, ReplayedIs
  <2>4. Batches!Oldest(batch)
    BY <1>0 DEF HandInv, Readable, Batches!Oldest, Batches!IsBatch
  <2>5. store = Batches!Replayed(base, content[batch].records, batch)
    BY <1>0, <2>3, SameStores DEF Recs
  <2>6. Batches!Apply(batch)
    BY <1>0, <1>2, <2>1, <2>4, <2>5 DEF Batches!Apply
  <2> QED BY <1>0, <2>6 DEF BatchesStep, Batches!Next
<1> QED BY <1>1, <1>2 DEF RemoveFile

\* A batch arrives.
LEMMA EnqueueShows ==
  ASSUME DrainInv, NEW s \in Shapes, Enqueue(s)
  PROVE  BatchesStep
<1> DEFINE n == Len(content) + 1
<1>1. /\ content' = Append(content, s) /\ inbox' = inbox \cup {n}
      /\ UNCHANGED <<store, base, begun, expired, pc, batch>>
  BY DEF Enqueue, inHand, outside, origin
<1>2. /\ Len(content) \in Nat /\ content \in Seq(Shapes) /\ begun \in 0..Len(content)
      /\ pc \in {"unreadable", "quarantined"} => batch \in 1..Len(content)
  BY Parts, BatchFacts DEF BatchTypes, PlaceInv, Failing, Positions
<1>3. begun # n /\ (pc \in {"unreadable", "quarantined"} => content'[batch] = content[batch])
  BY <1>1, <1>2, AppendProperties
<1>4. Whole' = Whole /\ Unread' = Unread
  BY <1>1, <1>3 DEF Whole, Unread
<1>5. Batches!Arrive(s)
  BY <1>1, <1>4 DEF Batches!Arrive
<1> QED BY <1>5 DEF BatchesStep, Batches!Next

\* Every step of the drain is one of the promise, or shows nothing.
LEMMA DrainShows ==
  ASSUME DrainInv, OneReplayed, HandInv, ConvInv, RetireInv, EndInv, TextsStay, [Next]_vars
  PROVE  BatchesStep
<1>1. CASE LoadLedger \/ StartPass \/ OutOfBudget \/ SaveLedger \/ Refuse \/ Retention \/ ArchiveIssue
             \/ Tidy \/ BackoffEnds \/ RetentionDue \/ Crash
  <2>1. UNCHANGED <<content, inbox, expired, store, base, begun>>
    BY <1>1 DEF LoadLedger, StartPass, OutOfBudget, SaveLedger, Refuse, Retention, ArchiveIssue, Tidy,
       BackoffEnds, RetentionDue, Crash, disk, outside, origin
  <2>2. pc' \in {"unreadable", "quarantined"} =>
          pc \in {"unreadable", "quarantined"} /\ batch' = batch
    BY <1>1 DEF LoadLedger, StartPass, OutOfBudget, SaveLedger, Refuse, Retention, ArchiveIssue, Tidy,
       BackoffEnds, RetentionDue, Crash, EndPass, inHand
  <2> QED BY <2>1, <2>2, ShowsLess
<1>2. CASE Apply \/ Archive \/ Answered \/ ArchiveSource \/ Deferred \/ Receipt
  <2>1. UNCHANGED <<content, inbox, expired, store, base, begun>>
    BY <1>2, ApplySubmits DEF Apply, Archive, Answered, ArchiveSource, Deferred, Receipt, disk, outside,
       origin
  <2>2. pc' \notin {"unreadable", "quarantined"}
    <3>1. Fails \/ Stall \/ Succeeds => pc' \notin {"unreadable", "quarantined"}
      BY DEF Fails, Stall, EndPass, Succeeds
    <3> QED BY <1>2, <3>1, ApplySubmits DEF Archive, Answered, ArchiveSource, Deferred, Receipt, Submit
  <2> QED BY <2>1, <2>2, ShowsLess
<1>3. ASSUME NEW d \in Dates, Expire(d) PROVE BatchesStep
  <2>1. expired' = expired \cup {d} /\ UNCHANGED <<content, inbox, store, base, begun, pc, batch>>
    BY <1>3 DEF Expire, disk, inHand, origin
  <2>2. Whole' = Whole /\ Unread' = Unread
    BY <2>1 DEF Whole, Unread
  <2>3. Batches!Expire(d)
    BY <2>1, <2>2 DEF Batches!Expire
  <2> QED BY <2>3 DEF BatchesStep, Batches!Next
<1>4. CASE UNCHANGED vars
  <2>1. UNCHANGED <<content, inbox, expired, store, base, begun, pc, batch>>
    BY <1>4 DEF vars, disk, inHand, outside, origin
  <2> QED BY <2>1, ShowsLess
<1> QED BY <1>1, <1>2, <1>3, <1>4, LoadShows, QuarantineShows, BeginShows, RunShows, RemoveShows,
           EnqueueShows DEF Next, DrainStep

\* At first nothing has arrived.
LEMMA ShowsInit ==
  ASSUME Init
  PROVE  Batches!Init /\ RetireInv /\ EndInv
<1>1. inbox = {} /\ begun = 0 /\ content = <<>> /\ expired = {} /\ store = [i \in Ids |-> Absent]
      /\ pc = "idle" /\ issue = NoDate /\ expiring = {}
  BY DEF Init
<1> QED BY <1>1 DEF Batches!Init, Whole, Unread, RetireInv, EndInv

\* As long as jobs keep their deadline, listings are complete and a file that cannot be read
\* can at least be moved: for batches that move no text, the drain is a line of batches each
\* of which is applied once, whole, the oldest first, whatever died or failed in between
\* (drain: order is the contract; a batch re-applied converges).
THEOREM BatchesAreAtomic ==
  ASSUME "slow" \notin Faults, "list" \notin Faults, "read" \notin Faults \/ "write" \notin Faults
  PROVE  Spec /\ []TextsStay => AppliesAtomically
<1>1. OneReplayed
  BY DEF OneReplayed, OlderFirst, JobsInTime
<1>2. Init => HandInv /\ ConvInv /\ RetireInv /\ EndInv /\ Batches!Init
  BY ConvInit, ShowsInit
<1>3. DrainInv /\ DrainInv' /\ HandInv /\ ConvInv /\ RetireInv /\ EndInv /\ [Next]_vars
        => HandInv' /\ ConvInv' /\ RetireInv' /\ EndInv'
  BY <1>1, HandStep, ConvStep, RetireStep, EndStep
<1>4. DrainInv /\ HandInv /\ ConvInv /\ RetireInv /\ EndInv /\ TextsStay /\ [Next]_vars
        => [Batches!Next]_(Batches!vars)
  BY <1>1, DrainShows DEF BatchesStep
<1> QED BY <1>2, <1>3, <1>4, AlwaysDrainInv, PTL DEF Spec, AppliesAtomically, Batches!Spec
=============================================================================
