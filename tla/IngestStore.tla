---------------------------- MODULE IngestStore ----------------------------
(***************************************************************************)
(* The ingest scope of the memory store, and what one job of RoomMemory    *)
(* does to it under one hold of continuity._STORE_LOCK.  The records and   *)
(* their files belong to the eidetic package; only what embodiment relies  *)
(* on is kept: id, text (as its hash), lifecycle, issue date, and which    *)
(* batch last wrote the record (history).                                  *)
(***************************************************************************)
EXTENDS Naturals, SequencesExt

CONSTANTS
  Ids,              \* stored record ids
  Texts,            \* text hashes
  Dates,            \* newspaper issue dates
  NoId, NoText, NoDate, Absent

Entries == [life : {"live", "archived"}, text : Texts,
            date : Dates \cup {NoDate}, by : Nat]

Stores == [Ids -> Entries \cup {Absent}]

\* A record of a batch: an upsert, an archival by id, or one of a whole issue.
Records == [op : {"ingest", "forget", "forgetSource"}, id : Ids \cup {NoId},
            text : Texts \cup {NoText}, date : Dates \cup {NoDate},
            supersedes : Ids \cup {NoId}, valid : BOOLEAN]

Stored(s) == {i \in Ids : s[i] # Absent}
Live(s)   == {i \in Stored(s) : s[i].life = "live"}
Issue(s, d) == {i \in Live(s) : s[i].date = d}

\* _hash_clash: another stored record, archived ones included, of that text.
Clashes(s, r) == {i \in Stored(s) \ {r.id} : s[i].text = r.text}

Upserted(s, r, b) ==
  [s EXCEPT ![r.id] = [life |-> "live", text |-> r.text, date |-> r.date, by |-> b]]

\* archive: an unknown or already archived id changes nothing.
Archived(s, ids) ==
  [i \in Ids |-> IF i \in ids \cap Live(s) THEN [s[i] EXCEPT !.life = "archived"] ELSE s[i]]

\* _ingest_one: a text that another record holds collapses, unless that
\* record is the one superseded, which the backend then replaces; else the
\* superseded record is archived.
Ingested(s, r, b) ==
  IF Clashes(s, r) \ {r.supersedes} # {} THEN s
  ELSE LET w == Upserted(s, r, b)
       IN  IF Clashes(s, r) # {} THEN [w EXCEPT ![r.supersedes] = Absent]
           ELSE Archived(w, {r.supersedes} \ {r.id})

\* The store after one record of batch b was applied in full.
Applied(s, r, b) ==
  IF ~r.valid THEN s
  ELSE IF r.op = "ingest" THEN Ingested(s, r, b)
  ELSE Archived(s, IF r.op = "forget" THEN {r.id} ELSE Issue(s, r.date))

\* What is left when the seam raises half way: nothing, or the upsert alone.
Partial(s, r, b) ==
  {s} \cup (IF r.op = "ingest" /\ Clashes(s, r) = {} THEN {Upserted(s, r, b)} ELSE {})

\* A batch applied once, from its first record to its last.
Replayed(s, recs, b) ==
  LET after[n \in 0..Len(recs)] == IF n = 0 THEN s ELSE Applied(after[n - 1], recs[n], b)
  IN  after[Len(recs)]

\* Two stores a reader cannot tell apart.
Face(s) == [i \in Ids |-> IF s[i] = Absent THEN Absent
                          ELSE <<s[i].life, s[i].text, s[i].date>>]
=============================================================================
