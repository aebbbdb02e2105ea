------------------------------ MODULE TodoMarks ------------------------------
(***************************************************************************)
(* Marks on the library's to-dos: daemon.todos keeps what the operator (on *)
(* the page) or the agent (by a tool) marked, in memory and in a file;     *)
(* daemon.app tells the library's keeper of each mark over the bus, which  *)
(* loses events, and at each check reads the lines again, settles the      *)
(* marks the library agrees with and re-sends the others.  The daemon may  *)
(* die anywhere and the file may not be writable.                          *)
(*                                                                         *)
(* A time is a stamp; two events in one second carry one stamp.  Each line *)
(* is a library item of its own.                                           *)
(***************************************************************************)
EXTENDS Naturals, Sequences, FiniteSets

CONSTANTS
  Todos, Markers,       \* ids; the threads that mark
  NoMark,
  MaxStamps,            \* bound: marks and foreign flips
  MaxWire,              \* bound: events on their way
  MaxDeaths,            \* bound
  SaveFails             \* may writing the file fail

ASSUME TodoAssumption ==
  /\ {MaxStamps, MaxWire, MaxDeaths} \subseteq Nat /\ SaveFails \in BOOLEAN
  /\ NoMark \notin [done : BOOLEAN, at : Nat, expired : BOOLEAN]

VARIABLES
  line,         \* the library: a line [done, at] per to-do; at = 0: no done_at; or NoMark: gone
  held,         \* the lines the source read last
  missing,      \* to-dos whose item could not be read and never was
  mark,         \* TodoStates._states: [done, at, expired], or NoMark
  file,         \* what is on disk
  telling,      \* per marker: the event it has still to publish, or NoMark
  check,        \* the library worker: "idle", "read", or "resend"
  due,          \* marks it has still to re-send
  wire,         \* events on their way to the library's keeper
  stamp,        \* the clock
  hour,         \* stamps up to this are an hour old
  deaths

todoVars == <<line, held, missing, mark, file, telling, check, due, wire, stamp, hour, deaths>>

Line(d, a) == [done |-> d, at |-> a]
Pending(m) == m # NoMark /\ ~m.expired
\* _flipped_since
FlippedSince(l, m) == l.at >= m.at

TodoInit ==
  /\ line = [t \in Todos |-> Line(FALSE, 0)] /\ held = [t \in Todos |-> NoMark] /\ missing = {}
  /\ mark = [t \in Todos |-> NoMark] /\ file = mark
  /\ telling = [m \in Markers |-> NoMark]
  /\ check = "idle" /\ due = {} /\ wire = <<>>
  /\ stamp = 0 /\ hour = 0 /\ deaths = 0

\* _save: the file becomes what memory now holds, or stays what it was.
SaveMarks(states) == file' = states
SaveOrNot(states) == \/ SaveMarks(states)
                     \/ SaveFails /\ UNCHANGED file

(***************************************************************************)
(* Marking: _set_todo, TodoStates.set, _publish_todo.                      *)
(***************************************************************************)

\* Mutant: a mark that could not be saved stays in memory.
BadMark(w, t, d) ==
  /\ telling[w] = NoMark /\ stamp < MaxStamps /\ held[t] # NoMark
  /\ stamp' = stamp + 1
  /\ LET new == [mark EXCEPT ![t] = [done |-> d, at |-> stamp', expired |-> FALSE]] IN
       /\ mark' = new
       /\ \/ /\ SaveMarks(new)
             /\ telling' = [telling EXCEPT ![w] = [id |-> t, done |-> d, at |-> stamp']]
          \/ SaveFails /\ UNCHANGED <<file, telling>>
  /\ UNCHANGED <<line, held, missing, check, due, wire, hour, deaths>>

\* The line is one the page shows; the mark is saved and then told, or undone.
Mark(w, t, d) ==
  /\ telling[w] = NoMark /\ stamp < MaxStamps /\ held[t] # NoMark
  /\ stamp' = stamp + 1
  /\ LET new == [mark EXCEPT ![t] = [done |-> d, at |-> stamp', expired |-> FALSE]] IN
       \/ /\ SaveMarks(new) /\ mark' = new
          /\ telling' = [telling EXCEPT ![w] = [id |-> t, done |-> d, at |-> stamp']]
       \/ SaveFails /\ UNCHANGED <<mark, file, telling>>
  /\ UNCHANGED <<line, held, missing, check, due, wire, hour, deaths>>

Tell(w) ==
  /\ telling[w] # NoMark /\ Len(wire) < MaxWire
  /\ wire' = Append(wire, telling[w])
  /\ telling' = [telling EXCEPT ![w] = NoMark]
  /\ UNCHANGED <<line, held, missing, mark, file, check, due, stamp, hour, deaths>>

(***************************************************************************)
(* The check, on the library worker: _todo_check.                          *)
(***************************************************************************)

\* TodoSource.check: each item is read again, or keeps its last good version, or
\* -- gone from the listing -- is dropped.  A listing that
\* fails ends the check.
ReadLines ==
  /\ check = "idle"
  /\ \E unread \in SUBSET {t \in Todos : line[t] # NoMark} :
       /\ held' = [t \in Todos |-> IF t \in unread THEN held[t] ELSE line[t]]
       /\ missing' = {t \in unread : held[t] = NoMark}
  /\ check' = "read"
  /\ UNCHANGED <<line, mark, file, telling, due, wire, stamp, hour, deaths>>

\* _judge
Settled(m, l) == \/ ~m.done /\ ~l.done
                 \/ FlippedSince(l, m)

\* reconcile: settled marks go, old ones expire, the rest are due; then the marks
\* without a line go, if every item was read.  What could not be saved is pruned
\* again at the next check; what was settled is not.
Reconcile ==
  /\ check = "read" /\ check' = "resend"
  /\ LET live == {t \in Todos : held[t] # NoMark /\ Pending(mark[t])}
         settled == {t \in live : Settled(mark[t], held[t])}
         old == {t \in live \ settled : mark[t].at <= hour}
         judged == [t \in Todos |-> CASE t \in settled -> NoMark
                                      [] t \in old -> [mark[t] EXCEPT !.expired = TRUE]
                                      [] OTHER -> mark[t]]
         gone == IF missing = {} THEN {t \in Todos : held[t] = NoMark /\ mark[t] # NoMark} ELSE {}
         pruned == [t \in Todos |-> IF t \in gone THEN NoMark ELSE judged[t]]
         SaveChange == IF judged = mark THEN UNCHANGED file ELSE SaveOrNot(judged)
     IN /\ due' = {[id |-> t, done |-> mark[t].done, at |-> mark[t].at] : t \in live \ (settled \cup old)}
        /\ IF gone # {}
           THEN \/ mark' = pruned /\ SaveMarks(pruned)
                \/ SaveFails /\ mark' = judged /\ SaveChange
           ELSE mark' = judged /\ SaveChange
  /\ UNCHANGED <<line, held, missing, telling, wire, stamp, hour, deaths>>

\* Mutant: a mark is told once.
BadResend(e) ==
  /\ check = "resend" /\ e \in due
  /\ due' = due \ {e}
  /\ UNCHANGED <<line, held, missing, mark, file, telling, check, wire, stamp, hour, deaths>>

\* _resend_due, with what was due then.
Resend(e) ==
  /\ check = "resend" /\ e \in due /\ Len(wire) < MaxWire
  /\ due' = due \ {e}
  /\ wire' = Append(wire, e)
  /\ UNCHANGED <<line, held, missing, mark, file, telling, check, stamp, hour, deaths>>

CheckEnds ==
  /\ check = "resend" /\ due = {}
  /\ check' = "idle"
  /\ UNCHANGED <<line, held, missing, mark, file, telling, due, wire, stamp, hour, deaths>>

(***************************************************************************)
(* Outside: the bus and the library's keeper; the clock; the process.      *)
(***************************************************************************)
Flip ==
  /\ wire # <<>> /\ wire' = Tail(wire)
  /\ LET e == Head(wire) IN
       line' = IF line[e.id] = NoMark THEN line
               ELSE [line EXCEPT ![e.id] = Line(e.done, IF e.done THEN e.at ELSE 0)]
  /\ UNCHANGED <<held, missing, mark, file, telling, check, due, stamp, hour, deaths>>

Lost ==
  /\ wire # <<>> /\ wire' = Tail(wire)
  /\ UNCHANGED <<line, held, missing, mark, file, telling, check, due, stamp, hour, deaths>>

\* Somebody else ticks the line in the library, or the item goes.
ForeignChange(t) ==
  /\ line[t] # NoMark /\ stamp < MaxStamps
  /\ stamp' = stamp + 1
  /\ line' = [line EXCEPT ![t] = IF @.done THEN NoMark ELSE Line(TRUE, stamp')]
  /\ UNCHANGED <<held, missing, mark, file, telling, check, due, wire, hour, deaths>>

HourPasses ==
  /\ hour < stamp /\ hour' = stamp
  /\ UNCHANGED <<line, held, missing, mark, file, telling, check, due, wire, stamp, deaths>>

\* What was acknowledged and not yet told is in the file.
DaemonDies ==
  /\ deaths < MaxDeaths /\ deaths' = deaths + 1
  /\ mark' = file /\ held' = [t \in Todos |-> NoMark] /\ missing' = {}
  /\ telling' = [w \in Markers |-> NoMark] /\ check' = "idle" /\ due' = {}
  /\ UNCHANGED <<line, file, wire, stamp, hour>>

TodoNext ==
  \/ \E w \in Markers : Tell(w) \/ \E t \in Todos, d \in BOOLEAN : Mark(w, t, d)
  \/ ReadLines \/ Reconcile \/ (\E e \in due : Resend(e)) \/ CheckEnds
  \/ Flip \/ Lost \/ (\E t \in Todos : ForeignChange(t)) \/ HourPasses \/ DaemonDies

TodoSpec == TodoInit /\ [][TodoNext]_todoVars

\* The worker checks and re-sends, markers tell; the bus moves, and does not lose
\* every event; an item is not unreadable for ever.
TodoFairness ==
  /\ WF_todoVars(Reconcile) /\ WF_todoVars(\E e \in due : Resend(e)) /\ WF_todoVars(CheckEnds)
  /\ \A w \in Markers : WF_todoVars(Tell(w))
  /\ WF_todoVars(stamp > 0 /\ ReadLines)
  /\ SF_todoVars(stamp > 0 /\ ReadLines /\ held' = line)
  /\ \A t \in Todos : SF_todoVars(Flip /\ Head(wire).id = t)

(***************************************************************************)
(* Properties.                                                             *)
(***************************************************************************)
MarkType == [done : BOOLEAN, at : 1..MaxStamps, expired : BOOLEAN]
EventType == [id : Todos, done : BOOLEAN, at : 1..MaxStamps]

TodoTypeOK ==
  /\ line \in [Todos -> [done : BOOLEAN, at : 0..MaxStamps] \cup {NoMark}]
  /\ held \in [Todos -> [done : BOOLEAN, at : 0..MaxStamps] \cup {NoMark}]
  /\ {mark, file} \subseteq [Todos -> MarkType \cup {NoMark}]
  /\ missing \subseteq Todos /\ telling \in [Markers -> EventType \cup {NoMark}]
  /\ check \in {"idle", "read", "resend"} /\ due \subseteq EventType
  /\ wire \in Seq(EventType) /\ {stamp, hour} \subseteq 0..MaxStamps

\* A death forgets nothing that was acknowledged: a mark the daemon still works on
\* is on disk as it is, whatever was marked, undone, settled, expired and pruned
\* before, and whichever of those saves failed.
MarksOnDisk == \A t \in Todos : Pending(mark[t]) => file[t] = mark[t]

\* Every mark comes to an end while the library's keeper is reached now and then.
MarksSettle == \A t \in Todos : Pending(mark[t]) ~> ~Pending(mark[t])
=============================================================================
