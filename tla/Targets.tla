------------------------------ MODULE Targets ------------------------------
(***************************************************************************)
(* What a command line acts on: `list` shows positions, a command then     *)
(* resolves a position, a job id, a name, or nothing at all against the    *)
(* queue of its own moment (commands/common.rs, sint-core session.rs), and *)
(* acts: cancel.rs, status.rs, attach.rs, and exec, peek, send, panes and  *)
(* monitor, which resolve alike. Sessions start, end and are renamed       *)
(* (popup.rs) at any time.                                                 *)
(***************************************************************************)
EXTENDS Naturals, SequencesExt

CONSTANTS
  JobIds,      \* job ids: numbers, as positions are
  Names, None, \* a name of digits only is the number it reads as
  Inside       \* the session the command runs in, or None

VARIABLES
  queue,       \* squeue's rows, in its order
  shown,       \* what `list` printed: positions, and the id at each
  cmd,         \* the command under way: its verb, target and place
  moved,       \* history: the queue changed since the list
  acted        \* history: the job resolved, and those that the target meant

vars == <<queue, shown, cmd, moved, acted>>

\* comment_for: a session's Comment, with its name if it has one.
comment_for(name) == <<name>>
Comments == {<<>>} \cup {comment_for(n) : n \in Names}

\* A job without such a Comment, None, is no session.
Rows == [id : JobIds, state : {"RUNNING", "PENDING"}, comment : Comments \cup {None}]
Verbs == {"cancel", "refresh", "attach", "send"}
Idle == [verb |-> None, target |-> <<>>, at |-> "idle", job |-> 0]

TypeOK ==
  /\ queue \in Seq(Rows) /\ shown \subseteq Nat \X JobIds /\ moved \in BOOLEAN
  /\ cmd.verb \in Verbs \cup {None} /\ cmd.at \in {"idle", "resolve", "check", "act"}

Init ==
  /\ queue = <<>> /\ shown = {} /\ cmd = Idle /\ moved = TRUE /\ acted = None

----------------------------------------------------------------------------
(* Looking at the queue.                                                   *)

\* Sets of rows, by their places in the queue.
Row(id) == {i \in DOMAIN queue : queue[i].id = id}
sessions == {i \in DOMAIN queue : queue[i].comment # None}
running_sessions == {i \in sessions : queue[i].state = "RUNNING"}
IdsOf(rows) == {queue[i].id : i \in rows}

\* The rows are counted from 1, in the order of the queue.
Position(i, rows) == Cardinality({j \in rows : j <= i})
Printed(rows) == {<<Position(i, rows), queue[i].id>> : i \in rows}

\* (mutant) The list shows what is pending as well.
ListAll ==
  /\ cmd = Idle /\ shown' = Printed(sessions) /\ moved' = FALSE
  /\ UNCHANGED <<queue, cmd, acted>>

List ==
  /\ cmd = Idle /\ shown' = Printed(running_sessions) /\ moved' = FALSE
  /\ UNCHANGED <<queue, cmd, acted>>

\* resolve_index: a position, unless a running session has this very id.
resolve_index(n, rows) ==
  IF n \in IdsOf(rows) \/ n \notin 1..Cardinality(rows) THEN {n}
  ELSE IdsOf({i \in rows : Position(i, rows) = n})

\* (mutant) Of several sessions of a name the first is taken.
FirstNamed(name) ==
  LET found == {i \in sessions : queue[i].comment = comment_for(name)}
  IN  IdsOf({i \in found : \A j \in found : i <= j})

\* resolve_target, of a name: exactly one session has it.
resolve_target(name) ==
  LET found == {i \in sessions : queue[i].comment = comment_for(name)}
  IN  IF Cardinality(found) = 1 THEN IdsOf(found) ELSE {}

\* No target: attach takes the only session that runs and refuses from
\* inside one, the others take the session they are in.
Default(verb) ==
  IF verb # "attach" THEN {Inside} \ {None}
  ELSE IF Cardinality(running_sessions) = 1 THEN IdsOf(running_sessions) ELSE {}

\* Target::parse: whatever reads as a number is one, also where it is the name
\* of a session (validate_name admits digits only).
IsNumber(t) == t \in Nat

Resolved(verb, target) ==
  CASE target = <<>>       -> Default(verb)
    [] target # <<>> /\ IsNumber(target[1])  -> resolve_index(target[1], running_sessions)
    [] target # <<>> /\ ~IsNumber(target[1]) -> resolve_target(target[1])

----------------------------------------------------------------------------
(* A command, cut at each call. A target is <<>> or <<what was typed>>.    *)

Type ==
  /\ cmd = Idle
  /\ \E verb \in Verbs, target \in {<<>>} \cup {<<t>> : t \in (1..2) \cup JobIds \cup Names} :
       /\ verb = "attach" => Inside = None
       /\ verb \in {"cancel", "send"} => target # <<>>
       /\ cmd' = [verb |-> verb, target |-> target, at |-> "resolve", job |-> 0]
  /\ UNCHANGED <<queue, shown, moved, acted>>

\* What is meant by what was typed: by a number the session with that id, or
\* the one shown at that position while the list is as it was; by anything
\* else the one session of that name.
Meant(target) ==
  IF target = <<>> THEN [by |-> "default", ids |-> JobIds]
  ELSE LET t == target[1]
           Bearers == {i \in sessions : queue[i].comment = comment_for(t)}
           Listed == {p \in shown : p[1] = t}
       IN  IF ~IsNumber(t) THEN [by |-> "name", ids |-> IdsOf(Bearers)]
           ELSE IF t \in IdsOf(running_sessions) THEN [by |-> "id", ids |-> {t}]
           ELSE IF ~moved /\ Listed # {} THEN [by |-> "position", ids |-> {p[2] : p \in Listed}]
           ELSE [by |-> "number", ids |-> JobIds \cup {t}]

Resolve ==
  /\ cmd.at = "resolve"
  /\ LET found == Resolved(cmd.verb, cmd.target)
     IN  IF found = {} THEN cmd' = Idle /\ UNCHANGED acted
         ELSE \E id \in found :
                /\ cmd' = [cmd EXCEPT !.at = "check", !.job = id]
                /\ acted' = [id |-> id, meant |-> Meant(cmd.target)]
  /\ UNCHANGED <<queue, shown, moved>>

\* squeue for the one job. cancel describes the job it is about to cancel,
\* status pokes first and reports what it finds, the others require RUNNING.
Check ==
  /\ cmd.at = "check"
  /\ LET runs == \E i \in Row(cmd.job) : queue[i].state = "RUNNING"
     IN  \/ /\ cmd.verb \in {"cancel", "refresh"} \/ runs
            /\ cmd' = [cmd EXCEPT !.at = "act"]
         \/ cmd.verb \notin {"cancel", "refresh"} /\ ~runs /\ cmd' = Idle
         \/ cmd' = Idle                           \* the squeue fails
  /\ UNCHANGED <<queue, shown, moved, acted>>

\* exec of srun, or of the ssh to the batch host: the command is the client now.
Reattach ==
  /\ cmd.at = "act" /\ cmd.verb = "attach" /\ cmd' = Idle /\ acted' = None
  /\ UNCHANGED <<queue, shown, moved>>

\* scancel, or what the others do to the session.
Act ==
  /\ cmd.at = "act" /\ cmd.verb # "attach" /\ cmd' = Idle /\ acted' = None
  /\ IF cmd.verb = "cancel" /\ Row(cmd.job) # {}
     THEN moved' = TRUE /\ \E i \in Row(cmd.job) : queue' = RemoveAt(queue, i)
     ELSE UNCHANGED <<moved, queue>>
  /\ UNCHANGED shown

----------------------------------------------------------------------------
(* The cluster and the user's session.                                     *)

JobArrives ==
  /\ \E r \in Rows, i \in 1..(Len(queue) + 1) :
       Row(r.id) = {} /\ queue' = InsertAt(queue, i, r)
  /\ moved' = TRUE /\ UNCHANGED <<shown, cmd, acted>>

JobChanges ==
  /\ \E i \in 1..Len(queue) :
       \/ queue[i].state = "PENDING" /\ queue' = [queue EXCEPT ![i].state = "RUNNING"]
       \/ queue' = RemoveAt(queue, i)
  /\ moved' = TRUE /\ UNCHANGED <<shown, cmd, acted>>

\* popup's rename: nobody looks whether another session has the name.
rename ==
  /\ \E i \in 1..Len(queue), name \in Names :
       queue[i].state = "RUNNING" /\ queue[i].comment # None
       /\ queue' = [queue EXCEPT ![i].comment = comment_for(name)]
  /\ UNCHANGED <<shown, cmd, moved, acted>>

Next == \/ List \/ Type \/ Resolve \/ Check \/ Act \/ Reattach
        \/ JobArrives \/ JobChanges \/ rename
Spec == Init /\ [][Next]_vars

----------------------------------------------------------------------------
\* list.rs:9-12: as long as no session has come or gone since, a position
\* that is nobody's job id means the session that `list` printed there.
PositionsAreTheListed ==
  acted # None /\ acted.meant.by = "position" => {acted.id} = acted.meant.ids

\* session.rs:173-175 and 133-138: a literal job id of a session wins over a
\* position, and a name that two sessions have means neither. (A session whose
\* name is a number cannot be meant by it: PositionsAreTheListed and the id come
\* first, session.rs:124-131.)
TypedIsMeant ==
  acted # None /\ acted.meant.by \in {"id", "name"} => {acted.id} = acted.meant.ids
=============================================================================
