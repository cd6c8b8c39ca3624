----------------------------- MODULE SlurmText -----------------------------
(***************************************************************************)
(* What the Slurm commands print, as it is read (slurm/mod.rs, squeue.rs,  *)
(* sacct.rs, sbatch.rs): a call of one of them while the job it asks about *)
(* comes to its end, the rows of an accounting listing, and the columns of *)
(* a row of which one is free text. A row is the sequence of its pieces    *)
(* between bars; text with k bars in it makes k + 1 pieces.                *)
(***************************************************************************)
EXTENDS Integers, Sequences, SequencesExt, FiniteSetsExt

CONSTANTS
  Allocations, \* those of an accounting listing; an array task is 0
  BusyMost,    \* the 50 retries of a binary that is just written
  RowBound,    \* bound on the rows of a listing
  None

VARIABLES
  listed,      \* squeue lists the job
  call,        \* the call under way: which, and how often it was busy
  result,      \* what it gave, and history: whether squeue listed the job
  rows,        \* the rows of a listing that are still to be folded
  read,        \* history: those that were
  folded,      \* recent_jobs: a row for each allocation
  outcomes     \* job_outcomes: an outcome for each job

vars == <<listed, call, result, rows, read, folded, outcomes>>

Wrappers == {"job", "batch_host", "my_jobs", "my_job_briefs", "my_session_ids", "my_job_names", "submit"}
\* An error is each of SlurmError; what Slurm cannot say, or not yet, is unknown.
Results == {"row", "id", "gone", "unknown", "error"}
NoCall == [of |-> None, busy |-> 0]
\* What a step's or an allocation's MaxRSS says, in megabytes.
Rss == {None, 0, 1, 3}

TypeOK ==
  /\ listed \in BOOLEAN /\ call.of \in Wrappers \cup {None} /\ call.busy \in 0..BusyMost
  /\ result.is \in Results \cup {"nothing yet"}
  /\ Len(rows) <= RowBound /\ \A i \in DOMAIN folded : folded[i].rss \in Rss

Init ==
  /\ call = NoCall /\ result = [is |-> "nothing yet", listed |-> TRUE]
  /\ rows \in UNION {[1..n -> [id : Allocations, step : BOOLEAN, rss : Rss]] : n \in 0..RowBound}
  \* sacct prints an allocation before its steps, and once
  /\ \A i \in DOMAIN rows : LET before == {k \in 1..(i - 1) : rows[k].id = rows[i].id /\ ~rows[k].step}
                            IN  rows[i].step <=> before # {}
  /\ listed \in BOOLEAN /\ (rows # <<>> => listed)
  /\ read = <<>> /\ folded = <<>> /\ outcomes = <<>>

----------------------------------------------------------------------------
(* Slurm::run and the wrappers.                                            *)

\* A listing is folded in a behaviour of its own.
Alone == rows = <<>> /\ read = <<>>

JobChanges == Alone /\ listed' = ~listed /\ UNCHANGED <<call, result, rows, read, folded, outcomes>>

Call(w) ==
  /\ Alone /\ call = NoCall /\ call' = [of |-> w, busy |-> 0]
  /\ UNCHANGED <<listed, result, rows, read, folded, outcomes>>

Gives(is) == result' = [is |-> is, listed |-> listed] /\ call' = NoCall

\* ETXTBSY: the binary is still being written; in the end it is an error.
Busy ==
  /\ call.of # None
  /\ IF call.busy < BusyMost THEN call' = [call EXCEPT !.busy = @ + 1] /\ UNCHANGED result ELSE Gives("error")
  /\ UNCHANGED <<listed, rows, read, folded, outcomes>>

\* Which jobs are sessions, or what they are called, is left open when squeue fails.
Failed == IF call.of \in {"my_session_ids", "my_job_names"} THEN "unknown" ELSE "error"
\* The calls that take an invalid id for a job that squeue does not list.
Invalid == call.of \in {"job", "batch_host"}

\* (mutant) A job that squeue gives no answer about is gone.
FailsGone == Gives(IF Invalid THEN "gone" ELSE Failed)
\* Not found, a status other than 0, output that cannot be parsed: a row too
\* short, or without a number, is no row.
Fails == Gives(Failed)

CommandFails == call.of # None /\ Fails /\ UNCHANGED <<listed, rows, read, folded, outcomes>>

\* A job that is no longer listed is not in the answer, or, asked for by its
\* number, an invalid one.
Answers ==
  /\ call.of \in Wrappers \ {"batch_host", "submit"} /\ Gives(IF listed THEN "row" ELSE "gone")
  /\ UNCHANGED <<listed, rows, read, folded, outcomes>>

\* The host of a job may also be one that has yet to be chosen.
HostAnswers ==
  /\ call.of = "batch_host" /\ (Gives("unknown") \/ (listed /\ Gives("row")))
  /\ UNCHANGED <<listed, rows, read, folded, outcomes>>

\* sbatch may print no number at all.
Submitted ==
  /\ call.of = "submit" /\ (Gives("id") \/ Gives("error"))
  /\ UNCHANGED <<listed, rows, read, folded, outcomes>>

----------------------------------------------------------------------------
(* sacct.rs: fold_steps and parse_outcomes.                                *)

Mb(rss) == IF rss = None THEN 0 ELSE rss

LastOf(s, id) == Max({0} \cup {i \in DOMAIN s : s[i].id = id})

\* (mutant) The last step's is kept.
KeptLast(old, new) == IF new # None THEN new ELSE old
\* The larger one; any, before there is one.
Kept(old, new) == IF Mb(new) > Mb(old) \/ (old = None /\ new # None) THEN new ELSE old

FoldStep(row) == LET i == LastOf(folded, row.id)
                 IN  folded' = IF i = 0 THEN folded ELSE [folded EXCEPT ![i].rss = Kept(@, row.rss)]

\* An array task has no number of its own, and no outcome.
Numbered(id) == id > 0
OptionMax(a, b) == IF a = None THEN b ELSE IF b = None THEN a ELSE Max({a, b})
Outcome(row) ==
  LET i == LastOf(outcomes, row.id)
  IN  outcomes' = IF row.step THEN (IF i = 0 THEN outcomes ELSE [outcomes EXCEPT ![i].rss = OptionMax(@, row.rss)])
                  ELSE IF Numbered(row.id) THEN Append(outcomes, row) ELSE outcomes

Fold ==
  /\ rows # <<>> /\ rows' = Tail(rows) /\ read' = Append(read, Head(rows))
  /\ LET row == Head(rows)
     IN  (IF row.step THEN FoldStep(row) ELSE folded' = Append(folded, row)) /\ Outcome(row)
  /\ UNCHANGED <<listed, call, result>>

Next == JobChanges \/ (\E w \in Wrappers : Call(w)) \/ Busy \/ CommandFails \/ Answers
        \/ HostAnswers \/ Submitted \/ Fold

----------------------------------------------------------------------------
(* The columns of a row: the job, the free text, the others. A format has  *)
(* so many fields, and its free text is the second of them or the last.    *)

Formats == {[fields |-> 13, free |-> 2], [fields |-> 9, free |-> 2], [fields |-> 10, free |-> 2],
            [fields |-> 6, free |-> 6], [fields |-> 2, free |-> 2]}
Texts == {<<"a">>, <<"">>, <<"a", "b">>, <<"", "", "c">>}

Printed(f, text) == [i \in 1..(f.free - 1) |-> i] \o text \o [i \in 1..(f.fields - f.free) |-> f.free + i]

\* (mutant) The columns stay where they are.
SurplusNone(f, line) == 0
Surplus(f, line) == Len(line) - f.fields

\* parse_job_briefs, by splitn: the free text is all that is left.
RestOf(f, line) ==
  IF Len(line) < f.fields THEN {}
  ELSE {[text |-> SubSeq(line, f.fields, Len(line)), others |-> SubSeq(line, 1, f.fields - 1)]}

\* parse_session_ids, parse_job_names, by split_once; a nameless job is left out.
PairOf(line) == IF Len(line) < 2 THEN {} ELSE {[text |-> Tail(line), others |-> <<Head(line)>>]}

\* parse_job_row, parse_sacct, parse_outcomes.
Parsed(f, line) ==
  IF Len(line) < f.fields THEN {}
  ELSE LET extra == Surplus(f, line)
       IN  {[text |-> SubSeq(line, f.free, f.free + extra),
             others |-> SubSeq(line, 1, f.free - 1) \o SubSeq(line, f.free + extra + 1, f.fields + extra)]}
ParsedRow(f, line) ==
  IF f.free < f.fields THEN Parsed(f, line) ELSE IF f.fields = 2 THEN PairOf(line) ELSE RestOf(f, line)

----------------------------------------------------------------------------
(* The number of a job, in what sbatch prints and in a row. A text is the  *)
(* sequence of its characters, with "1" for any digit, "w" for any letter. *)

\* The length of the digits that a text begins with.
Digits(s) == Max({n \in 0..Len(s) : \A i \in 1..n : s[i] = "1"})
AtEnd(s) == Digits(Reverse(s))
UpTo(c, s) == SelectInSeq(s, LAMBDA x : x = c) - 1

\* %i of an array task or of a component keeps the id in front.
parse_job_id_field(s) ==
  LET n == Digits(s) IN IF n > 0 /\ (n = Len(s) \/ s[n + 1] \in {"_", "+"}) THEN n ELSE None

\* (mutant) The digits at the end, whatever stands in front of them.
EndOf(s) == IF AtEnd(s) = 0 THEN None ELSE AtEnd(s)
\* The digits at the end, unless they belong to a word.
NumberAtEnd(s) ==
  LET n == AtEnd(s)
  IN  IF n = 0 \/ (n < Len(s) /\ s[Len(s) - n] \in {"w", "_"}) THEN None ELSE n

\* --parsable puts the cluster behind the id.
parse_job_id(s) ==
  LET head == UpTo(";", s) IN IF head > 0 /\ Digits(s) = head THEN head ELSE NumberAtEnd(s)

----------------------------------------------------------------------------

\* parse_outcomes: a job in one of these states has not ended, one in any other has.
Running == {"PENDING", "RUNNING", "COMPLETING", "SUSPENDED", "REQUEUED", "RESIZING"}
Ended == {"COMPLETED", "FAILED", "TIMEOUT", "CANCELLED", "NODE_FAIL", "OUT_OF_MEMORY"}
\* (mutant) A signal is not looked at.
CodeAlone(code, signal) == code
\* parse_exit_code: a signal counts when the code is 0.
parse_exit_code(code, signal) == IF code = 0 /\ signal # 0 THEN 128 + signal ELSE code
ExitCode(state, code, signal) == IF state \in Running THEN {} ELSE {parse_exit_code(code, signal)}

----------------------------------------------------------------------------
(* Properties.                                                             *)

\* A job is called gone when squeue did not list it, never because squeue
\* failed, was busy, or printed what cannot be read.
GoneIsGone == result.is = "gone" => ~result.listed

\* The peak of an allocation is that of its rows, in whichever order they come,
\* in the history and in an outcome; other jobs' rows do not count.
PeakIsTold ==
  LET Peak(id) == Max({0} \cup {Mb(read[i].rss) : i \in {k \in DOMAIN read : read[k].id = id}})
  IN  /\ \A i \in DOMAIN folded : Mb(folded[i].rss) = Peak(folded[i].id)
      /\ \A i \in DOMAIN outcomes : Mb(outcomes[i].rss) = Peak(outcomes[i].id)

\* Bars in the free text shift nothing; a row cut short before it is none.
ColumnsStay ==
  read = <<>> /\ result.is = "nothing yet" =>
    \A f \in Formats, text \in Texts :
      /\ ParsedRow(f, Printed(f, text)) = {[text |-> text, others |-> [i \in 1..(f.fields - 1) |-> IF i < f.free THEN i ELSE i + 1]]}
      /\ Len(text) = 1 => \A n \in 0..(f.fields - 1) : ParsedRow(f, SubSeq(Printed(f, text), 1, n)) = {}

\* sacct.rs:100-102: what is told of a job that has ended is its code, or the
\* signal that killed it, and nothing of one that has not. The code is not the
\* verdict: Slurm has 0:0 for jobs that timed out, were cancelled or lost their
\* node as well, and these are told as 0; their state is told beside it.
CodeIsTold ==
  read = <<>> /\ result.is = "nothing yet" =>
    \A state \in Running \cup Ended, code \in {0, 1, 137}, signal \in {0, 9, 15} :
      LET told == ExitCode(state, code, signal)
      IN  /\ told = {} <=> state \in Running
          /\ 0 \in told => code = 0 /\ signal = 0
          /\ code # 0 /\ told # {} => told = {code}

\* The id taken of a text is the job's: the number that stands by itself, of
\* its own length, and none of a banner or of a name that ends in digits.
IdIsTheJobs ==
  read = <<>> /\ result.is = "nothing yet" =>
    \A n \in 1..3 :
      LET id == [i \in 1..n |-> "1"]
      IN  /\ \A s \in {id, <<"w", " ">> \o id, id \o <<";", "w">>, id \o <<";", "w", "1">>} : parse_job_id(s) = n
          /\ \A s \in {<<"w">>, <<"w">> \o id, <<"w", " ", "w", "_">> \o id} : parse_job_id(s) = None
          /\ \A s \in {id, id \o <<"_">> \o id, id \o <<"+">> \o id} : parse_job_id_field(s) = n
          /\ \A s \in {<<>>, <<"w">> \o id, id \o <<"w">>, <<"_">> \o id} : parse_job_id_field(s) = None
=============================================================================
