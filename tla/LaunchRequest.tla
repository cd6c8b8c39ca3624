--------------------------- MODULE LaunchRequest ---------------------------
(***************************************************************************)
(* What `launch` asks of Slurm: the command line is split between          *)
(* sinteractive and sbatch (crates/sint/src/cli.rs), the two halves and    *)
(* the defaults become sbatch's arguments, the walltime is fitted before   *)
(* the next maintenance and the job limit is looked up                     *)
(* (crates/sint/src/commands/launch.rs, crates/sint-core/src/maint.rs,     *)
(* joblimit.rs, time.rs). What sbatch makes of its arguments is external.  *)
(*                                                                         *)
(* A token is a flag in one of its forms, a value or the `--`; flags go by *)
(* their long names ("threads" is ours, "cpus-per-task" sbatch's). A cut   *)
(* flag is a long one abbreviated, which sbatch alone understands.         *)
(***************************************************************************)
EXTENDS Integers, Sequences, FiniteSets, FiniteSetsExt, SequencesExt

CONSTANTS
  Lines,       \* the command lines: their tokens, of an `ensure` or a launch, and
               \* the name that is meant
  Worlds,      \* the reservations, the jobs and the limits that Slurm tells of
  Defaults,    \* flag -> the configured value, None where there is none
  None

VARIABLES
  line, world,
  at,          \* "split", "defaults", "fit", "limit", "submitted" or "refused"
  ours,        \* what sinteractive reads, then its values: flag -> value
  args,        \* what sbatch gets
  carry        \* the end that the session is told of, None without one

vars == <<line, world, at, ours, args, carry>>

Flag(form, flag, val) == [form |-> form, flag |-> flag, val |-> val]
WithValue == {"eq", "attached", "cut"}
Eq(flag, val) == Flag("eq", flag, val)
Word(val) == Flag("word", None, val)

----------------------------------------------------------------------------
(* Walltimes: "human" is 1d2h5m, "slurm" [D-]HH:MM:SS with its parts left  *)
(* out where they are, "text" what Slurm alone understands.                *)

Day == 86400
Hour == 3600

Human(d, h, m) == [form |-> "human", days |-> d, clock |-> <<h, m>>]
Slurm(days, clock) == [form |-> "slurm", days |-> days, clock |-> clock]

\* (mutant) The minutes are carried, the hours are not.
CarryMinutes(t) ==
  LET hours == t.clock[1] + t.clock[2] \div 60
  IN Slurm(t.days, <<hours % 24, t.clock[2] % 60, 0>>)

\* parse_time, of the human forms.
Carry(t) ==
  LET hours == t.clock[1] + t.clock[2] \div 60
  IN Slurm(t.days + hours \div 24, <<hours % 24, t.clock[2] % 60, 0>>)
ParseTime(t) == IF t.form = "human" THEN Carry(t) ELSE t

\* slurm_time_to_seconds; it does not read human forms.
Seconds(t) ==
  LET c == t.clock
      Part(k) == IF k \in DOMAIN c THEN c[k] ELSE 0
  IN CASE t.form # "slurm" -> None
       [] t.form = "slurm" /\ t.days # None -> t.days * Day + Part(1) * Hour + Part(2) * 60 + Part(3)
       [] t.form = "slurm" /\ t.days = None /\ Len(c) < 3 -> Part(1) * 60 + Part(2)
       [] OTHER -> Part(1) * Hour + Part(2) * 60 + Part(3)

\* seconds_to_slurm_time.
SlurmTime(s) == Slurm(s \div Day, <<(s % Day) \div Hour, (s % Hour) \div 60, s % 60>>)

----------------------------------------------------------------------------
(* split_launch_argv.                                                      *)

OurValues == {"node", "partition", "time", "threads", "mem", "name"}
OurFlags == {"mouse", "no-mouse", "detach", "json"}

\* An attached value that begins with a letter looks like bundled flags.
Letters(t) == t.flag \in {"name", "partition", "qos"}
Bundled(t) == t.form = "attached" /\ t.flag \in {"threads", "mem", "name", "time"} /\ Letters(t)

TakesNext(t) == t.form \in {"long", "short"} /\ t.flag \in OurValues
IsOurs(t) ==
  \/ t.form = "eq" /\ t.flag \in OurValues
  \/ t.form = "long" /\ t.flag \in OurFlags
  \/ t.form = "attached" /\ t.flag \in OurValues /\ ~Letters(t)

\* (mutant) A flag that is not ours goes alone.
WidthAlone(ts, i) == IF TakesNext(ts[i]) THEN 2 ELSE 1

\* How many tokens go together: a flag that is not ours takes the value that
\* follows it, whether it is its value or not.
Width(ts, i) ==
  IF \/ TakesNext(ts[i])
     \/ /\ ts[i].form \notin {"eq", "cut", "word", "--"} /\ ~IsOurs(ts[i])
        /\ i < Len(ts) /\ ts[i + 1].form = "word"
  THEN 2 ELSE 1

\* The two halves from a place on; None for a line that is refused.
Split(ts, ensure) ==
  LET From[i \in 1..(Len(ts) + 2), pending \in BOOLEAN] ==
        IF i > Len(ts) THEN [ours |-> <<>>, sbatch |-> <<>>]
        ELSE IF ts[i].form = "--" THEN [ours |-> <<>>, sbatch |-> SubSeq(ts, i + 1, Len(ts))]
        ELSE IF Bundled(ts[i]) \/ (TakesNext(ts[i]) /\ i = Len(ts)) THEN None
        ELSE LET named == ts[i].form = "word" /\ pending
                 rest == From[i + Width(ts, i), pending /\ ~named]
                 here == SubSeq(ts, i, i + Width(ts, i) - 1)
             IN IF rest = None THEN None
                ELSE IF named \/ TakesNext(ts[i]) \/ IsOurs(ts[i])
                     THEN [rest EXCEPT !.ours = here \o @]
                     ELSE [rest EXCEPT !.sbatch = here \o @]
  IN From[1, ensure]

\* The value of the flag at a place, and clap's reading of our half: each
\* flag once and with a value, the name of an ensure.
Places(ts, flag) == {i \in DOMAIN ts : ts[i].flag = flag}
ValueAt(ts, i) == IF ts[i].form \in WithValue THEN ts[i].val ELSE ts[i + 1].val
ReadByClap(ts, ensure) ==
  LET words == {i \in DOMAIN ts : ts[i].form = "word" /\ (i = 1 \/ ~TakesNext(ts[i - 1]))}
  IN IF \/ \E f \in OurValues : Cardinality(Places(ts, f)) > 1
        \/ \E i \in DOMAIN ts : TakesNext(ts[i]) /\ ts[i + 1].form # "word"
        \/ ensure # (words # {})
     THEN None
     ELSE [f \in OurValues |->
             IF f = "name" /\ ensure THEN ts[Min(words)].val
             ELSE IF Places(ts, f) = {} THEN None ELSE ValueAt(ts, Min(Places(ts, f)))]

----------------------------------------------------------------------------
(* The arguments of sbatch.                                                *)

\* has_flag: every form counts but a cut one, and --mem-per-cpu as --mem.
HasFlag(as, flag) ==
  \E i \in DOMAIN as :
    as[i].form # "cut" /\ as[i].flag \in {flag} \cup (IF flag = "mem" THEN {"mem-per-cpu"} ELSE {})

\* flag_value: of the first, unless its value is attached.
FlagPlaces(as, flag) ==
  {i \in DOMAIN as : as[i].flag = flag /\ (as[i].form = "eq" \/
                                           (as[i].form \in {"long", "short"} /\ i < Len(as)))}
FlagValue(as, flag) ==
  IF FlagPlaces(as, flag) = {} THEN None ELSE ValueAt(as, Min(FlagPlaces(as, flag)))

\* sbatch takes the last.
Effective(as, flag) ==
  IF Places(as, flag) = {} THEN None ELSE ValueAt(as, Max(Places(as, flag)))

\* own_sbatch_args.
OwnArgs(read) ==
  LET One(f, as) == IF read[f] = None THEN <<>>
                    ELSE <<Eq(as, IF f = "time" THEN ParseTime(read[f]) ELSE read[f])>>
  IN One("node", "nodelist") \o One("time", "time") \o One("partition", "partition")
       \o One("threads", "cpus-per-task") \o One("mem", "mem")

Wanted(as, flag) ==
  IF Defaults[flag] = None \/ HasFlag(as, flag) THEN <<>>
  ELSE <<Eq(flag, IF flag = "time" THEN ParseTime(Defaults[flag]) ELSE Defaults[flag])>>
DefaultArgs(as) ==
  Wanted(as, "time") \o Wanted(as, "partition") \o Wanted(as, "qos")
    \o Wanted(as, "cpus-per-task") \o Wanted(as, "mem")

----------------------------------------------------------------------------
(* The maintenance and the limit.                                          *)

Margin == 300
MinSession == 600

\* next_maintenance; the starts are from now.
NextMaintenance ==
  LET starts == {r.start : r \in {q \in world.reservations : q.maint /\ q.start > 0}}
  IN IF starts = {} THEN None ELSE Min(starts)

\* (mutant) The first walltime is rewritten.
ReplaceFirst(as, time) ==
  IF Places(as, "time") = {} THEN as
  ELSE LET i == Min(Places(as, "time"))
       IN IF as[i].form \in WithValue THEN [as EXCEPT ![i].val = time]
          ELSE [as EXCEPT ![i + 1].val = time]

\* replace_time_in_args.
ReplaceTime(as, time) ==
  [i \in DOMAIN as |->
     IF \/ as[i].flag = "time" /\ as[i].form \in {"eq", "attached"}
        \/ i > 1 /\ as[i - 1].flag = "time" /\ as[i - 1].form \in {"long", "short"}
     THEN [as[i] EXCEPT !.val = time] ELSE as[i]]

\* The partition and the QOS that the request resolves to, as launch reads it.
Partition(as) ==
  IF FlagValue(as, "partition") = None THEN Defaults["partition"] ELSE FlagValue(as, "partition")
\* (mutant) The configured QOS comes first.
ConfiguredQos(as) ==
  IF Defaults["qos"] # None THEN Defaults["qos"]
  ELSE IF FlagValue(as, "qos") # None THEN FlagValue(as, "qos") ELSE Partition(as)

Qos(as) ==
  IF FlagValue(as, "qos") # None THEN FlagValue(as, "qos")
  ELSE IF Defaults["qos"] # None THEN Defaults["qos"] ELSE Partition(as)

\* check: no answer and a limit of 0 limit nothing.
Limited(qos, partition) ==
  /\ world.limit[qos] \notin {None, 0}
  /\ Cardinality({j \in world.mine : j.partition = partition}) >= world.limit[qos]

----------------------------------------------------------------------------
Init ==
  /\ line \in Lines /\ world \in Worlds
  /\ at = "split" /\ ours = None /\ args = <<>> /\ carry = None

Refuse == at' = "refused" /\ UNCHANGED <<line, world, ours, args, carry>>

SplitLine ==
  /\ at = "split"
  /\ LET halves == Split(line.tokens, line.ensure)
         read == IF halves = None THEN None ELSE ReadByClap(halves.ours, line.ensure)
     IN IF read = None THEN Refuse
        ELSE /\ at' = "defaults" /\ ours' = read
             /\ args' = OwnArgs(read) \o halves.sbatch
             /\ UNCHANGED <<line, world, carry>>

\* (mutant) The defaults go last.
DefaultsLast ==
  /\ at = "defaults" /\ at' = "fit" /\ args' = args \o DefaultArgs(args)
  /\ UNCHANGED <<line, world, ours, carry>>

\* apply_defaults, after the job's name.
ApplyDefaults ==
  /\ at = "defaults" /\ at' = "fit"
  /\ LET named == IF ours["name"] # None /\ ~HasFlag(args, "job-name")
                  THEN <<Eq("job-name", ours["name"])>> \o args ELSE args
     IN args' = DefaultArgs(named) \o named
  /\ UNCHANGED <<line, world, ours, carry>>

\* (mutant) The walltime is trimmed to the window.
FitClosely ==
  LET secs == Seconds(FlagValue(args, "time")) next == NextMaintenance
  IN IF secs <= next THEN at' = "limit" /\ UNCHANGED <<line, world, ours, args, carry>>
     ELSE IF next < MinSession THEN Refuse
     ELSE /\ at' = "limit" /\ args' = ReplaceTime(args, SlurmTime(next))
          /\ carry' = next - Margin /\ UNCHANGED <<line, world, ours>>

\* fit.
FitTime ==
  LET secs == Seconds(FlagValue(args, "time")) next == NextMaintenance
  IN IF secs <= next THEN at' = "limit" /\ UNCHANGED <<line, world, ours, args, carry>>
     ELSE IF next - Margin < MinSession THEN Refuse
     ELSE /\ at' = "limit" /\ args' = ReplaceTime(args, SlurmTime(next - Margin))
          /\ carry' = next - Margin /\ UNCHANGED <<line, world, ours>>

\* fit_maintenance: what it cannot read it leaves alone.
CanFit ==
  /\ ~\E i \in DOMAIN args : args[i].flag = "reservation"
  /\ world.reservations # None /\ FlagValue(args, "time") # None
  /\ Seconds(FlagValue(args, "time")) # None /\ NextMaintenance # None
FitMaintenance ==
  /\ at = "fit"
  /\ IF CanFit THEN FitTime ELSE at' = "limit" /\ UNCHANGED <<line, world, ours, args, carry>>

CheckJobLimit ==
  /\ at = "limit"
  /\ IF world.mine # None /\ Limited(Qos(args), Partition(args)) THEN Refuse
     ELSE at' = "submitted" /\ UNCHANGED <<line, world, ours, args, carry>>

Next == SplitLine \/ ApplyDefaults \/ FitMaintenance \/ CheckJobLimit
Spec == Init /\ [][Next]_vars

----------------------------------------------------------------------------
TypeOK ==
  /\ line \in Lines /\ world \in Worlds
  /\ at \in {"split", "defaults", "fit", "limit", "submitted", "refused"}
  /\ ours = None \/ DOMAIN ours = OurValues
  /\ carry = None \/ carry \in Int

\* The name of an ensure is the one that was meant, wherever it stands among
\* flags and their values, and is not a value of one of sbatch's flags.
NameIsTheNamed == ours # None => ours["name"] = line.name

\* What sbatch makes of its arguments is what the user said, in whatever
\* spelling, and never a default in its place: launch recognises a few of
\* the spellings, and sbatch takes the last of a flag (launch.rs, "Explicit
\* flags always win: sbatch takes the last occurrence, and these go first").
Said(flag) ==
  {IF flag = "time" THEN ParseTime(ValueAt(line.tokens, i)) ELSE ValueAt(line.tokens, i)
     : i \in Places(line.tokens, flag)}
ExplicitFlagsWin ==
  at \in {"fit", "submitted"} /\ carry = None =>
    /\ \A f \in {"time", "partition", "qos"} : Said(f) # {} => Effective(args, f) \in Said(f)
    /\ Said("threads") # {} /\ Said("cpus-per-task") = {} => Effective(args, "cpus-per-task") \in Said("threads")
    /\ Said("mem-per-cpu") # {} => Effective(args, "mem") \in Said("mem") \cup {None}

\* A job that is submitted ends before the next maintenance, or a margin
\* before it when its walltime was shortened, whatever flags carry it. Left
\* out: a user's own reservation, a walltime that launch does not read (cut,
\* attached behind the `--`, or Slurm's own words) and one that is said twice.
Unread(flag) ==
  \/ Cardinality(Places(args, flag)) > 1
  \/ \E i \in Places(args, flag) : args[i].form \in {"cut", "attached"}
EndsBeforeMaintenance ==
  at = "submitted" /\ world.reservations # None /\ NextMaintenance # None
    /\ ~Unread("time") /\ Places(args, "reservation") = {}
  => LET secs == Seconds(Effective(args, "time"))
     IN secs = None \/ secs <= NextMaintenance - (IF carry = None THEN 0 ELSE Margin)

\* The end that the session is told of is the one that Slurm was asked for,
\* also where a walltime is said twice, and there is a session's worth before it.
ToldIsAsked ==
  carry # None /\ (\A i \in Places(args, "time") : args[i].form # "cut") =>
    Seconds(Effective(args, "time")) = carry /\ carry >= MinSession

\* The limit that is looked up is the one of the QOS and the partition that
\* sbatch will take, where launch reads them.
LimitIsTheRequests ==
  at \in {"submitted"} /\ world.mine # None /\ ~Unread("qos") /\ ~Unread("partition") =>
    ~Limited(IF Effective(args, "qos") = None THEN Effective(args, "partition") ELSE Effective(args, "qos"),
             Effective(args, "partition"))

\* A walltime keeps its length through every form it is written in.
TimeKeepsItsLength ==
  /\ \A i \in DOMAIN line.tokens :
       LET t == line.tokens[i].val
       IN line.tokens[i].flag = "time" /\ line.tokens[i].form \in WithValue /\ t.form = "human" =>
            Seconds(ParseTime(t)) = t.days * Day + t.clock[1] * Hour + t.clock[2] * 60
  /\ carry # None => Seconds(SlurmTime(carry)) = carry
=============================================================================
