----------------------------- MODULE QuotaCache -----------------------------
(***************************************************************************)
(* The storage quota of one user: every session's loop reads quota.json on *)
(* its own cadence or when poked, and probes the daemons when the cache is *)
(* stale (NodeDeps::read_quota, JobLoop::step); `sinteractive quota check` *)
(* probes, writes the cache and pokes the sessions that have a state file  *)
(* until a poke fails (quota_data, poke_all).                              *)
(*                                                                         *)
(* A snapshot is how long ago the daemons were asked, up to Oldest: what   *)
(* they said is right or wrong with that. Daemons that answer in part are  *)
(* not told from all of them. What the cache's stamp says of its age, up   *)
(* to the cadence, is `age`: the stamp is taken when the last daemon has   *)
(* answered. A write of the cache is one step; AtomicWrite has two at once.*)
(***************************************************************************)
EXTENDS Naturals

CONSTANTS
  Sessions, Checker,
  None,
  QuotaPoll,  \* SINTERACTIVE_QUOTA_POLL, in units of the clock
  ProbeTime   \* the most a probe takes

VARIABLES
  up,         \* a daemon answers
  cache, age, \* quota.json
  at,         \* session or check -> where it is in a probe
  held,       \* session or check -> the snapshot in its hand
  idle,       \* session -> now - quota_checked
  poke,       \* the sessions with a poke file
  view,       \* session -> the snapshot behind quota_over and its notice
  toPoke,     \* what is left of the check's poke_all
  skipped,    \* history: the sessions that poke_all did not get to
  news,       \* history: the last check's answer, once that check is over
  raced,      \* history: that check wrote the cache during another probe
  missed      \* history: a probe failed

history == <<news, raced, missed, skipped>>
vars == <<up, cache, age, at, held, idle, poke, view, toPoke, history>>

Oldest == 2 * (QuotaPoll + ProbeTime)
Snapshots == 0..Oldest
Probers == Sessions \cup {Checker}

TypeOK ==
  /\ up \in BOOLEAN
  /\ {cache, news} \subseteq Snapshots \cup {None} /\ age \in 0..QuotaPoll
  /\ at \in [Probers -> {"sleep", "ask", "store", "poke"}]
  /\ held \in [Probers -> Snapshots \cup {None}]
  /\ \A p \in Probers : at[p] = "store" => held[p] # None
  /\ idle \in [Sessions -> 0..QuotaPoll] /\ poke \subseteq Sessions
  /\ view \in [Sessions -> Snapshots \cup {None}]
  /\ toPoke \subseteq Sessions /\ skipped \subseteq Sessions
  /\ raced \in BOOLEAN /\ missed \in BOOLEAN

Init ==
  /\ up = TRUE /\ cache = None /\ age = QuotaPoll
  /\ at = [p \in Probers |-> "sleep"] /\ held = [p \in Probers |-> None]
  /\ idle = [s \in Sessions |-> QuotaPoll] /\ poke = {}
  /\ view = [s \in Sessions |-> None] /\ toPoke = {}
  /\ skipped = {} /\ news = None /\ raced = FALSE /\ missed = FALSE

----------------------------------------------------------------------------
(* Time, the file system and the daemons.                                  *)

Older(n, most) == IF n < most THEN n + 1 ELSE n
Aged(q) == IF q = None THEN None ELSE Older(q, Oldest)

\* A sleeping session ticks when its check is due; no probe takes longer
\* than its timeouts.
InTime(p) ==
  /\ p \in Sessions => idle[p] < IF at[p] = "sleep" THEN QuotaPoll ELSE ProbeTime
  /\ p = Checker /\ at[p] = "store" => held[p] < ProbeTime

Advance ==
  /\ \A p \in Probers : InTime(p)
  /\ cache' = Aged(cache) /\ age' = Older(age, QuotaPoll) /\ news' = Aged(news)
  /\ held' = [p \in Probers |-> Aged(held[p])]
  /\ view' = [s \in Sessions |-> Aged(view[s])]
  /\ idle' = [s \in Sessions |-> idle[s] + 1]
  /\ UNCHANGED <<up, at, poke, toPoke, raced, missed, skipped>>

DaemonsChange ==
  /\ up' = ~up
  /\ UNCHANGED <<cache, age, at, held, idle, poke, view, toPoke, history>>

\* used_kb, over the daemons that answer: nothing without any.
Answers == IF up THEN {0} ELSE {None}

----------------------------------------------------------------------------
(* A session's tick.                                                       *)

ReadQuota(s, stale) ==
  /\ at[s] = "sleep" /\ (s \in poke \/ idle[s] = QuotaPoll)
  /\ poke' = poke \ {s} /\ idle' = [idle EXCEPT ![s] = 0]
  /\ IF stale
     THEN /\ at' = [at EXCEPT ![s] = "ask"] /\ held' = [held EXCEPT ![s] = cache]
          /\ UNCHANGED view
     ELSE view' = [view EXCEPT ![s] = cache] /\ UNCHANGED <<at, held>>
  /\ UNCHANGED <<up, cache, age, toPoke, history>>

\* (mutant) A cache that is there is never refreshed.
TickOnce(s) == ReadQuota(s, cache = None)

Tick(s) == ReadQuota(s, cache = None \/ age = QuotaPoll)

Ask(s) ==
  /\ at[s] = "ask"
  /\ \E q \in Answers :
       /\ at' = [at EXCEPT ![s] = IF q = None THEN "sleep" ELSE "store"]
       /\ held' = [held EXCEPT ![s] = q]
       /\ view' = IF q = None THEN [view EXCEPT ![s] = held[s]] ELSE view
       /\ missed' = (missed \/ q = None)
  /\ UNCHANGED <<up, cache, age, idle, poke, toPoke, news, raced, skipped>>

\* (mutant) The cache is written, the notice left to the next check.
StoreOnly(s) ==
  /\ at[s] = "store" /\ at' = [at EXCEPT ![s] = "sleep"]
  /\ cache' = held[s] /\ age' = 0 /\ held' = [held EXCEPT ![s] = None]
  /\ UNCHANGED <<up, idle, poke, view, toPoke, history>>

Store(s) ==
  /\ at[s] = "store" /\ at' = [at EXCEPT ![s] = "sleep"]
  /\ cache' = held[s] /\ age' = 0 /\ view' = [view EXCEPT ![s] = held[s]]
  /\ held' = [held EXCEPT ![s] = None]
  /\ UNCHANGED <<up, idle, poke, toPoke, history>>

----------------------------------------------------------------------------
(* quota check.                                                            *)

CheckAsk ==
  /\ at[Checker] = "sleep"
  /\ \E q \in Answers \ {None} : held' = [held EXCEPT ![Checker] = q]
  /\ at' = [at EXCEPT ![Checker] = "store"]
  /\ news' = None /\ raced' = FALSE /\ skipped' = {}
  /\ UNCHANGED <<up, cache, age, idle, poke, view, toPoke, missed>>

\* poke_all has `rest` to poke still.
PokesLeft(rest) ==
  /\ toPoke' = rest
  /\ IF rest = {}
     THEN /\ at' = [at EXCEPT ![Checker] = "sleep"]
          /\ news' = held[Checker] /\ held' = [held EXCEPT ![Checker] = None]
     ELSE at' = [at EXCEPT ![Checker] = "poke"] /\ UNCHANGED <<news, held>>

\* known_job_ids: the sessions that have a state file. One has none before
\* its end was first confirmed, and a job without a limit never has.
PokeListed ==
  \E listed \in SUBSET Sessions : skipped' = Sessions \ listed /\ PokesLeft(listed)

\* (mutant) The cache is left alone while it is fresh.
CheckStoreStale ==
  /\ at[Checker] = "store"
  /\ IF age = QuotaPoll THEN cache' = held[Checker] /\ age' = 0 ELSE UNCHANGED <<cache, age>>
  /\ raced' = (\E s \in Sessions : at[s] = "store")
  /\ PokeListed
  /\ UNCHANGED <<up, idle, poke, view, missed>>

CheckStore ==
  /\ at[Checker] = "store"
  /\ cache' = held[Checker] /\ age' = 0
  /\ raced' = (\E s \in Sessions : at[s] = "store")
  /\ PokeListed
  /\ UNCHANGED <<up, idle, poke, view, missed>>

PokeOne ==
  /\ at[Checker] = "poke"
  /\ \E s \in toPoke : poke' = poke \cup {s} /\ PokesLeft(toPoke \ {s})
  /\ UNCHANGED <<up, cache, age, idle, view, raced, missed, skipped>>

\* The first poke that fails is the last, and nobody is told.
PokeFails ==
  /\ at[Checker] = "poke"
  /\ skipped' = skipped \cup toPoke /\ PokesLeft({})
  /\ UNCHANGED <<up, cache, age, idle, poke, view, raced, missed>>

CheckGoesOn == CheckStore \/ PokeOne \/ PokeFails
Session(s) == Tick(s) \/ Ask(s) \/ Store(s)
Next ==
  \/ Advance \/ DaemonsChange
  \/ \E s \in Sessions : Session(s)
  \/ CheckAsk \/ CheckGoesOn

Spec == Init /\ [][Next]_vars

\* Time passes, sessions go on ticking, and a check that has begun goes on.
Fairness ==
  /\ WF_vars(Advance) /\ \A s \in Sessions : WF_vars(Session(s))
  /\ WF_vars(CheckGoesOn)

FairSpec == Spec /\ Fairness

----------------------------------------------------------------------------
\* While probes succeed, what a session says of the quota was asked of the
\* daemons less than two cadences and two probes ago: the cache may be
\* nearly a cadence old when it is read, and is believed for another.
NoticeIsRecent ==
  ~missed => \A s \in Sessions : view[s] # None => view[s] < Oldest

\* commands/quota.rs:4-6, "pokes every live session so the fresh answer
\* reaches their notices on the next tick": once its poke is consumed a
\* session that poke_all got to shows the check's answer or a later one,
\* unless a probe that was under way when the check wrote the cache wrote its
\* older answer over it. One without a state file yet, and those after a poke
\* that failed, are left to their own cadence (NoticeIsRecent).
CheckReachesNotices ==
  news # None /\ ~raced => \A s \in Sessions \ skipped :
    at[s] = "sleep" /\ s \notin poke => view[s] # None /\ view[s] <= news

\* The same for every session that was poked, which the comment says.
FreshAnswerReaches ==
  news # None => \A s \in Sessions \ skipped :
    at[s] = "sleep" /\ s \notin poke => view[s] # None /\ view[s] <= news

\* An outage is got over: once daemons answer for good, the notice of every
\* session is recent in the end and stays so, whatever was written before.
NoticesRecover ==
  <>[]up => <>[](\A s \in Sessions : view[s] # None /\ view[s] < Oldest)
=============================================================================
