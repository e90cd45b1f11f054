------------------------------ MODULE PotatoWalk ------------------------------
(***************************************************************************)
(* `pringle potato`: following the Pot Potato along its coins.             *)
(*                                                                         *)
(* A round is a lineage of coins.  The first one is launched; each pass    *)
(* spends the last coin, creates the next and names its buyer and a time;  *)
(* a claim spends the last coin and creates none.  The command walks       *)
(* forward from the newest coin of its cache, or from a coin it is given,  *)
(* then backward until it has as many holders as it was asked for, one     *)
(* lookup at a time while the potato is passed on, and keeps what it found *)
(* in the cache, unless it was given a coin.  A buyer is known by the coin *)
(* he bought.  One invocation runs at a time.                              *)
(***************************************************************************)
EXTENDS Naturals, Sequences, SequencesExt, FiniteSetsExt

CONSTANTS
  Round,         \* the rounds of the game
  Default,       \* DEFAULT_ANCHOR: a coin of one of them
  Time,          \* times a buyer may state
  MaxPass,       \* passes in each round, the bound on its lineage
  MaxHops,       \* MAX_HOPS
  MinCache,      \* holders the cache keeps in any case
  MaxHolders,    \* the largest number of previous holders asked for
  Faults         \* what may go wrong, among FaultKind

FaultKind ==
  { "lookup",    \* a lookup fails, or the process dies
    "missing" }  \* the node does not find a spend that there is

ASSUME PotatoAssumption ==
  /\ Default \in [round : Round, n : Nat]
  /\ Time \subseteq Nat \ {0}
  /\ MaxPass \in [Round -> Nat] /\ Default.n <= MaxPass[Default.round]
  /\ MaxHops \in Nat /\ MinCache \in Nat \ {0} /\ MaxHolders \in Nat
  /\ Faults \subseteq FaultKind

VARIABLES
  passes,   \* for each round, the time of each pass
  over,     \* the rounds that were claimed
  cache,    \* state.potato in the state file: holds, newest first
  job,      \* the command that is running
  calm      \* has everything that may go wrong stopped going wrong?

vars == <<passes, over, cache, job, calm>>

\* The n-th coin of a round; pass n made it, so the first one is number 0.
Coin == [round : Round, n : Nat]
HoldJson == [coin : Coin, at : Time]
Open == 0
Hold == [coin : Coin, at : Time, sold : Time \cup {Open}]
Idle == [at |-> "idle"]

Init ==
  /\ passes \in [Round -> UNION {[1..n -> Time] : n \in 0..Default.n}]
  /\ Len(passes[Default.round]) = Default.n
  /\ over = {}
  /\ cache = <<>>
  /\ job = Idle
  /\ calm = FALSE

Fault(k) == k \in Faults /\ ~calm

-----------------------------------------------------------------------------
(* The game. *)

Tip(r) == Len(passes[r])

Pass(r) ==
  /\ r \notin over /\ Tip(r) < MaxPass[r]
  /\ \E t \in Time : passes' = [passes EXCEPT ![r] = Append(@, t)]
  /\ UNCHANGED <<over, cache, job, calm>>

Claim(r) ==
  /\ r \notin over
  /\ over' = over \cup {r}
  /\ UNCHANGED <<passes, cache, job, calm>>

\* From now on nothing fails.
Calm ==
  /\ ~calm /\ calm' = TRUE
  /\ UNCHANGED <<passes, over, cache, job>>

-----------------------------------------------------------------------------
(* The walk. *)

\* Hold::new, from the spend that created the coin.
HoldOf(c) == [coin |-> c, at |-> passes[c.round][c.n], sold |-> Open]

\* Hold::from_json and Hold::to_json: when the coin was sold is not kept.
FromJson(h) == [coin |-> h.coin, at |-> h.at, sold |-> Open]
ToJson(h) == [coin |-> h.coin, at |-> h.at]

Successor(c) == [c EXCEPT !.n = @ + 1]
Parent(c) == [c EXCEPT !.n = @ - 1]

\* The command starts at the newest cached coin, at DEFAULT_ANCHOR, or at a coin
\* it is given, with nothing cached.
Begin(anchor, cached, given, h) ==
  /\ job = Idle
  /\ job' = [at |-> "forward", given |-> given, holders |-> h, cur |-> anchor, hop |-> 0,
             found |-> <<>>, cached |-> cached, claim |-> FALSE,
             since |-> Tip(anchor.round), whole |-> TRUE]
  /\ UNCHANGED <<passes, over, cache, calm>>

BeginCached(h) ==
  IF cache = <<>> THEN Begin(Default, <<>>, FALSE, h)
  ELSE Begin(cache[1].coin, [i \in DOMAIN cache |-> FromJson(cache[i])], FALSE, h)

BeginGiven(c, h) == Begin(c, <<>>, TRUE, h)

\* Forward, refusing one hop too early.
Forward_Early ==
  /\ job.at = "forward" /\ job.hop < MaxHops
  /\ job.cur.n < Tip(job.cur.round)
  /\ job' = [job EXCEPT !.cur = Successor(@), !.hop = @ + 1,
                        !.found = <<HoldOf(Successor(job.cur))>> \o @]
  /\ UNCHANGED <<passes, over, cache, calm>>

\* Forward, without the limit.
Forward_Unbounded ==
  /\ job.at = "forward"
  /\ job.cur.n < Tip(job.cur.round)
  /\ job' = [job EXCEPT !.cur = Successor(@), !.hop = @ + 1,
                        !.found = <<HoldOf(Successor(job.cur))>> \o @]
  /\ UNCHANGED <<passes, over, cache, calm>>

\* The coin was passed on: its spend names the next holder.
Forward ==
  /\ job.at = "forward" /\ job.hop <= MaxHops
  /\ job.cur.n < Tip(job.cur.round)
  /\ job' = [job EXCEPT !.cur = Successor(@), !.hop = @ + 1,
                        !.found = <<HoldOf(Successor(job.cur))>> \o @]
  /\ UNCHANGED <<passes, over, cache, calm>>

\* The coin is unspent, or its spend is the claim.
ForwardEnds ==
  /\ job.at = "forward" /\ job.hop <= MaxHops
  /\ job.cur.n = Tip(job.cur.round)
  /\ job' = [job EXCEPT !.at = "anchor", !.claim = job.cur.round \in over]
  /\ UNCHANGED <<passes, over, cache, calm>>

\* The coin is spent but its spend is not found.
ForwardMissing ==
  /\ job.at = "forward" /\ job.hop <= MaxHops /\ Fault("missing")
  /\ job.cur.n < Tip(job.cur.round) \/ job.cur.round \in over
  /\ job' = [job EXCEPT !.at = "anchor", !.whole = FALSE]
  /\ UNCHANGED <<passes, over, cache, calm>>

\* hold_for: the first coin of a round has no pass to tell its holder.
HoldFor(c) == IF c.n = 0 THEN <<>> ELSE <<HoldOf(c)>>

\* The cached holds follow those found; if there are none at all, the anchor's
\* own hold is looked up.
Anchor ==
  /\ job.at = "anchor"
  /\ LET holds == job.found \o job.cached IN
     job' = [job EXCEPT !.at = "backward", !.hop = 0, !.cached = <<>>,
                        !.found = IF holds = <<>> THEN HoldFor(job.cur) ELSE holds]
  /\ UNCHANGED <<passes, over, cache, calm>>

AnchorMissing ==
  /\ job.at = "anchor" /\ Fault("missing")
  /\ job.found \o job.cached = <<>>
  /\ job' = [job EXCEPT !.at = "backward", !.hop = 0, !.whole = FALSE]
  /\ UNCHANGED <<passes, over, cache, calm>>

\* MoreNeeded, one holder short.
MoreNeeded_Short == job.found # <<>> /\ Len(job.found) < job.holders
MoreNeeded == job.found # <<>> /\ Len(job.found) <= job.holders

\* The hold before the oldest one, until there are enough or the round starts.
Backward ==
  /\ job.at = "backward" /\ MoreNeeded
  /\ LET more == HoldFor(Parent(Last(job.found).coin)) IN
     job' = IF more = <<>> THEN [job EXCEPT !.at = "walked"]
                           ELSE [job EXCEPT !.found = @ \o more]
  /\ UNCHANGED <<passes, over, cache, calm>>

BackwardMissing ==
  /\ job.at = "backward" /\ MoreNeeded /\ Fault("missing")
  /\ job' = [job EXCEPT !.at = "walked", !.whole = FALSE]
  /\ UNCHANGED <<passes, over, cache, calm>>

BackwardEnds ==
  /\ job.at = "backward" /\ ~MoreNeeded
  /\ job' = [job EXCEPT !.at = "walked"]
  /\ UNCHANGED <<passes, over, cache, calm>>

\* relink: each holder sold when the next one bought.
Relinked(holds) ==
  [i \in DOMAIN holds |-> [holds[i] EXCEPT !.sold = IF i = 1 THEN Open ELSE holds[i - 1].at]]

\* potato_cache_limit
CacheLimit(h) == Max({MinCache, h + 1})
Truncate(s, n) == SubSeq(s, 1, Min({n, Len(s)}))

\* Saved, also of a walk that was given its coin.
Saved_Always(holds) == Truncate([i \in DOMAIN holds |-> ToJson(holds[i])], CacheLimit(job.holders))

\* What the cache becomes.
Saved(holds) ==
  IF job.given THEN cache
  ELSE Truncate([i \in DOMAIN holds |-> ToJson(holds[i])], CacheLimit(job.holders))

\* The cache is saved and the report names the latest holder and as many before
\* him as were asked for, if there are.
Report ==
  /\ job.at = "walked" /\ job.found # <<>>
  /\ cache' = Saved(job.found)
  /\ job' = [at |-> "shown", round |-> job.cur.round, holders |-> job.holders,
             claim |-> job.claim, since |-> job.since, whole |-> job.whole,
             holds |-> Truncate(Relinked(job.found), job.holders + 1)]
  /\ UNCHANGED <<passes, over, calm>>

\* Too many hops, or no holder found.
Refuse ==
  /\ \/ job.at = "forward" /\ job.hop > MaxHops
     \/ job.at = "walked" /\ job.found = <<>>
  /\ job' = Idle
  /\ UNCHANGED <<passes, over, cache, calm>>

Fail ==
  /\ Fault("lookup") /\ job.at \in {"forward", "anchor", "backward", "walked"}
  /\ job' = Idle
  /\ UNCHANGED <<passes, over, cache, calm>>

Exit ==
  /\ job.at = "shown"
  /\ job' = Idle
  /\ UNCHANGED <<passes, over, cache, calm>>

-----------------------------------------------------------------------------
Walk ==
  \/ Forward \/ ForwardEnds \/ Anchor \/ Backward \/ BackwardEnds \/ Report \/ Refuse \/ Exit

Next ==
  \/ \E h \in 0..MaxHolders :
       \/ BeginCached(h)
       \/ \E r \in Round : \E n \in 0..Tip(r) : BeginGiven([round |-> r, n |-> n], h)
  \/ Walk
  \/ ForwardMissing \/ AnchorMissing \/ BackwardMissing \/ Fail
  \/ \E r \in Round : Pass(r) \/ Claim(r)
  \/ Calm

Spec == Init /\ [][Next]_vars

\* Faults end; a command that started goes on; it is run without a coin again
\* and again.
Fairness ==
  /\ WF_vars(Calm) /\ WF_vars(Walk)
  /\ SF_vars(\E h \in 0..MaxHolders : BeginCached(h))

FairSpec == Spec /\ Fairness

-----------------------------------------------------------------------------
(* Properties. *)

JobOK ==
  /\ job.at \in {"idle", "forward", "anchor", "backward", "walked", "shown"}
  /\ job.at \in {"forward", "anchor", "backward", "walked"} =>
       /\ job.cur \in Coin /\ job.cur.n <= Tip(job.cur.round)
       /\ job.found \in Seq(Hold) /\ job.cached \in Seq(Hold)
       /\ job.hop <= MaxHops + 1
  /\ job.at = "shown" => job.holds \in Seq(Hold)

\* Every variable keeps its shape; a walk never leaves the lineage, nor goes on
\* past the limit of hops.
TypeOK ==
  /\ passes \in [Round -> Seq(Time)]
  /\ over \subseteq Round
  /\ cache \in Seq(HoldJson)
  /\ JobOK
  /\ calm \in BOOLEAN

\* The cache is a run of the default round without gaps, newest first, and true
\* to the chain: walks that were given a coin, failed or found only a part of
\* the lineage never put anything else in it (cmd_potato, refresh).
CacheIsLineage ==
  \A i \in DOMAIN cache :
    /\ cache[i] = ToJson(HoldOf(cache[i].coin))
    /\ cache[i].coin = [cache[1].coin EXCEPT !.n = @ - (i - 1)]
    /\ cache[i].coin.round = Default.round

\* The potato's holders at its n-th pass, with as many before him as asked for.
Reading(r, n, h) ==
  [i \in 1..Min({n, h + 1}) |->
     [coin |-> [round |-> r, n |-> n + 1 - i],
      at |-> passes[r][n + 1 - i],
      sold |-> IF i = 1 THEN Open ELSE passes[r][n + 2 - i]]]

\* Whatever was cached, truncated or asked for before, and whatever the potato
\* did meanwhile, the report is what one look at the whole round would have
\* shown at some moment since the command began; only a spend the node does
\* not find can cut it short (refresh, relink).
ReportIsReading ==
  job.at = "shown" =>
    LET n == job.holds[1].coin.n
        reading == Reading(job.round, n, job.holders) IN
    /\ IsPrefix(job.holds, reading)
    /\ job.whole => n >= job.since /\ job.holds = reading
    /\ job.claim => job.round \in over /\ n = Tip(job.round)

\* Running the command brings the cache to the potato's head, unless more was
\* passed on since than one walk may follow (MAX_HOPS).
TooFar == Tip(Default.round) > (IF cache = <<>> THEN Default.n ELSE cache[1].coin.n) + MaxHops
AtTip == cache # <<>> /\ cache[1].coin.n = Tip(Default.round)
CacheCatchesUp == []<>(TooFar \/ Tip(Default.round) = 0 \/ AtTip)
=============================================================================
