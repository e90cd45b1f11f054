-------------------------- MODULE PotatoWalk_proofs --------------------------
(* Theorems about PotatoWalk, for any rounds, times and limits. *)
EXTENDS PotatoWalk, SequenceTheorems, TLAPS

\* Holds of a round that follow one another without gaps, newest first, as
\* the passes of the round tell them.
Run(s, r) ==
  \A i \in 1..Len(s) :
    /\ s[i].coin.round = r /\ s[i].coin.n \in 1..Tip(r)
    /\ s[1].coin.n = s[i].coin.n + (i - 1)
    /\ s[i].at = passes[r][s[i].coin.n]

\* What the walk has, put before what it found in the cache, is such a run, and
\* starts at the coin it has come to.
WalkInv ==
  /\ job.at \in {"forward", "anchor", "backward", "walked"} =>
       /\ job.given \in BOOLEAN /\ job.holders \in Nat /\ job.hop \in Nat
       /\ ~job.given => job.cur.round = Default.round
       /\ Run(job.found \o job.cached, job.cur.round)
       /\ job.found \o job.cached # <<>> => (job.found \o job.cached)[1].coin = job.cur
  /\ job.at \in {"backward", "walked"} => job.cached = <<>>

IInv ==
  /\ TypeOK /\ WalkInv
  /\ Run(cache, Default.round)
  /\ Default.n <= Tip(Default.round)

-----------------------------------------------------------------------------
(* Runs. *)

\* The game only adds passes: a run stays one.
LEMMA RunStays ==
  ASSUME NEW s, NEW r \in Round, Run(s, r), Len(s) \in Nat,
         passes \in [Round -> Seq(Time)], passes' \in [Round -> Seq(Time)],
         \A q \in Round : passes'[q] = passes[q] \/ \E t \in Time : passes'[q] = Append(passes[q], t)
  PROVE  \A i \in 1..Len(s) :
           /\ s[i].coin.round = r /\ s[i].coin.n \in 1..Len(passes'[r])
           /\ s[1].coin.n = s[i].coin.n + (i - 1)
           /\ s[i].at = passes'[r][s[i].coin.n]
<1> SUFFICES ASSUME NEW i \in 1..Len(s)
             PROVE  s[i].coin.n \in 1..Len(passes'[r]) /\ s[i].at = passes'[r][s[i].coin.n]
  BY DEF Run
<1>1. s[i].coin.n \in 1..Len(passes[r]) /\ s[i].at = passes[r][s[i].coin.n] /\ passes[r] \in Seq(Time)
  BY DEF Run, Tip
<1>2. CASE passes'[r] = passes[r]
  BY <1>1, <1>2
<1>3. CASE \E t \in Time : passes'[r] = Append(passes[r], t)
  BY <1>1, <1>3
<1>4. QED
  BY <1>2, <1>3

LEMMA RunEmpty == ASSUME NEW r PROVE Run(<<>>, r)
BY DEF Run

\* The next pass goes in front, an earlier one at the end.
LEMMA RunNext ==
  ASSUME NEW s \in Seq(Hold), NEW r \in Round, Run(s, r), NEW h \in Hold,
         h.coin.round = r, h.coin.n \in 1..Tip(r), h.at = passes[r][h.coin.n],
         s # <<>> => h.coin.n = s[1].coin.n + 1
  PROVE  Run(<<h>> \o s, r)
<1> DEFINE n == <<h>> \o s
<1>1. n \in Seq(Hold) /\ Len(n) = Len(s) + 1 /\ n[1] = h
      /\ \A i \in 1..Len(s) : n[i + 1] = s[i]
  OBVIOUS
<1>2. ASSUME NEW i \in 1..Len(n)
      PROVE  /\ n[i].coin.round = r /\ n[i].coin.n \in 1..Tip(r)
             /\ n[1].coin.n = n[i].coin.n + (i - 1)
             /\ n[i].at = passes[r][n[i].coin.n]
  <2>1. h.coin.n \in Nat
    BY DEF Hold, Coin
  <2>2. CASE i = 1
    BY <1>1, <2>1, <2>2
  <2>3. CASE i # 1
    <3>1. PICK j \in 1..Len(s) : i = j + 1
      BY <1>1, <1>2, <2>3
    <3>2. n[i] = s[j] /\ s # <<>> /\ s[j] \in Hold /\ s[1] \in Hold
      BY <1>1, <3>1
    <3>3. /\ s[j].coin.round = r /\ s[j].coin.n \in 1..Tip(r)
          /\ s[1].coin.n = s[j].coin.n + (j - 1) /\ s[j].at = passes[r][s[j].coin.n]
      BY <3>1 DEF Run
    <3>4. s[j].coin.n \in Nat /\ s[1].coin.n \in Nat /\ h.coin.n = s[1].coin.n + 1
      BY <3>2 DEF Hold, Coin
    <3>5. n[1].coin.n = n[i].coin.n + (i - 1)
      BY <1>1, <3>1, <3>2, <3>3, <3>4
    <3>6. QED
      BY <3>2, <3>3, <3>5
  <2>4. QED
    BY <2>2, <2>3
<1>3. QED
  BY <1>2 DEF Run

LEMMA RunBefore ==
  ASSUME NEW s \in Seq(Hold), NEW r \in Round, Run(s, r), s # <<>>, NEW h \in Hold,
         h.coin.round = r, h.coin.n \in 1..Tip(r), h.at = passes[r][h.coin.n],
         h.coin.n + 1 = s[Len(s)].coin.n
  PROVE  Run(s \o <<h>>, r)
<1> DEFINE n == s \o <<h>>
<1>1. n \in Seq(Hold) /\ Len(n) = Len(s) + 1 /\ n[Len(s) + 1] = h
      /\ \A i \in 1..Len(s) : n[i] = s[i]
  OBVIOUS
<1>2. 1 \in 1..Len(s) /\ Len(s) \in 1..Len(s)
  OBVIOUS
<1>3. s[1].coin.n = s[Len(s)].coin.n + (Len(s) - 1) /\ s[Len(s)].coin.n \in Nat /\ h.coin.n \in Nat
  BY <1>2 DEF Run, Hold, Coin
<1>4. ASSUME NEW i \in 1..Len(n)
      PROVE  /\ n[i].coin.round = r /\ n[i].coin.n \in 1..Tip(r)
             /\ n[1].coin.n = n[i].coin.n + (i - 1)
             /\ n[i].at = passes[r][n[i].coin.n]
  <2>1. CASE i = Len(s) + 1
    <3>1. n[i] = h /\ n[1] = s[1]
      BY <1>1, <1>2, <2>1
    <3>2. n[1].coin.n = h.coin.n + (i - 1)
      BY <1>2, <1>3, <2>1, <3>1
    <3>3. QED
      BY <3>1, <3>2
  <2>2. CASE i # Len(s) + 1
    <3>1. i \in 1..Len(s) /\ n[i] = s[i] /\ n[1] = s[1]
      BY <1>1, <1>2, <1>4, <2>2
    <3>2. QED
      BY <3>1 DEF Run
  <2>3. QED
    BY <2>1, <2>2
<1>5. QED
  BY <1>4 DEF Run

LEMMA TruncateOK ==
  ASSUME NEW S, NEW s \in Seq(S), NEW n \in Nat
  PROVE  /\ Truncate(s, n) \in Seq(S)
         /\ Len(Truncate(s, n)) = (IF n <= Len(s) THEN n ELSE Len(s))
         /\ \A i \in 1..Len(Truncate(s, n)) : Truncate(s, n)[i] = s[i]
<1> DEFINE k == IF n <= Len(s) THEN n ELSE Len(s)
<1>1. Min({n, Len(s)}) = k
  <2>1. k \in {n, Len(s)} /\ \A y \in {n, Len(s)} : k <= y
    OBVIOUS
  <2>2. \A x \in {n, Len(s)} : (\A y \in {n, Len(s)} : x <= y) => x = k
    OBVIOUS
  <2>3. QED
    BY <2>1, <2>2 DEF Min
<1>2. k \in Nat /\ k <= Len(s)
  OBVIOUS
<1> HIDE DEF k
<1>3. SubSeq(s, 1, k) \in Seq(S) /\ Len(SubSeq(s, 1, k)) = k
      /\ \A i \in 1..k : SubSeq(s, 1, k)[i] = s[i]
  BY <1>2
<1>4. QED
  BY <1>1, <1>3 DEF Truncate, k

LEMMA CacheLimitOK == ASSUME NEW h \in Nat PROVE CacheLimit(h) \in Nat
<1>1. \E x \in {MinCache, h + 1} : \A y \in {MinCache, h + 1} : x >= y
  BY PotatoAssumption
<1>2. Max({MinCache, h + 1}) \in {MinCache, h + 1}
  BY <1>1 DEF Max
<1>3. QED
  BY <1>2, PotatoAssumption DEF CacheLimit

LEMMA HoldOfOK ==
  ASSUME passes \in [Round -> Seq(Time)], NEW c \in Coin, c.n \in 1..Tip(c.round)
  PROVE  HoldOf(c) \in Hold /\ HoldOf(c).coin = c /\ HoldOf(c).at = passes[c.round][c.n]
<1>1. c.round \in Round /\ passes[c.round] \in Seq(Time)
  BY DEF Coin
<1>2. passes[c.round][c.n] \in Time
  BY <1>1 DEF Tip
<1>3. QED
  BY <1>2 DEF HoldOf, Hold

LEMMA CoinStep ==
  ASSUME NEW c \in Coin
  PROVE  /\ Successor(c) \in Coin /\ Successor(c).round = c.round /\ Successor(c).n = c.n + 1
         /\ c.n \in Nat \ {0} => Parent(c) \in Coin /\ Parent(c).round = c.round
                                /\ Parent(c).n = c.n - 1
BY DEF Coin, Successor, Parent

-----------------------------------------------------------------------------
(* The steps. *)

LEMMA InitInv == Init => IInv
<1> SUFFICES ASSUME Init PROVE IInv
  OBVIOUS
<1>1. passes \in [Round -> Seq(Time)]
  <2>1. \A n \in Nat : [1..n -> Time] \subseteq Seq(Time)
    OBVIOUS
  <2>2. 0..Default.n \subseteq Nat
    BY PotatoAssumption
  <2>3. UNION {[1..n -> Time] : n \in 0..Default.n} \subseteq Seq(Time)
    BY <2>1, <2>2
  <2>4. QED
    BY <2>3 DEF Init
<1>2. calm \in BOOLEAN
  BY Zenon DEF Init
<1>3. job.at = "idle" /\ cache = <<>> /\ over = {}
  BY DEF Init, Idle
<1>4. QED
  <2>1. Default.n <= Tip(Default.round)
    BY PotatoAssumption DEF Init, Tip
  <2>2. QED
    BY <1>1, <1>2, <1>3, <2>1, RunEmpty DEF IInv, TypeOK, JobOK, WalkInv

\* A step of the command that leaves the cache alone.
LEMMA LocalOK ==
  ASSUME IInv, UNCHANGED <<passes, over, cache, calm>>, JobOK', WalkInv'
  PROVE  IInv'
<1>1. calm' \in BOOLEAN
  <2>1. calm' = calm
    OBVIOUS
  <2>2. QED
    BY <2>1, Zenon DEF IInv, TypeOK
<1>2. TypeOK'
  BY <1>1 DEF IInv, TypeOK
<1>3. Run(cache, Default.round)'
  BY DEF IInv, Run, Tip
<1>4. QED
  BY <1>2, <1>3 DEF IInv, Tip

LEMMA StopOK ==
  ASSUME IInv, UNCHANGED <<passes, over, cache, calm>>, job' = Idle
  PROVE  IInv'
<1>1. job'.at = "idle"
  BY DEF Idle
<1>2. QED
  BY <1>1, LocalOK DEF JobOK, WalkInv

LEMMA BeginOK ==
  ASSUME IInv, NEW c \in Coin, c.n <= Tip(c.round), NEW cached \in Seq(Hold),
         UNCHANGED <<passes, over, cache, calm>>,
         job'.at = "forward", job'.cur = c, job'.found = <<>>, job'.cached = cached,
         job'.hop = 0, job'.given \in BOOLEAN, job'.holders \in Nat,
         ~job'.given => c.round = Default.round, Run(cached, c.round),
         cached # <<>> => cached[1].coin = c
  PROVE  IInv'
<1>1. <<>> \o cached = cached
  OBVIOUS
<1>2. JobOK'
  BY PotatoAssumption DEF JobOK, Tip
<1>3. WalkInv'
  BY <1>1 DEF WalkInv, Run, Tip
<1>4. QED
  BY <1>2, <1>3, LocalOK

\* The cached holds, read back, are a run as the cache is.
LEMMA FromJsonOK ==
  ASSUME NEW s \in Seq(HoldJson), NEW r, Run(s, r)
  PROVE  LET back == [i \in DOMAIN s |-> FromJson(s[i])] IN
         /\ back \in Seq(Hold) /\ Len(back) = Len(s) /\ Run(back, r)
         /\ \A i \in 1..Len(s) : back[i].coin = s[i].coin
<1> DEFINE back == [i \in DOMAIN s |-> FromJson(s[i])]
<1>1. DOMAIN s = 1..Len(s) /\ Len(s) \in Nat
  OBVIOUS
<1>2. ASSUME NEW i \in 1..Len(s)
      PROVE  FromJson(s[i]) \in Hold /\ FromJson(s[i]).coin = s[i].coin /\ FromJson(s[i]).at = s[i].at
  <2>1. s[i] \in HoldJson
    OBVIOUS
  <2>2. QED
    BY <2>1 DEF FromJson, Hold, HoldJson
<1>3. back \in Seq(Hold) /\ Len(back) = Len(s) /\ \A i \in 1..Len(s) : back[i] = FromJson(s[i])
  BY <1>1, <1>2
<1> HIDE DEF back
<1>4. \A i \in 1..Len(s) : back[i].coin = s[i].coin /\ back[i].at = s[i].at
  BY <1>2, <1>3
<1>5. Run(back, r)
  <2> SUFFICES ASSUME NEW i \in 1..Len(s)
               PROVE  /\ back[i].coin.round = r /\ back[i].coin.n \in 1..Tip(r)
                      /\ back[1].coin.n = back[i].coin.n + (i - 1)
                      /\ back[i].at = passes[r][back[i].coin.n]
    BY <1>3 DEF Run
  <2>1. 1 \in 1..Len(s)
    BY <1>1
  <2>2. QED
    BY <1>4, <2>1 DEF Run
<1>6. QED
  BY <1>3, <1>4, <1>5 DEF back

LEMMA BeginsOK ==
  ASSUME IInv, NEW k \in 0..MaxHolders,
         BeginCached(k) \/ \E r \in Round : \E n \in 0..Tip(r) : BeginGiven([round |-> r, n |-> n], k)
  PROVE  IInv'
<1>1. k \in Nat /\ Default \in Coin
  BY PotatoAssumption DEF Coin
<1>2. passes \in [Round -> Seq(Time)] /\ cache \in Seq(HoldJson) /\ Run(cache, Default.round)
  BY DEF IInv, TypeOK
<1>3. ASSUME NEW r \in Round, NEW n \in 0..Tip(r), BeginGiven([round |-> r, n |-> n], k)
      PROVE  IInv'
  <2>1. Tip(r) \in Nat
    BY <1>2 DEF Tip
  <2>2. [round |-> r, n |-> n] \in Coin /\ n <= Tip(r) /\ [round |-> r, n |-> n].round = r
    BY <2>1 DEF Coin
  <2>3. /\ job'.at = "forward" /\ job'.cur = [round |-> r, n |-> n] /\ job'.found = <<>>
        /\ job'.cached = <<>> /\ job'.hop = 0 /\ job'.given = TRUE /\ job'.holders = k
        /\ UNCHANGED <<passes, over, cache, calm>>
    BY <1>3 DEF BeginGiven, Begin
  <2>4. Run(<<>>, r) /\ <<>> \in Seq(Hold)
    BY RunEmpty
  <2>5. QED
    BY <1>1, <2>2, <2>3, <2>4, BeginOK
<1>4. CASE BeginCached(k) /\ cache = <<>>
  <2>1. /\ job'.at = "forward" /\ job'.cur = Default /\ job'.found = <<>>
        /\ job'.cached = <<>> /\ job'.hop = 0 /\ job'.given = FALSE /\ job'.holders = k
        /\ UNCHANGED <<passes, over, cache, calm>>
    BY <1>4 DEF BeginCached, Begin
  <2>2. Default.n <= Tip(Default.round)
    BY DEF IInv
  <2>3. Run(<<>>, Default.round) /\ <<>> \in Seq(Hold)
    BY RunEmpty
  <2>4. QED
    BY <1>1, <2>1, <2>2, <2>3, BeginOK
<1>5. CASE BeginCached(k) /\ cache # <<>>
  <2> DEFINE cached == [i \in DOMAIN cache |-> FromJson(cache[i])]
  <2>1. /\ job'.at = "forward" /\ job'.cur = cache[1].coin /\ job'.found = <<>>
        /\ job'.cached = cached /\ job'.hop = 0 /\ job'.given = FALSE /\ job'.holders = k
        /\ UNCHANGED <<passes, over, cache, calm>>
    BY <1>5 DEF BeginCached, Begin
  <2>2. /\ cached \in Seq(Hold) /\ Run(cached, Default.round)
        /\ \A i \in 1..Len(cache) : cached[i].coin = cache[i].coin
    BY <1>2, FromJsonOK
  <2> HIDE DEF cached
  <2>3. 1 \in 1..Len(cache) /\ cache[1] \in HoldJson
    BY <1>2, <1>5
  <2>4. /\ cached[1].coin = cache[1].coin /\ cache[1].coin \in Coin
        /\ cache[1].coin.round = Default.round /\ cache[1].coin.n \in 1..Tip(Default.round)
    BY <1>2, <2>2, <2>3 DEF HoldJson, Run
  <2>5. Tip(Default.round) \in Nat
    BY <1>1, <1>2 DEF Tip, Coin
  <2>6. cache[1].coin.n <= Tip(cache[1].coin.round)
    BY <2>4, <2>5
  <2>7. QED
    BY <1>1, <2>1, <2>2, <2>4, <2>6, BeginOK
<1>6. QED
  BY <1>3, <1>4, <1>5

LEMMA Prepend ==
  ASSUME NEW S, NEW x \in S, NEW f \in Seq(S), NEW c \in Seq(S)
  PROVE  f \o c \in Seq(S) /\ (<<x>> \o f) \o c = <<x>> \o (f \o c)
<1>1. <<x>> \in Seq(S)
  OBVIOUS
<1>2. (<<x>> \o f) \o c = <<x>> \o (f \o c)
  BY <1>1, ConcatAssociative
<1>3. QED
  BY <1>2

LEMMA ForwardOK == ASSUME IInv, Forward PROVE IInv'
<1> DEFINE next == Successor(job.cur)
           new == HoldOf(next)
           r == job.cur.round
<1>1. /\ job.at = "forward" /\ job.hop <= MaxHops /\ job.cur.n < Tip(r)
      /\ job' = [job EXCEPT !.cur = next, !.hop = job.hop + 1, !.found = <<new>> \o job.found]
      /\ UNCHANGED <<passes, over, cache, calm>>
  BY DEF Forward
<1>2. /\ job'.at = "forward" /\ job'.cur = next /\ job'.hop = job.hop + 1
      /\ job'.found = <<new>> \o job.found /\ job'.cached = job.cached
      /\ job'.given = job.given /\ job'.holders = job.holders
  BY <1>1
<1>3. /\ job.cur \in Coin /\ job.found \in Seq(Hold) /\ job.cached \in Seq(Hold) /\ job.hop \in Nat
      /\ job.given \in BOOLEAN /\ job.holders \in Nat
      /\ ~job.given => job.cur.round = Default.round
      /\ Run(job.found \o job.cached, r)
      /\ job.found \o job.cached # <<>> => (job.found \o job.cached)[1].coin = job.cur
      /\ passes \in [Round -> Seq(Time)]
  BY <1>1 DEF IInv, TypeOK, JobOK, WalkInv
<1>4. next \in Coin /\ next.round = r /\ next.n = job.cur.n + 1 /\ r \in Round /\ job.cur.n \in Nat
  BY <1>3, CoinStep DEF Coin
<1>5. Tip(r) \in Nat /\ next.n \in 1..Tip(r)
  BY <1>1, <1>3, <1>4 DEF Tip
<1>6. new \in Hold /\ new.coin = next /\ new.at = passes[r][next.n]
  BY <1>3, <1>4, <1>5, HoldOfOK
<1>7. job.found \o job.cached \in Seq(Hold)
      /\ (<<new>> \o job.found) \o job.cached = <<new>> \o (job.found \o job.cached)
  <2>1. job.found \in Seq(Hold) /\ job.cached \in Seq(Hold)
    BY <1>3
  <2>2. new \in Hold
    BY <1>6
  <2> HIDE DEF new
  <2>3. job.found \o job.cached \in Seq(Hold)
    BY <2>1, <2>2, Prepend
  <2>4. (<<new>> \o job.found) \o job.cached = <<new>> \o (job.found \o job.cached)
    <3>1. PICK f \in Seq(Hold), g \in Seq(Hold), h \in Hold :
            f = job.found /\ g = job.cached /\ h = new
      BY <2>1, <2>2
    <3>2. (<<h>> \o f) \o g = <<h>> \o (f \o g)
      BY Prepend
    <3>3. QED
      BY <3>1, <3>2
  <2>5. QED
    BY <2>3, <2>4
<1>8. Run(<<new>> \o (job.found \o job.cached), r)
  BY <1>3, <1>4, <1>5, <1>6, <1>7, RunNext
<1>9. (<<new>> \o (job.found \o job.cached))[1] = new /\ <<new>> \o job.found \in Seq(Hold)
  BY <1>3, <1>6, <1>7
<1> HIDE DEF next, new
<1>10. JobOK'
  <2>1. job'.cur \in Coin /\ job'.cur.n <= Len(passes'[job'.cur.round])
    BY <1>1, <1>2, <1>4, <1>5 DEF Tip
  <2>2. job'.found \in Seq(Hold) /\ job'.cached \in Seq(Hold)
    BY <1>2, <1>3, <1>9
  <2>3. job'.hop <= MaxHops + 1
    BY <1>1, <1>2, <1>3, PotatoAssumption
  <2>4. QED
    BY <1>2, <2>1, <2>2, <2>3 DEF JobOK, Tip
<1>11. Run(job.found \o job.cached, job.cur.round)'
  <2>1. job'.found \o job'.cached = <<new>> \o (job.found \o job.cached) /\ job'.cur.round = r
    BY <1>2, <1>4, <1>7
  <2>2. passes' = passes
    BY <1>1
  <2>3. QED
    BY <1>8, <2>1, <2>2 DEF Run, Tip
<1>12. WalkInv'
  <2>1. job'.hop \in Nat /\ job'.given \in BOOLEAN /\ job'.holders \in Nat
        /\ (~job'.given => job'.cur.round = Default.round)
    BY <1>2, <1>3, <1>4
  <2>2. (job'.found \o job'.cached)[1].coin = job'.cur
    BY <1>2, <1>6, <1>7, <1>9
  <2>3. QED
    BY <1>2, <1>11, <2>1, <2>2 DEF WalkInv
<1>13. QED
  BY <1>1, <1>10, <1>12, LocalOK

\* The walk turns, or looks no further, with what it has.
LEMMA TurnOK ==
  ASSUME IInv, UNCHANGED <<passes, over, cache, calm>>,
         job.at \in {"forward", "backward"},
         job'.at = (IF job.at = "forward" THEN "anchor" ELSE "walked"),
         job'.cur = job.cur, job'.hop = job.hop, job'.found = job.found,
         job'.cached = job.cached, job'.given = job.given, job'.holders = job.holders
  PROVE  IInv'
<1>1. JobOK'
  BY DEF IInv, TypeOK, JobOK, Tip
<1>2. WalkInv'
  BY DEF IInv, WalkInv, Run, Tip
<1>3. QED
  BY <1>1, <1>2, LocalOK

\* The backward walk begins, or goes on, with these holds.
LEMMA HoldsOK ==
  ASSUME IInv, UNCHANGED <<passes, over, cache, calm>>,
         job.at \in {"anchor", "backward"}, job'.at = "backward",
         job'.cur = job.cur, job'.hop \in {0, job.hop}, job'.cached = <<>>,
         job'.found \in Seq(Hold), Run(job'.found, job.cur.round),
         job'.found # <<>> => job'.found[1].coin = job.cur,
         job'.given = job.given, job'.holders = job.holders
  PROVE  IInv'
<1>1. job'.found \o job'.cached = job'.found
  OBVIOUS
<1>2. JobOK'
  BY PotatoAssumption DEF IInv, TypeOK, JobOK, Tip
<1>3. Run(job.found \o job.cached, job.cur.round)'
  BY <1>1 DEF Run, Tip
<1>4. WalkInv'
  <2>1. /\ job.given \in BOOLEAN /\ job.holders \in Nat /\ job.hop \in Nat
        /\ ~job.given => job.cur.round = Default.round
    BY DEF IInv, WalkInv
  <2>2. job'.hop \in Nat /\ job'.holders \in Nat
    BY <2>1
  <2>3. job'.given \in BOOLEAN /\ (~job'.given => job'.cur.round = Default.round)
    BY <2>1
  <2>4. job'.found \o job'.cached # <<>> => (job'.found \o job'.cached)[1].coin = job'.cur
    BY <1>1
  <2>5. QED
    BY <1>3, <2>2, <2>3, <2>4 DEF WalkInv
<1>5. QED
  BY <1>2, <1>4, LocalOK

LEMMA HoldForOK ==
  ASSUME passes \in [Round -> Seq(Time)], NEW c \in Coin, c.n <= Tip(c.round)
  PROVE  \/ HoldFor(c) = <<>> /\ c.n = 0
         \/ c.n \in 1..Tip(c.round) /\ HoldFor(c) = <<HoldOf(c)>>
<1>1. c.n \in Nat /\ c.round \in Round
  BY DEF Coin
<1>2. Tip(c.round) \in Nat
  BY <1>1 DEF Tip
<1>3. QED
  BY <1>1, <1>2 DEF HoldFor

LEMMA AnchorOK == ASSUME IInv, Anchor \/ AnchorMissing PROVE IInv'
<1> DEFINE holds == job.found \o job.cached
           r == job.cur.round
<1>1. /\ job.at = "anchor" /\ UNCHANGED <<passes, over, cache, calm>>
      /\ job.cur \in Coin /\ job.cur.n <= Tip(r) /\ job.found \in Seq(Hold) /\ job.cached \in Seq(Hold)
      /\ Run(holds, r) /\ (holds # <<>> => holds[1].coin = job.cur)
      /\ passes \in [Round -> Seq(Time)]
  BY DEF Anchor, AnchorMissing, IInv, TypeOK, JobOK, WalkInv
<1>2. holds \in Seq(Hold) /\ r \in Round
  BY <1>1 DEF Coin
<1>3. CASE Anchor /\ holds # <<>>
  <2>1. job' = [job EXCEPT !.at = "backward", !.hop = 0, !.cached = <<>>, !.found = holds]
    BY <1>3 DEF Anchor
  <2> HIDE DEF holds
  <2>2. QED
    BY <1>1, <1>2, <1>3, <2>1, HoldsOK
<1>4. CASE Anchor /\ holds = <<>>
  <2>1. job' = [job EXCEPT !.at = "backward", !.hop = 0, !.cached = <<>>, !.found = HoldFor(job.cur)]
    BY <1>4 DEF Anchor
  <2>2. CASE HoldFor(job.cur) = <<>>
    BY <1>1, <2>1, <2>2, RunEmpty, HoldsOK
  <2>3. CASE HoldFor(job.cur) # <<>>
    <3> DEFINE new == HoldOf(job.cur)
    <3>1. job.cur.n \in 1..Tip(r) /\ HoldFor(job.cur) = <<new>>
      BY <1>1, <2>3, HoldForOK
    <3>2. new \in Hold /\ new.coin = job.cur /\ new.at = passes[r][job.cur.n]
      BY <1>1, <3>1, HoldOfOK
    <3> HIDE DEF new
    <3>3. <<new>> \o <<>> = <<new>> /\ <<new>> \in Seq(Hold) /\ <<new>>[1] = new /\ <<>> \in Seq(Hold)
      BY <3>2
    <3>4. Run(<<new>> \o <<>>, r)
      BY <1>2, <3>1, <3>2, <3>3, RunEmpty, RunNext
    <3>5. QED
      BY <1>1, <2>1, <3>1, <3>2, <3>3, <3>4, HoldsOK
  <2>4. QED
    BY <2>2, <2>3
<1>5. CASE AnchorMissing
  <2>1. job' = [job EXCEPT !.at = "backward", !.hop = 0, !.whole = FALSE] /\ holds = <<>>
    BY <1>5 DEF AnchorMissing
  <2>2. job.found = <<>> /\ job.cached = <<>>
    BY <1>1, <2>1
  <2>3. /\ job'.at = "backward" /\ job'.hop = 0 /\ job'.found = <<>> /\ job'.cached = <<>>
        /\ job'.cur = job.cur /\ job'.given = job.given /\ job'.holders = job.holders
    BY <2>1, <2>2
  <2>4. Run(<<>>, r) /\ <<>> \in Seq(Hold)
    BY RunEmpty
  <2>5. QED
    BY <1>1, <2>3, <2>4, HoldsOK
<1>6. QED
  BY <1>3, <1>4, <1>5

LEMMA BackwardOK == ASSUME IInv, Backward PROVE IInv'
<1> DEFINE last == job.found[Len(job.found)]
           c == Parent(last.coin)
           r == job.cur.round
           more == HoldFor(c)
<1>1. /\ job.at = "backward" /\ UNCHANGED <<passes, over, cache, calm>> /\ job.found # <<>>
      /\ job.cur \in Coin /\ job.found \in Seq(Hold) /\ job.cached = <<>>
      /\ Run(job.found \o job.cached, r)
      /\ (job.found \o job.cached # <<>> => (job.found \o job.cached)[1].coin = job.cur)
      /\ passes \in [Round -> Seq(Time)]
  BY DEF Backward, MoreNeeded, IInv, TypeOK, JobOK, WalkInv
<1>2. job.found \o job.cached = job.found /\ r \in Round
  BY <1>1 DEF Coin
<1>3. job' = IF more = <<>> THEN [job EXCEPT !.at = "walked"]
                            ELSE [job EXCEPT !.found = job.found \o more]
  BY DEF Backward, Last
<1>4. Len(job.found) \in 1..Len(job.found) /\ last \in Hold /\ last.coin \in Coin
  <2>1. Len(job.found) \in 1..Len(job.found)
    BY <1>1
  <2>2. last \in Hold
    BY <1>1, <2>1
  <2>3. QED
    BY <2>1, <2>2 DEF Hold
<1>5. last.coin.round = r /\ last.coin.n \in 1..Tip(r)
  BY <1>1, <1>2, <1>4 DEF Run
<1>6. Tip(r) \in Nat
  BY <1>1, <1>2 DEF Tip
<1>7. c \in Coin /\ c.round = r /\ c.n = last.coin.n - 1 /\ c.n <= Tip(r) /\ last.coin.n \in Nat \ {0}
  <2>1. last.coin.n \in Nat \ {0}
    BY <1>5
  <2>2. QED
    BY <1>4, <1>5, <1>6, <2>1, CoinStep
<1>8. CASE more = <<>>
  <2>1. job' = [job EXCEPT !.at = "walked"]
    BY <1>3, <1>8
  <2>2. QED
    BY <1>1, <2>1, TurnOK
<1>9. CASE more # <<>>
  <2> DEFINE new == HoldOf(c)
  <2>1. more = <<new>> /\ c.n \in 1..Tip(r)
    BY <1>1, <1>7, <1>9, HoldForOK
  <2>2. new \in Hold /\ new.coin = c /\ new.at = passes[r][c.n]
    BY <1>1, <1>7, <2>1, HoldOfOK
  <2>3. job' = [job EXCEPT !.found = job.found \o <<new>>]
    BY <1>3, <1>9, <2>1
  <2> HIDE DEF new, more, c
  <2>4. new.coin.n + 1 = last.coin.n /\ new.coin.round = r
    BY <1>7, <2>2
  <2>5. Run(job.found \o <<new>>, r)
    BY <1>1, <1>2, <2>1, <2>2, <2>4, RunBefore
  <2>6. job.found \o <<new>> \in Seq(Hold) /\ (job.found \o <<new>>)[1] = job.found[1]
    BY <1>1, <2>2
  <2>7. job.found[1].coin = job.cur
    BY <1>1, <1>2
  <2>8. QED
    BY <1>1, <2>3, <2>5, <2>6, <2>7, HoldsOK
<1>10. QED
  BY <1>8, <1>9

\* What is written down is a run as what was found, cut short or not.
LEMMA SavedOK ==
  ASSUME NEW s \in Seq(Hold), NEW r, Run(s, r), NEW n \in Nat
  PROVE  LET kept == Truncate([i \in DOMAIN s |-> ToJson(s[i])], n) IN
         kept \in Seq(HoldJson) /\ Run(kept, r)
<1> DEFINE all == [i \in DOMAIN s |-> ToJson(s[i])]
           kept == Truncate(all, n)
<1>1. DOMAIN s = 1..Len(s) /\ Len(s) \in Nat
  OBVIOUS
<1>2. ASSUME NEW i \in 1..Len(s)
      PROVE  ToJson(s[i]) \in HoldJson /\ ToJson(s[i]).coin = s[i].coin /\ ToJson(s[i]).at = s[i].at
  <2>1. s[i] \in Hold
    OBVIOUS
  <2>2. QED
    BY <2>1 DEF ToJson, Hold, HoldJson
<1>3. all \in Seq(HoldJson) /\ Len(all) = Len(s) /\ \A i \in 1..Len(s) : all[i] = ToJson(s[i])
  BY <1>1, <1>2
<1> HIDE DEF all
<1>4. /\ kept \in Seq(HoldJson) /\ Len(kept) \in Nat /\ Len(kept) <= Len(s)
      /\ \A i \in 1..Len(kept) : kept[i] = all[i]
  BY <1>1, <1>3, TruncateOK
<1> HIDE DEF kept
<1>5. \A i \in 1..Len(kept) : i \in 1..Len(s) /\ kept[i].coin = s[i].coin /\ kept[i].at = s[i].at
  BY <1>1, <1>2, <1>3, <1>4
<1>6. Run(kept, r)
  <2> SUFFICES ASSUME NEW i \in 1..Len(kept)
               PROVE  /\ kept[i].coin.round = r /\ kept[i].coin.n \in 1..Tip(r)
                      /\ kept[1].coin.n = kept[i].coin.n + (i - 1)
                      /\ kept[i].at = passes[r][kept[i].coin.n]
    BY DEF Run
  <2>1. 1 \in 1..Len(kept)
    BY <1>4
  <2>2. QED
    BY <1>5, <2>1 DEF Run
<1>7. QED
  BY <1>4, <1>6 DEF kept, all

LEMMA RelinkedOK ==
  ASSUME NEW s \in Seq(Hold)
  PROVE  /\ Relinked(s) \in Seq(Hold) /\ Len(Relinked(s)) = Len(s)
         /\ \A i \in 1..Len(s) :
              Relinked(s)[i] = [coin |-> s[i].coin, at |-> s[i].at,
                                sold |-> IF i = 1 THEN Open ELSE s[i - 1].at]
<1>1. DOMAIN s = 1..Len(s) /\ Len(s) \in Nat
  OBVIOUS
<1>2. ASSUME NEW i \in 1..Len(s)
      PROVE  LET h == [s[i] EXCEPT !.sold = IF i = 1 THEN Open ELSE s[i - 1].at] IN
             /\ h \in Hold
             /\ h = [coin |-> s[i].coin, at |-> s[i].at, sold |-> IF i = 1 THEN Open ELSE s[i - 1].at]
  <2>1. s[i] \in Hold
    OBVIOUS
  <2>2. (IF i = 1 THEN Open ELSE s[i - 1].at) \in Time \cup {Open}
    <3>1. CASE i = 1
      BY <3>1
    <3>2. CASE i # 1
      <4>1. i - 1 \in 1..Len(s)
        BY <1>1, <3>2
      <4>2. s[i - 1] \in Hold
        BY <4>1
      <4>3. QED
        BY <3>2, <4>2 DEF Hold
    <3>3. QED
      BY <3>1, <3>2
  <2>3. QED
    BY <2>1, <2>2 DEF Hold
<1>3. DOMAIN Relinked(s) = 1..Len(s)
      /\ \A i \in 1..Len(s) :
           Relinked(s)[i] = [s[i] EXCEPT !.sold = IF i = 1 THEN Open ELSE s[i - 1].at]
  BY <1>1 DEF Relinked
<1>4. Relinked(s) = [i \in 1..Len(s) |-> Relinked(s)[i]]
  BY <1>1 DEF Relinked
<1> HIDE DEF Relinked
<1>5. \A i \in 1..Len(s) : Relinked(s)[i] \in Hold
  <2> TAKE i \in 1..Len(s)
  <2>1. [s[i] EXCEPT !.sold = IF i = 1 THEN Open ELSE s[i - 1].at] \in Hold
    BY <1>2
  <2>2. QED
    BY <1>3, <2>1
<1>6. Relinked(s) \in [1..Len(s) -> Hold]
  BY <1>4, <1>5
<1>7. Relinked(s) \in Seq(Hold) /\ Len(Relinked(s)) = Len(s)
  BY <1>1, <1>6
<1>8. QED
  BY <1>2, <1>3, <1>7

LEMMA ReportOK == ASSUME IInv, Report PROVE IInv'
<1>1. /\ job.at = "walked" /\ UNCHANGED <<passes, over, calm>> /\ job.found \in Seq(Hold)
      /\ job.given \in BOOLEAN /\ job.holders \in Nat
      /\ (~job.given => job.cur.round = Default.round)
      /\ Run(job.found \o job.cached, job.cur.round) /\ job.cached = <<>>
      /\ cache \in Seq(HoldJson) /\ Run(cache, Default.round)
  BY DEF Report, IInv, TypeOK, JobOK, WalkInv
<1>2. Run(job.found, job.cur.round)
  <2>1. job.found \o job.cached = job.found
    BY <1>1
  <2>2. QED
    BY <1>1, <2>1
<1>3. cache' \in Seq(HoldJson) /\ Run(cache', Default.round)
  <2>1. CASE job.given
    <3>1. cache' = cache
      BY <2>1 DEF Report, Saved
    <3>2. QED
      BY <1>1, <3>1
  <2>2. CASE ~job.given
    <3>1. cache' = Truncate([i \in DOMAIN job.found |-> ToJson(job.found[i])], CacheLimit(job.holders))
      BY <2>2 DEF Report, Saved
    <3>2. CacheLimit(job.holders) \in Nat
      BY <1>1, CacheLimitOK
    <3>3. Run(job.found, Default.round)
      BY <1>1, <1>2, <2>2
    <3>4. QED
      BY <1>1, <3>1, <3>2, <3>3, SavedOK
  <2>3. QED
    BY <2>1, <2>2
<1>4. job'.at = "shown" /\ job'.holds \in Seq(Hold)
  <2>1. job'.at = "shown" /\ job'.holds = Truncate(Relinked(job.found), job.holders + 1)
    BY DEF Report
  <2>2. Relinked(job.found) \in Seq(Hold) /\ job.holders + 1 \in Nat
    BY <1>1, RelinkedOK
  <2>3. QED
    BY <2>1, <2>2, TruncateOK
<1>5. calm' \in BOOLEAN
  <2>1. calm' = calm
    BY DEF Report
  <2>2. QED
    BY <2>1, Zenon DEF IInv, TypeOK
<1>6. TypeOK'
  BY <1>1, <1>3, <1>4, <1>5 DEF IInv, TypeOK, JobOK
<1>7. WalkInv'
  BY <1>4 DEF WalkInv
<1>8. Run(cache, Default.round)'
  BY <1>1, <1>3 DEF Run, Tip
<1>9. QED
  BY <1>1, <1>6, <1>7, <1>8 DEF IInv, Tip

\* The potato is passed on, the pot claimed, or the faults stop, mid-walk.
LEMMA GameOK ==
  ASSUME IInv, UNCHANGED <<cache, job>>, over' \subseteq Round, calm' \in BOOLEAN,
         passes' \in [Round -> Seq(Time)],
         \A q \in Round : passes'[q] = passes[q] \/ \E t \in Time : passes'[q] = Append(passes[q], t)
  PROVE  IInv'
<1>1. passes \in [Round -> Seq(Time)] /\ Default.round \in Round
  BY PotatoAssumption DEF IInv, TypeOK
<1>2. \A q \in Round : Len(passes[q]) \in Nat /\ Len(passes'[q]) \in Nat /\ Len(passes[q]) <= Len(passes'[q])
  BY <1>1
<1>3. JobOK'
  BY <1>2 DEF IInv, TypeOK, JobOK, Tip, Coin
<1>4. TypeOK'
  BY <1>3 DEF IInv, TypeOK
<1>5. Run(cache, Default.round)'
  <2>1. Run(cache, Default.round) /\ Len(cache) \in Nat
    BY DEF IInv, TypeOK
  <2>2. /\ \A i \in 1..Len(cache) :
               /\ cache[i].coin.round = Default.round
               /\ cache[i].coin.n \in 1..Len(passes'[Default.round])
               /\ cache[1].coin.n = cache[i].coin.n + (i - 1)
               /\ cache[i].at = passes'[Default.round][cache[i].coin.n]
    BY <1>1, <2>1, RunStays
  <2>3. cache' = cache
    OBVIOUS
  <2>4. QED
    BY <2>2, <2>3 DEF Run, Tip
<1>6. WalkInv'
  <2>1. CASE job.at \in {"forward", "anchor", "backward", "walked"}
    <3> DEFINE s == job.found \o job.cached
               r == job.cur.round
    <3>1. job.found \in Seq(Hold) /\ job.cached \in Seq(Hold) /\ job.cur \in Coin /\ Run(s, r)
      BY <2>1 DEF IInv, TypeOK, JobOK, WalkInv
    <3>2. s \in Seq(Hold)
      BY <3>1
    <3>3. r \in Round
      BY <3>1 DEF Coin
    <3> HIDE DEF s, r
    <3>4. Len(s) \in Nat
      BY <3>2
    <3>5. \A i \in 1..Len(s) :
            /\ s[i].coin.round = r /\ s[i].coin.n \in 1..Len(passes'[r])
            /\ s[1].coin.n = s[i].coin.n + (i - 1)
            /\ s[i].at = passes'[r][s[i].coin.n]
      <4>1. PICK u \in Seq(Hold), q \in Round : u = s /\ q = r
        BY <3>2, <3>3
      <4>2. Run(u, q) /\ Len(u) \in Nat
        BY <3>1, <3>4, <4>1
      <4>3. \A i \in 1..Len(u) :
              /\ u[i].coin.round = q /\ u[i].coin.n \in 1..Len(passes'[q])
              /\ u[1].coin.n = u[i].coin.n + (i - 1)
              /\ u[i].at = passes'[q][u[i].coin.n]
        <5>1. passes \in [Round -> Seq(Time)] /\ q \in Round
          BY <1>1, <4>1
        <5>2. QED
          BY <4>2, <5>1, RunStays, ZenonT(30)
      <4>4. QED
        BY <4>1, <4>3
    <3>6. job' = job
      OBVIOUS
    <3>7. Run(job.found \o job.cached, job.cur.round)'
      BY <3>5, <3>6 DEF Run, Tip, s, r
    <3>8. QED
      BY <3>6, <3>7 DEF IInv, WalkInv
  <2>2. CASE job.at \notin {"forward", "anchor", "backward", "walked"}
    BY <2>2 DEF WalkInv
  <2>3. QED
    BY <2>1, <2>2
<1>7. QED
  <2>1. Default.n <= Len(passes[Default.round])
    BY DEF IInv, Tip
  <2>2. Default.n \in Nat
    BY PotatoAssumption
  <2>3. Default.n <= Len(passes'[Default.round])
    BY <1>1, <1>2, <2>1, <2>2
  <2>4. (Default.n <= Tip(Default.round))'
    BY <2>3 DEF Tip
  <2>5. QED
    BY <1>4, <1>5, <1>6, <2>4 DEF IInv

LEMMA GamesOK == ASSUME IInv, (\E r \in Round : Pass(r) \/ Claim(r)) \/ Calm PROVE IInv'
<1>1. passes \in [Round -> Seq(Time)] /\ over \subseteq Round
  BY DEF IInv, TypeOK
<1>2. ASSUME NEW r \in Round, Pass(r) PROVE IInv'
  <2>1. PICK t \in Time : passes' = [passes EXCEPT ![r] = Append(@, t)]
    BY <1>2 DEF Pass
  <2>2. calm' \in BOOLEAN
    <3>1. calm' = calm
      BY <1>2 DEF Pass
    <3>2. QED
      BY <3>1, Zenon DEF IInv, TypeOK
  <2>3. passes' \in [Round -> Seq(Time)]
        /\ \A q \in Round : passes'[q] = passes[q] \/ passes'[q] = Append(passes[q], t)
    BY <1>1, <2>1
  <2>4. QED
    BY <1>1, <1>2, <2>2, <2>3, GameOK DEF Pass
<1>3. ASSUME NEW r \in Round, Claim(r) PROVE IInv'
  <2>1. calm' \in BOOLEAN
    <3>1. calm' = calm
      BY <1>3 DEF Claim
    <3>2. QED
      BY <3>1, Zenon DEF IInv, TypeOK
  <2>2. QED
    BY <1>1, <1>3, <2>1, GameOK DEF Claim
<1>4. ASSUME Calm PROVE IInv'
  <2>1. calm' \in BOOLEAN
    BY <1>4, Zenon DEF Calm
  <2>2. QED
    BY <1>1, <1>4, <2>1, GameOK DEF Calm
<1>5. QED
  BY <1>2, <1>3, <1>4

LEMMA NextInv == ASSUME IInv, [Next]_vars PROVE IInv'
<1>1. CASE ForwardEnds \/ ForwardMissing
  <2>1. /\ job.at = "forward" /\ UNCHANGED <<passes, over, cache, calm>>
        /\ \/ job' = [job EXCEPT !.at = "anchor", !.claim = job.cur.round \in over]
           \/ job' = [job EXCEPT !.at = "anchor", !.whole = FALSE]
    BY <1>1 DEF ForwardEnds, ForwardMissing
  <2>2. job'.at = "anchor" /\ job'.cur = job.cur /\ job'.hop = job.hop /\ job'.found = job.found
        /\ job'.cached = job.cached /\ job'.given = job.given /\ job'.holders = job.holders
    <3>1. CASE job' = [job EXCEPT !.at = "anchor", !.claim = job.cur.round \in over]
      BY <3>1
    <3>2. CASE job' = [job EXCEPT !.at = "anchor", !.whole = FALSE]
      BY <3>2
    <3>3. QED
      BY <2>1, <3>1, <3>2
  <2>3. QED
    BY <2>1, <2>2, TurnOK
<1>2. CASE BackwardEnds \/ BackwardMissing
  <2>1. /\ job.at = "backward" /\ UNCHANGED <<passes, over, cache, calm>>
        /\ \/ job' = [job EXCEPT !.at = "walked"]
           \/ job' = [job EXCEPT !.at = "walked", !.whole = FALSE]
    BY <1>2 DEF BackwardEnds, BackwardMissing
  <2>2. job'.at = "walked" /\ job'.cur = job.cur /\ job'.hop = job.hop /\ job'.found = job.found
        /\ job'.cached = job.cached /\ job'.given = job.given /\ job'.holders = job.holders
    <3>1. CASE job' = [job EXCEPT !.at = "walked"]
      BY <3>1
    <3>2. CASE job' = [job EXCEPT !.at = "walked", !.whole = FALSE]
      BY <3>2
    <3>3. QED
      BY <2>1, <3>1, <3>2
  <2>3. QED
    BY <2>1, <2>2, TurnOK
<1>3. CASE Refuse \/ Fail \/ Exit
  BY <1>3, StopOK DEF Refuse, Fail, Exit
<1>4. CASE UNCHANGED vars
  <2>1. calm' \in BOOLEAN
    BY <1>4, Zenon DEF vars, IInv, TypeOK
  <2>2. QED
    BY <1>4, <2>1, GameOK DEF vars, IInv, TypeOK
<1>5. QED
  BY <1>1, <1>2, <1>3, <1>4, BeginsOK, ForwardOK, AnchorOK, BackwardOK, ReportOK, GamesOK
  DEF Next, Walk

THEOREM Invariant == Spec => []IInv
BY InitInv, NextInv, PTL DEF Spec

\* Every variable keeps its shape, and a walk neither leaves the lineage nor
\* goes on past MAX_HOPS (potato.rs, refresh).
THEOREM TypeCorrect == Spec => []TypeOK
<1>1. IInv => TypeOK
  BY DEF IInv
<1>2. QED
  BY Invariant, <1>1, PTL

\* The cache is a run of the default round without gaps and true to the chain
\* (main.rs, cmd_potato): whatever was cached and cut off before, wherever the
\* walk stopped, and however the potato was passed on during it, the next
\* command may trust it.
THEOREM CacheIsTrue == Spec => []CacheIsLineage
<1>1. IInv => CacheIsLineage
  <2> SUFFICES ASSUME IInv, NEW i \in DOMAIN cache
               PROVE  /\ cache[i] = ToJson(HoldOf(cache[i].coin))
                      /\ cache[i].coin = [cache[1].coin EXCEPT !.n = cache[1].coin.n - (i - 1)]
                      /\ cache[i].coin.round = Default.round
    BY DEF CacheIsLineage
  <2>1. cache \in Seq(HoldJson) /\ Run(cache, Default.round)
    BY DEF IInv, TypeOK
  <2>2. i \in 1..Len(cache) /\ 1 \in 1..Len(cache)
    BY <2>1
  <2>3. cache[i] \in HoldJson /\ cache[1] \in HoldJson
    BY <2>1, <2>2
  <2>4. /\ cache[i].coin.round = Default.round /\ cache[1].coin.round = Default.round
        /\ cache[1].coin.n = cache[i].coin.n + (i - 1)
        /\ cache[i].at = passes[Default.round][cache[i].coin.n]
    BY <2>1, <2>2 DEF Run
  <2>5. cache[i].coin \in Coin /\ cache[1].coin \in Coin /\ cache[i].coin.n \in Nat
        /\ cache[1].coin.n \in Nat /\ i \in Nat
    BY <2>2, <2>3 DEF HoldJson, Coin
  <2>6. cache[i].coin.n = cache[1].coin.n - (i - 1)
    BY <2>4, <2>5
  <2>7. cache[i].coin = [cache[1].coin EXCEPT !.n = cache[1].coin.n - (i - 1)]
    BY <2>4, <2>5, <2>6 DEF Coin
  <2>8. cache[i] = ToJson(HoldOf(cache[i].coin))
    BY <2>3, <2>4 DEF HoldJson, ToJson, HoldOf
  <2>9. QED
    BY <2>4, <2>7, <2>8
<1>2. QED
  BY Invariant, <1>1, PTL

-----------------------------------------------------------------------------
(* What the report says. *)

\* The walk back found as many holders as were asked for, or the round's first.
Enough(s, h) == Len(s) > h \/ s[Len(s)].coin.n = 1

\* A claim that was seen is final; a walk that missed nothing has come at least
\* to where the potato was when it began, and back far enough.
SeenInv ==
  /\ job.at \in {"forward", "anchor", "backward", "walked"} =>
       /\ job.since \in Nat /\ job.since <= Tip(job.cur.round)
       /\ job.claim => job.cur.round \in over /\ job.cur.n = Tip(job.cur.round)
       /\ job.whole /\ job.at # "forward" => job.since <= job.cur.n
  /\ job.at = "walked" /\ job.whole /\ job.found # <<>> => Enough(job.found, job.holders)

\* The report is a run, linked, and stays true while it is shown.
ShownInv ==
  job.at = "shown" =>
    /\ job.round \in Round /\ job.holders \in Nat
    /\ job.holds # <<>> /\ Len(job.holds) <= job.holders + 1
    /\ Run(job.holds, job.round)
    /\ \A i \in 1..Len(job.holds) :
         job.holds[i].sold = IF i = 1 THEN Open ELSE job.holds[i - 1].at
    /\ job.whole => job.since <= job.holds[1].coin.n /\ Enough(job.holds, job.holders)
    /\ job.claim => job.round \in over /\ job.holds[1].coin.n = Tip(job.round)

RInv == IInv /\ SeenInv /\ ShownInv

LEMMA StopSeen == ASSUME job' = Idle PROVE SeenInv' /\ ShownInv'
<1>1. job'.at = "idle"
  BY DEF Idle
<1>2. QED
  BY <1>1 DEF SeenInv, ShownInv

LEMMA InitSeen == Init => SeenInv /\ ShownInv
<1> SUFFICES ASSUME Init PROVE SeenInv /\ ShownInv
  OBVIOUS
<1>1. job.at = "idle"
  BY DEF Init, Idle
<1>2. QED
  BY <1>1 DEF SeenInv, ShownInv

LEMMA BeginSeen ==
  ASSUME IInv, NEW k \in 0..MaxHolders,
         BeginCached(k) \/ \E r \in Round : \E n \in 0..Tip(r) : BeginGiven([round |-> r, n |-> n], k)
  PROVE  SeenInv' /\ ShownInv'
<1>1. /\ job'.at = "forward" /\ job'.cur \in Coin /\ job'.claim = FALSE
      /\ job'.since = Tip(job'.cur.round) /\ passes' = passes
  <2>1. ASSUME NEW r \in Round, NEW n \in 0..Tip(r), BeginGiven([round |-> r, n |-> n], k)
        PROVE  /\ job'.at = "forward" /\ job'.cur \in Coin /\ job'.claim = FALSE
               /\ job'.since = Tip(job'.cur.round) /\ passes' = passes
    <3>1. Tip(r) \in Nat
      BY DEF Tip, IInv, TypeOK
    <3>2. [round |-> r, n |-> n] \in Coin
      BY <3>1 DEF Coin
    <3>3. /\ job'.at = "forward" /\ job'.cur = [round |-> r, n |-> n] /\ job'.claim = FALSE
          /\ job'.since = Tip([round |-> r, n |-> n].round) /\ passes' = passes
      BY <2>1 DEF BeginGiven, Begin
    <3>4. QED
      BY <3>2, <3>3
  <2>2. CASE BeginCached(k) /\ cache = <<>>
    <3>1. Default \in Coin
      BY PotatoAssumption DEF Coin
    <3>2. /\ job'.at = "forward" /\ job'.cur = Default /\ job'.claim = FALSE
          /\ job'.since = Tip(Default.round) /\ passes' = passes
      BY <2>2 DEF BeginCached, Begin
    <3>3. QED
      BY <3>1, <3>2
  <2>3. CASE BeginCached(k) /\ cache # <<>>
    <3>1. cache[1].coin \in Coin
      <4>1. cache \in Seq(HoldJson)
        BY DEF IInv, TypeOK
      <4>2. 1 \in 1..Len(cache)
        BY <2>3, <4>1
      <4>3. cache[1] \in HoldJson
        BY <4>1, <4>2
      <4>4. QED
        BY <4>3 DEF HoldJson
    <3>2. /\ job'.at = "forward" /\ job'.cur = cache[1].coin /\ job'.claim = FALSE
          /\ job'.since = Tip(cache[1].coin.round) /\ passes' = passes
      BY <2>3 DEF BeginCached, Begin
    <3>3. QED
      BY <3>1, <3>2
  <2>4. CASE \E r \in Round : \E n \in 0..Tip(r) : BeginGiven([round |-> r, n |-> n], k)
    <3>1. PICK r \in Round : \E n \in 0..Tip(r) : BeginGiven([round |-> r, n |-> n], k)
      BY <2>4
    <3>2. PICK n \in 0..Tip(r) : BeginGiven([round |-> r, n |-> n], k)
      BY <3>1
    <3>3. QED
      BY <2>1, <3>2
  <2>5. QED
    BY <2>2, <2>3, <2>4
<1>2. Tip(job'.cur.round) \in Nat
  BY <1>1 DEF Coin, Tip, IInv, TypeOK
<1>3. SeenInv'
  BY <1>1, <1>2 DEF SeenInv, Tip
<1>4. ShownInv'
  BY <1>1 DEF ShownInv
<1>5. QED
  BY <1>3, <1>4

\* The walk goes on: it has not been at the tip yet, so it has seen no claim.
LEMMA ForwardSeen == ASSUME IInv, SeenInv, Forward PROVE SeenInv' /\ ShownInv'
<1>1. /\ job.at = "forward" /\ job.cur.n < Tip(job.cur.round) /\ passes' = passes
      /\ job'.at = "forward" /\ job'.cur = Successor(job.cur) /\ job'.claim = job.claim
      /\ job'.since = job.since
  BY DEF Forward
<1>2. job.cur \in Coin /\ job.cur.n \in Nat /\ Tip(job.cur.round) \in Nat
  BY <1>1 DEF IInv, TypeOK, JobOK, Coin, Tip
<1>3. job'.cur.round = job.cur.round
  BY <1>1, <1>2, CoinStep
<1>4. ~job.claim /\ job.since \in Nat /\ job.since <= Tip(job.cur.round)
  BY <1>1, <1>2 DEF SeenInv
<1>5. SeenInv'
  BY <1>1, <1>3, <1>4 DEF SeenInv, Tip
<1>6. ShownInv'
  BY <1>1 DEF ShownInv
<1>7. QED
  BY <1>5, <1>6

\* It ends at the tip, which is no older than when it began.
LEMMA ForwardEndsSeen ==
  ASSUME IInv, SeenInv, ForwardEnds \/ ForwardMissing
  PROVE  SeenInv' /\ ShownInv'
<1>1. job.at = "forward" /\ UNCHANGED <<passes, over>>
  BY DEF ForwardEnds, ForwardMissing
<1>2. /\ job.since \in Nat /\ job.since <= Tip(job.cur.round)
      /\ job.claim => job.cur.round \in over /\ job.cur.n = Tip(job.cur.round)
  BY <1>1 DEF SeenInv
<1>3. CASE ForwardEnds
  <2>1. /\ job'.at = "anchor" /\ job'.cur = job.cur /\ job'.since = job.since
        /\ job'.claim = (job.cur.round \in over) /\ job.cur.n = Tip(job.cur.round)
    BY <1>3 DEF ForwardEnds
  <2>2. SeenInv'
    BY <1>1, <1>2, <2>1 DEF SeenInv, Tip
  <2>3. QED
    BY <2>1, <2>2 DEF ShownInv
<1>4. CASE ForwardMissing
  <2>1. /\ job'.at = "anchor" /\ job'.cur = job.cur /\ job'.since = job.since
        /\ job'.claim = job.claim /\ job'.whole = FALSE
    BY <1>4 DEF ForwardMissing
  <2>2. SeenInv'
    BY <1>1, <1>2, <2>1 DEF SeenInv, Tip
  <2>3. QED
    BY <2>1, <2>2 DEF ShownInv
<1>5. QED
  BY <1>3, <1>4

\* The walk back changes neither the coin the walk came to nor what it has seen.
LEMMA BackSeen ==
  ASSUME SeenInv, UNCHANGED <<passes, over>>, job.at \in {"anchor", "backward"},
         job'.at \in {"backward", "walked"}, job'.cur = job.cur, job'.since = job.since,
         job'.claim = job.claim, job'.whole => job.whole,
         job'.at = "walked" /\ job'.whole /\ job'.found # <<>> => Enough(job'.found, job'.holders)
  PROVE  SeenInv' /\ ShownInv'
<1>1. SeenInv'
  BY DEF SeenInv, Tip, Enough
<1>2. ShownInv'
  BY DEF ShownInv
<1>3. QED
  BY <1>1, <1>2

LEMMA AnchorSeen == ASSUME SeenInv, Anchor \/ AnchorMissing PROVE SeenInv' /\ ShownInv'
<1>1. /\ UNCHANGED <<passes, over>> /\ job.at = "anchor" /\ job'.at = "backward"
      /\ job'.cur = job.cur /\ job'.since = job.since /\ job'.claim = job.claim
      /\ job'.whole => job.whole
  <2>1. CASE Anchor
    BY <2>1 DEF Anchor
  <2>2. CASE AnchorMissing
    BY <2>2 DEF AnchorMissing
  <2>3. QED
    BY <2>1, <2>2
<1>2. QED
  BY <1>1, BackSeen

\* The walk back ends where there are enough holders, where the first one of
\* the round is, or where a spend is missing.
LEMMA BackwardSeen ==
  ASSUME IInv, SeenInv, Backward \/ BackwardMissing \/ BackwardEnds
  PROVE  SeenInv' /\ ShownInv'
<1>1. /\ job.at = "backward" /\ UNCHANGED <<passes, over>>
      /\ job.found \in Seq(Hold) /\ job.holders \in Nat /\ job.cached = <<>>
      /\ Run(job.found \o job.cached, job.cur.round) /\ job.cur \in Coin
      /\ passes \in [Round -> Seq(Time)]
  BY DEF Backward, BackwardMissing, BackwardEnds, IInv, TypeOK, JobOK, WalkInv
<1>2. CASE BackwardMissing
  <2>1. /\ job'.at = "walked" /\ job'.whole = FALSE /\ job'.cur = job.cur
        /\ job'.since = job.since /\ job'.claim = job.claim
    BY <1>2 DEF BackwardMissing
  <2>2. QED
    BY <1>1, <2>1, BackSeen
<1>3. CASE BackwardEnds
  <2>1. /\ job'.at = "walked" /\ job'.whole = job.whole /\ job'.cur = job.cur
        /\ job'.since = job.since /\ job'.claim = job.claim
        /\ job'.found = job.found /\ job'.holders = job.holders
    BY <1>3 DEF BackwardEnds
  <2>2. job.found = <<>> \/ Len(job.found) > job.holders
    BY <1>1, <1>3 DEF BackwardEnds, MoreNeeded
  <2>3. QED
    BY <1>1, <2>1, <2>2, BackSeen DEF Enough
<1>4. CASE Backward
  <2> DEFINE last == job.found[Len(job.found)]
             more == HoldFor(Parent(last.coin))
  <2>1. job.found # <<>>
    BY <1>4 DEF Backward, MoreNeeded
  <2>2. job' = IF more = <<>> THEN [job EXCEPT !.at = "walked"]
                              ELSE [job EXCEPT !.found = job.found \o more]
    BY <1>4 DEF Backward, Last
  <2>3. CASE more # <<>>
    <3>1. job' = [job EXCEPT !.found = job.found \o more]
      BY <2>2, <2>3
    <3> HIDE DEF more
    <3>2. /\ job'.at = "backward" /\ job'.whole = job.whole /\ job'.cur = job.cur
          /\ job'.since = job.since /\ job'.claim = job.claim
      BY <1>1, <3>1
    <3>3. QED
      BY <1>1, <3>2, BackSeen
  <2>4. CASE more = <<>>
    <3>1. last.coin.n = 1
      <4>1. Len(job.found) \in 1..Len(job.found) /\ job.found \o job.cached = job.found
        BY <1>1, <2>1
      <4>2. last \in Hold /\ last.coin.n \in 1..Tip(job.cur.round) /\ last.coin.round = job.cur.round
        BY <1>1, <4>1 DEF Run
      <4>3. Tip(job.cur.round) \in Nat /\ last.coin \in Coin
        BY <1>1, <4>2 DEF Hold, Coin, Tip
      <4>4. /\ last.coin.n \in Nat \ {0} /\ Parent(last.coin) \in Coin
            /\ Parent(last.coin).round = job.cur.round /\ Parent(last.coin).n = last.coin.n - 1
        <5>1. last.coin.n \in Nat \ {0}
          BY <4>2
        <5>2. QED
          BY <4>2, <4>3, <5>1, CoinStep
      <4>5. Parent(last.coin).n <= Tip(Parent(last.coin).round)
        BY <4>2, <4>3, <4>4
      <4>6. Parent(last.coin).n = 0
        <5>1. <<HoldOf(Parent(last.coin))>> # <<>>
          OBVIOUS
        <5>2. QED
          BY <1>1, <2>4, <4>4, <4>5, <5>1, HoldForOK
      <4>7. QED
        BY <4>4, <4>6
    <3>2. job' = [job EXCEPT !.at = "walked"]
      BY <2>2, <2>4
    <3>3. /\ job'.at = "walked" /\ job'.whole = job.whole /\ job'.cur = job.cur
          /\ job'.since = job.since /\ job'.claim = job.claim
          /\ job'.found = job.found /\ job'.holders = job.holders
      BY <3>2
    <3>4. QED
      BY <1>1, <3>1, <3>3, BackSeen DEF Enough
  <2>5. QED
    BY <2>3, <2>4
<1>5. QED
  BY <1>2, <1>3, <1>4

\* The report, linked and cut to what was asked for.
LEMMA ReportSeen == ASSUME IInv, SeenInv, Report PROVE SeenInv' /\ ShownInv'
<1> DEFINE s == job.found
           h == job.holders
           linked == Relinked(s)
           shown == Truncate(linked, h + 1)
<1>1. /\ job.at = "walked" /\ UNCHANGED <<passes, over>> /\ s # <<>> /\ s \in Seq(Hold)
      /\ h \in Nat /\ job.cached = <<>> /\ job.cur \in Coin
      /\ Run(s \o job.cached, job.cur.round)
      /\ (s \o job.cached # <<>> => (s \o job.cached)[1].coin = job.cur)
      /\ job.since \in Nat
      /\ job.claim => job.cur.round \in over /\ job.cur.n = Tip(job.cur.round)
      /\ job.whole => job.since <= job.cur.n
      /\ job.whole => Enough(s, h)
  BY DEF Report, IInv, TypeOK, JobOK, WalkInv, SeenInv
<1>2. s \o job.cached = s /\ job.cur.round \in Round /\ Len(s) \in Nat \ {0}
  BY <1>1 DEF Coin
<1>3. Run(s, job.cur.round) /\ s[1].coin = job.cur
  BY <1>1, <1>2
<1>4. /\ job'.at = "shown" /\ job'.round = job.cur.round /\ job'.holders = h
      /\ job'.claim = job.claim /\ job'.since = job.since /\ job'.whole = job.whole
      /\ job'.holds = shown
  BY DEF Report
<1>5. /\ linked \in Seq(Hold) /\ Len(linked) = Len(s)
      /\ \A i \in 1..Len(s) :
           linked[i] = [coin |-> s[i].coin, at |-> s[i].at, sold |-> IF i = 1 THEN Open ELSE s[i - 1].at]
  BY <1>1, RelinkedOK
<1> HIDE DEF linked
<1>6. /\ shown \in Seq(Hold)
      /\ Len(shown) = (IF h + 1 <= Len(s) THEN h + 1 ELSE Len(s))
      /\ \A i \in 1..Len(shown) : shown[i] = linked[i]
  BY <1>1, <1>5, TruncateOK
<1> HIDE DEF shown
<1>7. /\ Len(shown) \in 1..Len(s) /\ Len(shown) <= h + 1 /\ shown # <<>>
      /\ \A i \in 1..Len(shown) : i \in 1..Len(s)
  BY <1>1, <1>2, <1>6
<1>8. \A i \in 1..Len(shown) :
        /\ shown[i].coin = s[i].coin /\ shown[i].at = s[i].at
        /\ shown[i].sold = IF i = 1 THEN Open ELSE s[i - 1].at
  <2> SUFFICES ASSUME NEW i \in 1..Len(shown)
               PROVE  /\ shown[i].coin = s[i].coin /\ shown[i].at = s[i].at
                      /\ shown[i].sold = IF i = 1 THEN Open ELSE s[i - 1].at
    OBVIOUS
  <2>1. shown[i] = [coin |-> s[i].coin, at |-> s[i].at,
                    sold |-> IF i = 1 THEN Open ELSE s[i - 1].at]
    BY <1>5, <1>6, <1>7
  <2> HIDE DEF s
  <2>2. QED
    BY <2>1
<1>9. Run(shown, job.cur.round)
  <2> SUFFICES ASSUME NEW i \in 1..Len(shown)
               PROVE  /\ shown[i].coin.round = job.cur.round
                      /\ shown[i].coin.n \in 1..Tip(job.cur.round)
                      /\ shown[1].coin.n = shown[i].coin.n + (i - 1)
                      /\ shown[i].at = passes[job.cur.round][shown[i].coin.n]
    BY DEF Run
  <2>1. 1 \in 1..Len(shown)
    BY <1>7
  <2>2. QED
    BY <1>3, <1>7, <1>8, <2>1 DEF Run
<1>10. \A i \in 1..Len(shown) : shown[i].sold = IF i = 1 THEN Open ELSE shown[i - 1].at
  <2> SUFFICES ASSUME NEW i \in 1..Len(shown), i # 1 PROVE shown[i].sold = shown[i - 1].at
    BY <1>8
  <2>1. i - 1 \in 1..Len(shown)
    BY <1>7
  <2>2. QED
    BY <1>8, <2>1
<1>11. shown[1].coin = job.cur
  <2>1. 1 \in 1..Len(shown)
    BY <1>7
  <2>2. QED
    BY <1>3, <1>8, <2>1
<1>12. Enough(s, h) => Enough(shown, h)
  <2>1. CASE Len(s) > h
    BY <1>1, <1>2, <1>6, <2>1 DEF Enough
  <2>2. CASE ~(Len(s) > h)
    <3>1. Len(shown) = Len(s)
      BY <1>1, <1>2, <1>6, <2>2
    <3>2. shown[Len(shown)].coin = s[Len(s)].coin
      BY <1>7, <1>8, <3>1
    <3>3. QED
      BY <2>2, <3>2 DEF Enough
  <2>3. QED
    BY <2>1, <2>2
<1>13. ShownInv'
  <2>1. Run(job.holds, job.round)'
    BY <1>1, <1>4, <1>9 DEF Run, Tip
  <2>2. /\ job'.round \in Round /\ job'.holders \in Nat
        /\ job'.holds # <<>> /\ Len(job'.holds) <= job'.holders + 1
        /\ \A i \in 1..Len(job'.holds) :
             job'.holds[i].sold = IF i = 1 THEN Open ELSE job'.holds[i - 1].at
    BY <1>1, <1>2, <1>4, <1>7, <1>10
  <2>3. job'.whole => job'.since <= job'.holds[1].coin.n /\ Enough(job'.holds, job'.holders)
    BY <1>1, <1>4, <1>11, <1>12
  <2>4. job'.claim => job'.round \in over' /\ job'.holds[1].coin.n = Tip(job.round)'
    <3>1. Tip(job.round)' = Tip(job.cur.round)
      BY <1>1, <1>4 DEF Tip
    <3>2. QED
      BY <1>1, <1>4, <1>11, <3>1
  <2>5. QED
    BY <1>4, <2>1, <2>2, <2>3, <2>4 DEF ShownInv, Enough
<1>14. SeenInv'
  BY <1>4 DEF SeenInv
<1>15. QED
  BY <1>13, <1>14

\* The potato is passed on, or the pot claimed, while the command runs: a round
\* that was claimed is passed on no more.
LEMMA GameSeen ==
  ASSUME IInv, SeenInv, ShownInv, (\E r \in Round : Pass(r) \/ Claim(r)) \/ Calm \/ UNCHANGED vars
  PROVE  SeenInv' /\ ShownInv'
<1>1. passes \in [Round -> Seq(Time)]
  BY DEF IInv, TypeOK
<1>2. /\ job' = job /\ over \subseteq over'
      /\ \A q \in Round : \/ passes'[q] = passes[q]
                          \/ q \notin over /\ \E t \in Time : passes'[q] = Append(passes[q], t)
  <2>1. ASSUME NEW r \in Round, Pass(r)
        PROVE  /\ job' = job /\ over \subseteq over'
               /\ \A q \in Round : \/ passes'[q] = passes[q]
                                   \/ q \notin over /\ \E t \in Time : passes'[q] = Append(passes[q], t)
    BY <1>1, <2>1 DEF Pass
  <2>2. ASSUME (\E r \in Round : Claim(r)) \/ Calm \/ UNCHANGED vars
        PROVE  job' = job /\ over \subseteq over' /\ passes' = passes
    BY <2>2 DEF Claim, Calm, vars
  <2>3. QED
    BY <2>1, <2>2
<1>3. \A q \in Round : /\ Tip(q) \in Nat /\ Len(passes'[q]) \in Nat /\ Tip(q) <= Len(passes'[q])
                       /\ q \in over => Len(passes'[q]) = Tip(q)
  BY <1>1, <1>2 DEF Tip
<1>4. SeenInv'
  <2>1. CASE job.at \in {"forward", "anchor", "backward", "walked"}
    <3>1. job.cur.round \in Round
      BY <2>1 DEF IInv, TypeOK, JobOK, Coin
    <3>2. /\ job.since \in Nat /\ job.since <= Len(passes'[job.cur.round])
          /\ job.claim => job.cur.round \in over' /\ job.cur.n = Len(passes'[job.cur.round])
      BY <1>2, <1>3, <2>1, <3>1 DEF SeenInv
    <3>3. QED
      BY <1>2, <2>1, <3>2 DEF SeenInv, Tip, Enough
  <2>2. CASE job.at \notin {"forward", "anchor", "backward", "walked"}
    BY <1>2, <2>2 DEF SeenInv
  <2>3. QED
    BY <2>1, <2>2
<1>5. ShownInv'
  <2>1. CASE job.at = "shown"
    <3> DEFINE s == job.holds
               r == job.round
    <3>1. /\ r \in Round /\ job.holders \in Nat /\ s # <<>> /\ Len(s) <= job.holders + 1
          /\ Run(s, r)
          /\ \A i \in 1..Len(s) : s[i].sold = IF i = 1 THEN Open ELSE s[i - 1].at
          /\ job.whole => job.since <= s[1].coin.n /\ Enough(s, job.holders)
          /\ job.claim => r \in over /\ s[1].coin.n = Tip(r)
      BY <2>1 DEF ShownInv
    <3>2. s \in Seq(Hold) /\ Len(s) \in Nat
      BY <2>1 DEF IInv, TypeOK, JobOK
    <3> HIDE DEF s, r
    <3>3. passes' \in [Round -> Seq(Time)]
      <4>1. ASSUME NEW q \in Round, Pass(q) PROVE passes' \in [Round -> Seq(Time)]
        BY <1>1, <4>1 DEF Pass
      <4>2. QED
        BY <1>1, <4>1 DEF Claim, Calm, vars
    <3>4. \A i \in 1..Len(s) :
            /\ s[i].coin.round = r /\ s[i].coin.n \in 1..Len(passes'[r])
            /\ s[1].coin.n = s[i].coin.n + (i - 1)
            /\ s[i].at = passes'[r][s[i].coin.n]
      <4>1. \A q \in Round : passes'[q] = passes[q] \/ \E t \in Time : passes'[q] = Append(passes[q], t)
        BY <1>2
      <4>2. PICK u \in Seq(Hold), q \in Round : u = s /\ q = r
        BY <3>1, <3>2
      <4>3. Run(u, q) /\ Len(u) \in Nat
        BY <3>1, <3>2, <4>2
      <4>4. \A i \in 1..Len(u) :
              /\ u[i].coin.round = q /\ u[i].coin.n \in 1..Len(passes'[q])
              /\ u[1].coin.n = u[i].coin.n + (i - 1)
              /\ u[i].at = passes'[q][u[i].coin.n]
        BY <1>1, <3>3, <4>1, <4>3, RunStays, ZenonT(30)
      <4>5. QED
        BY <4>2, <4>4
    <3>5. job.claim => r \in over' /\ s[1].coin.n = Len(passes'[r])
      BY <1>2, <1>3, <3>1
    <3>6. job' = job
      BY <1>2
    <3>7. Run(job.holds, job.round)'
      BY <3>4, <3>6 DEF Run, Tip, s, r
    <3>8. QED
      BY <3>1, <3>5, <3>6, <3>7 DEF ShownInv, Enough, Tip, s, r
  <2>2. CASE job.at # "shown"
    BY <1>2, <2>2 DEF ShownInv
  <2>3. QED
    BY <2>1, <2>2
<1>6. QED
  BY <1>4, <1>5

LEMMA NextSeen == ASSUME IInv, SeenInv, ShownInv, [Next]_vars PROVE SeenInv' /\ ShownInv'
<1>1. CASE Refuse \/ Fail \/ Exit
  BY <1>1, StopSeen DEF Refuse, Fail, Exit
<1>2. CASE (\E r \in Round : Pass(r) \/ Claim(r)) \/ Calm \/ UNCHANGED vars
  BY <1>2, GameSeen
<1>3. QED
  BY <1>1, <1>2, BeginSeen, ForwardSeen, ForwardEndsSeen, AnchorSeen, BackwardSeen, ReportSeen
  DEF Next, Walk

THEOREM Seen == Spec => []RInv
<1>1. Init => RInv
  BY InitInv, InitSeen DEF RInv
<1>2. RInv /\ [Next]_vars => RInv'
  BY NextInv, NextSeen DEF RInv
<1>3. QED
  BY <1>1, <1>2, PTL DEF Spec

LEMMA MinOK ==
  ASSUME NEW a \in Nat, NEW b \in Nat
  PROVE  Min({a, b}) = IF a <= b THEN a ELSE b
<1> DEFINE k == IF a <= b THEN a ELSE b
<1>1. k \in {a, b} /\ \A y \in {a, b} : k <= y
  OBVIOUS
<1>2. \A x \in {a, b} : (\A y \in {a, b} : x <= y) => x = k
  OBVIOUS
<1>3. QED
  BY <1>1, <1>2 DEF Min

\* The report is what one look at the round shows, at a moment since the command
\* began: whatever the cache held and the limits cut off, however the potato
\* was passed on or claimed during the walk, and wherever a spend was missing
\* (potato.rs, refresh and relink).
THEOREM ReportIsTrue == Spec => []ReportIsReading
<1>1. RInv => ReportIsReading
  <2> SUFFICES ASSUME RInv, job.at = "shown"
               PROVE  LET n == job.holds[1].coin.n
                          reading == Reading(job.round, n, job.holders) IN
                      /\ IsPrefix(job.holds, reading)
                      /\ job.whole => n >= job.since /\ job.holds = reading
                      /\ job.claim => job.round \in over /\ n = Tip(job.round)
    BY DEF ReportIsReading
  <2> DEFINE s == job.holds
             r == job.round
             h == job.holders
             n == s[1].coin.n
             reading == Reading(r, n, h)
  <2>1. /\ r \in Round /\ h \in Nat /\ s # <<>> /\ Len(s) <= h + 1 /\ Run(s, r)
        /\ \A i \in 1..Len(s) : s[i].sold = IF i = 1 THEN Open ELSE s[i - 1].at
        /\ job.whole => job.since <= n /\ Enough(s, h)
        /\ job.claim => r \in over /\ n = Tip(r)
    BY DEF RInv, ShownInv
  <2>2. s \in Seq(Hold) /\ passes \in [Round -> Seq(Time)]
    BY DEF RInv, IInv, TypeOK, JobOK
  <2>3. Tip(r) \in Nat /\ Len(s) \in Nat \ {0} /\ 1 \in 1..Len(s) /\ Len(s) \in 1..Len(s)
    BY <2>1, <2>2 DEF Tip
  <2>4. \A i \in 1..Len(s) : /\ s[i] \in Hold /\ s[i].coin = [round |-> r, n |-> n + 1 - i]
                             /\ s[i].coin.n \in Nat \ {0} /\ s[i].coin.n = n + 1 - i
                             /\ s[i].at = passes[r][n + 1 - i]
    <3> SUFFICES ASSUME NEW i \in 1..Len(s)
                 PROVE  /\ s[i] \in Hold /\ s[i].coin = [round |-> r, n |-> n + 1 - i]
                        /\ s[i].coin.n \in Nat \ {0} /\ s[i].coin.n = n + 1 - i
                        /\ s[i].at = passes[r][n + 1 - i]
      OBVIOUS
    <3>1. s[i] \in Hold /\ s[1] \in Hold
      BY <2>2, <2>3
    <3>2. /\ s[i].coin.round = r /\ s[i].coin.n \in 1..Tip(r) /\ n = s[i].coin.n + (i - 1)
          /\ s[i].at = passes[r][s[i].coin.n]
      BY <2>1 DEF Run
    <3>3. s[i].coin \in Coin /\ s[i].coin.n \in Nat \ {0} /\ n \in Nat /\ i \in Nat
      <4>1. s[i].coin \in Coin /\ s[1].coin \in Coin
        BY <3>1 DEF Hold
      <4>2. s[1].coin.n \in Nat
        BY <4>1 DEF Coin
      <4>3. QED
        BY <2>3, <3>2, <4>1, <4>2
    <3>4. s[i].coin.n = n + 1 - i
      <4>1. \A a, b, j \in Nat : a = b + (j - 1) => b = a + 1 - j
        OBVIOUS
      <4>2. QED
        BY <3>2, <3>3, <4>1, Zenon
    <3>5. s[i].coin = [round |-> r, n |-> n + 1 - i]
      BY <3>2, <3>3, <3>4 DEF Coin
    <3>6. QED
      BY <3>1, <3>2, <3>3, <3>4, <3>5
  <2> HIDE DEF s, r, h, n
  <2>5. n \in Nat /\ Len(s) <= n
    <3>1. s[1].coin.n \in Nat
      BY <2>3, <2>4
    <3>2. n + 1 - Len(s) \in Nat \ {0}
      BY <2>3, <2>4
    <3>3. QED
      BY <2>3, <3>1, <3>2 DEF n
  <2>6. \A i \in 1..Len(s) :
          s[i] = [coin |-> [round |-> r, n |-> n + 1 - i], at |-> passes[r][n + 1 - i],
                  sold |-> IF i = 1 THEN Open ELSE passes[r][n + 2 - i]]
    <3> SUFFICES ASSUME NEW i \in 1..Len(s)
                 PROVE  s[i] = [coin |-> [round |-> r, n |-> n + 1 - i], at |-> passes[r][n + 1 - i],
                                sold |-> IF i = 1 THEN Open ELSE passes[r][n + 2 - i]]
      OBVIOUS
    <3>1. s[i].sold = IF i = 1 THEN Open ELSE passes[r][n + 2 - i]
      <4>1. CASE i = 1
        BY <2>1, <4>1 DEF s
      <4>2. CASE i # 1
        <5>1. i - 1 \in 1..Len(s) /\ s[i].sold = s[i - 1].at
          BY <2>1, <2>3, <4>2 DEF s
        <5>2. s[i - 1].at = passes[r][n + 1 - (i - 1)]
          <6>1. PICK j \in 1..Len(s) : j = i - 1
            BY <5>1
          <6>2. s[j].at = passes[r][n + 1 - j]
            BY <2>4
          <6>3. QED
            BY <6>1, <6>2
        <5>3. n + 1 - (i - 1) = n + 2 - i
          BY <2>3, <2>5
        <5>4. QED
          BY <4>2, <5>1, <5>2, <5>3
      <4>3. QED
        BY <4>1, <4>2
    <3>2. s[i] \in Hold /\ s[i].coin = [round |-> r, n |-> n + 1 - i] /\ s[i].at = passes[r][n + 1 - i]
      BY <2>4
    <3>3. s[i] = [coin |-> s[i].coin, at |-> s[i].at, sold |-> s[i].sold]
      BY <3>2 DEF Hold
    <3>4. QED
      BY <3>1, <3>2, <3>3
  <2>7. /\ DOMAIN reading = 1..(IF n <= h + 1 THEN n ELSE h + 1)
        /\ \A i \in DOMAIN reading :
             reading[i] = [coin |-> [round |-> r, n |-> n + 1 - i], at |-> passes[r][n + 1 - i],
                           sold |-> IF i = 1 THEN Open ELSE passes[r][n + 2 - i]]
        /\ reading = [i \in DOMAIN reading |-> reading[i]]
    <3>1. h \in Nat
      BY <2>1 DEF h
    <3>2. Min({n, h + 1}) = IF n <= h + 1 THEN n ELSE h + 1
      BY <2>5, <3>1, MinOK
    <3>3. QED
      BY <3>2 DEF Reading
  <2>8. Len(reading) = (IF n <= h + 1 THEN n ELSE h + 1) /\ Len(s) <= Len(reading)
    <3>1. h \in Nat /\ Len(s) <= h + 1
      BY <2>1 DEF h, s
    <3>2. (IF n <= h + 1 THEN n ELSE h + 1) \in Nat
      BY <2>5, <3>1
    <3>3. Len(reading) = IF n <= h + 1 THEN n ELSE h + 1
      BY <2>7, <3>2
    <3>4. QED
      BY <2>5, <3>1, <3>3
  <2>9. \A i \in 1..Len(s) : s[i] = reading[i]
    <3> SUFFICES ASSUME NEW i \in 1..Len(s) PROVE s[i] = reading[i]
      OBVIOUS
    <3> HIDE DEF reading
    <3>1. DOMAIN reading = 1..Len(reading) /\ Len(reading) \in Nat
      <4>1. h + 1 \in Nat
        BY <2>1 DEF h
      <4>2. QED
        BY <2>5, <2>7, <2>8, <4>1
    <3>2. i \in DOMAIN reading
      BY <2>3, <2>8, <3>1
    <3>3. QED
      BY <2>6, <2>7, <3>2
  <2> HIDE DEF reading
  <2>10. IsPrefix(s, reading)
    <3>1. SubSeq(s, 1, Len(s)) = SubSeq(reading, 1, Len(s))
      BY <2>3, <2>9
    <3>2. QED
      BY <2>8, <3>1 DEF IsPrefix
  <2>11. Enough(s, h) => s = reading
    <3>1. Enough(s, h) => Len(s) = Len(reading)
      <4>1. h \in Nat /\ Len(s) <= h + 1
        BY <2>1 DEF h, s
      <4>2. s[Len(s)].coin.n = n + 1 - Len(s)
        BY <2>3, <2>4
      <4>3. QED
        BY <2>3, <2>5, <2>8, <4>1, <4>2 DEF Enough
    <3>2. s \in Seq(Hold) /\ s = [i \in 1..Len(s) |-> s[i]]
      BY <2>2 DEF s
    <3>3. Len(s) = Len(reading) => DOMAIN reading = 1..Len(s)
      BY <2>7, <2>8
    <3>4. QED
      BY <2>7, <2>9, <3>1, <3>2, <3>3
  <2>12. job.whole => n >= job.since /\ s = reading
    <3>1. job.whole => job.since <= n
      BY <2>1 DEF n, s
    <3>2. job.whole => Enough(s, h)
      BY <2>1 DEF s, h
    <3>3. QED
      BY <2>11, <3>1, <3>2
  <2>13. job.claim => r \in over /\ n = Tip(r)
    BY <2>1 DEF r, n, s
  <2>14. QED
    BY <2>10, <2>12, <2>13 DEF s, r, h, n, reading
<1>2. QED
  BY Seen, <1>1, PTL
=============================================================================
