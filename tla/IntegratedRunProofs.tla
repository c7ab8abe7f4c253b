------------------------- MODULE IntegratedRunProofs -------------------------
(***************************************************************************)
(* Proofs about the integrated run.  For all payloads whose numbers are    *)
(* numbers or NaN the run's choices are the best ones, and a Marble        *)
(* verifies exactly if its core is the one that was minted.                *)
(***************************************************************************)
EXTENDS IntegratedRun, WellFoundedInduction, TLAPS

-----------------------------------------------------------------------------
(* Numbers                                                                 *)

LessOnNat == OpToRel(<, Nat)

\* A set of numbers that is not empty has a least element.
LEMMA LeastExists ==
  ASSUME NEW S \in SUBSET Nat, S # {}
  PROVE  \E m \in S : \A n \in S : m <= n
<1>1. IsWellFoundedOn(LessOnNat, Nat)
  BY NatLessThanWellFounded DEF LessOnNat
<1>2. PICK m \in S : \A n \in S : <<n, m>> \notin LessOnNat
  BY <1>1, WFMin
<1>3. ASSUME NEW n \in S PROVE m <= n
  <2>1. <<n, m>> \in LessOnNat <=> n < m
    BY DEF LessOnNat, OpToRel
  <2> QED BY <2>1, <1>2
<1> QED BY <1>3

Number == Int \union {NaN}
Profiles == [workers : Int, seconds : Number]
Candidates == [id : Int, quality : Number, cost : Number,
               evidence : {"supplied", "measured", "bare"}]

\* What holds of 0 and with each number of the next one, up to n.
LEMMA Reached ==
  ASSUME NEW n \in Nat, NEW S, 0 \in S,
         \A k \in 1 .. n : k - 1 \in S => k \in S
  PROVE  \A k \in 0 .. n : k \in S
<1> DEFINE Rest == {k \in 0 .. n : k \notin S}
<1> SUFFICES ASSUME Rest # {} PROVE FALSE
  OBVIOUS
<1>1. Rest \in SUBSET Nat
  OBVIOUS
<1>2. PICK k \in Rest : \A m \in Rest : k <= m
  BY <1>1, LeastExists
<1>3. k \in 1 .. n /\ k - 1 \in 0 .. n /\ ~(k <= k - 1)
  BY <1>2
<1> QED
  BY <1>2, <1>3

\* A step from place to place, whatever it does, can be taken from the first to
\* the last.
LEMMA StepsAdd ==
  ASSUME NEW n \in Nat, NEW step \in [(1 .. n) \X (0 .. n) -> 0 .. n]
  PROVE  \E f \in [0 .. n -> 0 .. n] :
           f[0] = 0 /\ \A i \in 1 .. n : f[i] = step[<<i, f[i - 1]>>]
<1> DEFINE Upto(k) == \E f \in [0 .. n -> 0 .. n] :
                        f[0] = 0 /\ \A i \in 1 .. k : f[i] = step[<<i, f[i - 1]>>]
           S == {k \in 0 .. n : Upto(k)}
<1>1. Upto(0)
  <2> DEFINE f == [i \in 0 .. n |-> 0]
  <2>1. f \in [0 .. n -> 0 .. n] /\ f[0] = 0
    OBVIOUS
  <2>2. 1 .. 0 = {}
    OBVIOUS
  <2> HIDE DEF f
  <2> QED
    BY <2>1, <2>2
<1>2. ASSUME NEW k \in 1 .. n, Upto(k - 1) PROVE Upto(k)
  <2>1. PICK f \in [0 .. n -> 0 .. n] :
               f[0] = 0 /\ \A i \in 1 .. k - 1 : f[i] = step[<<i, f[i - 1]>>]
    BY <1>2
  <2> DEFINE v == step[<<k, f[k - 1]>>]
             g == [f EXCEPT ![k] = v]
  <2>2. v \in 0 .. n
    <3>1. k - 1 \in 0 .. n
      OBVIOUS
    <3>2. <<k, f[k - 1]>> \in (1 .. n) \X (0 .. n)
      BY <3>1
    <3> QED
      BY <3>2
  <2> HIDE DEF v
  <2>3. /\ g \in [0 .. n -> 0 .. n]
        /\ \A i \in 0 .. n : g[i] = IF i = k THEN v ELSE f[i]
    BY <2>2
  <2> HIDE DEF g
  <2>4. g[0] = 0
    BY <2>1, <2>3
  <2>5. ASSUME NEW i \in 1 .. k PROVE g[i] = step[<<i, g[i - 1]>>]
    <3>1. i - 1 \in 0 .. n /\ i \in 0 .. n /\ i - 1 # k /\ (i = k \/ i \in 1 .. k - 1)
      OBVIOUS
    <3>2. g[i - 1] = f[i - 1]
      BY <2>3, <3>1
    <3>3. CASE i = k
      BY <2>3, <3>1, <3>2, <3>3 DEF v
    <3>4. CASE i \in 1 .. k - 1 /\ i # k
      BY <2>1, <2>3, <3>1, <3>2, <3>4
    <3> QED
      BY <3>1, <3>3, <3>4
  <2> QED
    BY <2>3, <2>4, <2>5
<1> HIDE DEF Upto
<1>3. 0 \in S /\ \A k \in 1 .. n : k - 1 \in S => k \in S
  BY <1>1, <1>2
<1>4. \A k \in 0 .. n : k \in S
  <2> HIDE DEF S
  <2> QED
    BY <1>3, Reached
<1>5. Upto(n)
  BY <1>4
<1> QED
  BY <1>5 DEF Upto

FasterPairs(s) ==
  {p \in (1 .. Len(s)) \X (1 .. Len(s)) : Faster(s[p[1]], s[p[2]])}

CheaperPairs(s) ==
  {p \in (1 .. Len(s)) \X (1 .. Len(s)) : Cheaper(s[p[1]], s[p[2]])}

\* Among these places, what is better than one that k is not better than is
\* better than k.
Ordered(places, better) ==
  \A i, j, k \in places :
    /\ <<i, i>> \notin better
    /\ (<<j, k>> \in better /\ <<i, k>> \notin better) => <<i, j>> \notin better

Found(best, places, better) ==
  /\ best = 0 => places = {}
  /\ best # 0 =>
       /\ best \in places
       /\ Ordered(places, better) => \A i \in places : <<i, best>> \notin better

\* FirstLeast goes through the places so.
Sweeps(least, n, places, better) ==
  /\ least[0] = 0
  /\ \A i \in 1 .. n : least[i - 1] \in 0 .. n =>
       least[i] = IF i \in places /\ (\/ least[i - 1] = 0
                                      \/ <<i, least[i - 1]>> \in better)
                  THEN i ELSE least[i - 1]

\* Going through the places, one keeps what one has or takes this one.  What is
\* left at the end is there if there is any, and if "better" does not depend on
\* the way through the places, none is better.
LEMMA SweepFinds ==
  ASSUME NEW n \in Nat, NEW places \in SUBSET (1 .. n), NEW better, NEW least,
         Sweeps(least, n, places, better)
  PROVE  Found(least[n], places, better)
<1> DEFINE Best(k) ==
             /\ least[k] \in 0 .. k
             /\ least[k] = 0 => \A i \in places : i > k
             /\ least[k] # 0 =>
                  /\ least[k] \in places
                  /\ Ordered(places, better) =>
                       \A i \in places : i <= k => <<i, least[k]>> \notin better
<1>1. Best(0)
  BY DEF Sweeps
<1>2. ASSUME NEW k \in 1 .. n, Best(k - 1) PROVE Best(k)
  <2> DEFINE old == least[k - 1]
  <2>1. /\ old \in 0 .. k - 1 /\ old \in 0 .. n
        /\ \A i \in places : i <= k <=> i <= k - 1 \/ i = k
        /\ \A i \in places : i > k - 1 <=> i > k \/ i = k
    BY <1>2
  <2>2. CASE k \in places /\ (old = 0 \/ <<k, old>> \in better)
    <3>1. least[k] = k
      BY <2>1, <2>2 DEF Sweeps
    <3>2. ASSUME Ordered(places, better), NEW i \in places, i <= k - 1
        PROVE  <<i, k>> \notin better
      <4>1. old # 0 /\ old \in places /\ <<i, old>> \notin better
        BY <1>2, <3>2
      <4> HIDE DEF old
      <4> QED
        BY <2>2, <3>2, <4>1 DEF Ordered
    <3>3. Ordered(places, better) => <<k, k>> \notin better
      BY <2>2 DEF Ordered
    <3>4. Ordered(places, better) =>
            \A i \in places : i <= k => <<i, k>> \notin better
      BY <2>1, <3>2, <3>3
    <3> HIDE DEF old
    <3> QED
      BY <2>1, <2>2, <3>1, <3>4
  <2>3. CASE ~(k \in places /\ (old = 0 \/ <<k, old>> \in better))
    <3>1. least[k] = old
      BY <2>1, <2>3 DEF Sweeps
    <3>2. /\ old = 0 => \A i \in places : i > k
          /\ old # 0 => old \in places
      BY <1>2, <2>1, <2>3
    <3>3. ASSUME old # 0, Ordered(places, better), NEW i \in places, i <= k
          PROVE  <<i, old>> \notin better
      <4>1. CASE i = k
        BY <2>3, <3>3, <4>1 DEF Ordered
      <4>2. CASE i <= k - 1
        BY <1>2, <3>3, <4>2
      <4> QED
        BY <2>1, <3>3, <4>1, <4>2
    <3>4. old \in 0 .. k
      BY <2>1
    <3> HIDE DEF old
    <3> QED
      BY <3>1, <3>2, <3>3, <3>4
  <2> QED
    BY <2>2, <2>3
<1> DEFINE S == {k \in 0 .. n : Best(k)}
<1>3. 0 \in S /\ \A k \in 1 .. n : k - 1 \in S => k \in S
  <2>1. 0 \in 0 .. n /\ \A k \in 1 .. n : k \in 0 .. n
    OBVIOUS
  <2> HIDE DEF Best
  <2> QED
    BY <1>1, <1>2, <2>1
<1>4. Best(n)
  <2>1. \A k \in 0 .. n : k \in S
    <3> HIDE DEF S
    <3> QED
      BY <1>3, Reached
  <2> HIDE DEF Best
  <2> QED
    BY <2>1
<1>5. \A i \in places : i <= n /\ ~(i > n)
  OBVIOUS
<1> QED
  BY <1>4, <1>5 DEF Found

LEMMA SweepExists ==
  ASSUME NEW n \in Nat, NEW places \in SUBSET (1 .. n), NEW better
  PROVE  \E f \in [0 .. n -> 0 .. n] : Sweeps(f, n, places, better)
<1> DEFINE take(i, k) == i \in places /\ (k = 0 \/ <<i, k>> \in better)
           step == [p \in (1 .. n) \X (0 .. n) |->
                      IF take(p[1], p[2]) THEN p[1] ELSE p[2]]
<1>1. step \in [(1 .. n) \X (0 .. n) -> 0 .. n]
  <2> HIDE DEF take
  <2> QED
    OBVIOUS
<1>2. PICK f \in [0 .. n -> 0 .. n] :
             f[0] = 0 /\ \A i \in 1 .. n : f[i] = step[<<i, f[i - 1]>>]
  <2> HIDE DEF step
  <2> QED
    BY <1>1, StepsAdd
<1>3. ASSUME NEW i \in 1 .. n PROVE f[i] = IF take(i, f[i - 1]) THEN i ELSE f[i - 1]
  <2>1. f[i - 1] \in 0 .. n
    OBVIOUS
  <2>2. step[<<i, f[i - 1]>>] = IF take(i, f[i - 1]) THEN i ELSE f[i - 1]
    <3> HIDE DEF take
    <3> QED
      BY <2>1
  <2> QED
    BY <1>2, <2>2
<1> QED
  BY <1>2, <1>3 DEF Sweeps

\* Places that are better than none of some places with the first among them
\* are never taken: the sweep is one through these.
LEMMA SweepStays ==
  ASSUME NEW n \in Nat, NEW places \in SUBSET (1 .. n), NEW better, NEW least,
         Sweeps(least, n, 1 .. n, better), 1 \in places,
         \A i \in (1 .. n) \ places, k \in places : <<i, k>> \notin better
  PROVE  Sweeps(least, n, places, better)
<1> DEFINE Kept(k) == IF k = 0 THEN least[k] = 0 ELSE least[k] \in places
           S == {k \in 0 .. n : Kept(k)}
<1>0. \A x \in places : x \in 1 .. n /\ x \in 0 .. n /\ x # 0
  OBVIOUS
<1>1. ASSUME NEW k \in 1 .. n, Kept(k - 1)
      PROVE  /\ Kept(k)
             /\ least[k] = IF k \in places /\ (\/ least[k - 1] = 0
                                              \/ <<k, least[k - 1]>> \in better)
                           THEN k ELSE least[k - 1]
  <2>1. CASE k = 1
    <3>1. least[k - 1] = 0 /\ 0 \in 0 .. n /\ k \in places
      <4>1. k - 1 = 0
        BY <2>1
      <4> QED
        BY <2>1, <4>1 DEF Sweeps
    <3>2. least[k - 1] \in 0 .. n => least[k] = k
      BY <3>1 DEF Sweeps
    <3>3. least[k] = k
      BY <3>1, <3>2
    <3>4. k # 0
      OBVIOUS
    <3> QED
      BY <3>1, <3>3, <3>4
  <2>2. CASE k # 1
    <3>1. /\ least[k - 1] \in places /\ least[k - 1] \in 1 .. n
          /\ least[k - 1] \in 0 .. n /\ least[k - 1] # 0
      <4>1. k - 1 # 0
        BY <2>2
      <4>2. IF k - 1 = 0 THEN least[k - 1] = 0 ELSE least[k - 1] \in places
        BY <1>1
      <4>3. least[k - 1] \in places
        BY <4>1, <4>2
      <4> QED
        BY <1>0, <4>3
    <3>2. least[k] = IF <<k, least[k - 1]>> \in better THEN k ELSE least[k - 1]
      BY <3>1 DEF Sweeps
    <3>3. k \notin places => <<k, least[k - 1]>> \notin better
      BY <3>1
    <3>4. k # 0
      OBVIOUS
    <3> QED
      BY <3>1, <3>2, <3>3, <3>4
  <2> QED
    BY <2>1, <2>2
<1>2. 0 \in S
  BY DEF Sweeps
<1>3. \A k \in 1 .. n : k - 1 \in S => k \in S
  <2>1. \A k \in 1 .. n : k \in 0 .. n
    OBVIOUS
  <2> HIDE DEF Kept
  <2> QED
    BY <1>1, <2>1
<1>4. \A k \in 0 .. n : k \in S
  <2> HIDE DEF S
  <2> QED
    BY <1>2, <1>3, Reached
<1>5. \A k \in 1 .. n : Kept(k - 1)
  <2>1. \A k \in 1 .. n : k - 1 \in 0 .. n
    OBVIOUS
  <2> HIDE DEF Kept
  <2> QED
    BY <1>4, <2>1
<1> HIDE DEF Kept
<1> QED
  BY <1>1, <1>5 DEF Sweeps

\* min with the key of ChronoNav.
LEMMA FastestSweep ==
  ASSUME NEW s \in Seq(Profiles), NEW places \in SUBSET DOMAIN s
  PROVE  \E least : /\ FirstLeast(s, places, Faster) = least[Len(s)]
                    /\ Sweeps(least, Len(s), places, FasterPairs(s))
<1> DEFINE n == Len(s)
           better == FasterPairs(s)
           Least(f) == [i \in 0 .. Len(s) |->
              IF i = 0 THEN 0
              ELSE IF /\ i \in places
                      /\ f[i - 1] = 0 \/ Faster(s[i], s[f[i - 1]])
                THEN i ELSE f[i - 1]]
           least == CHOOSE f : f = Least(f)
<1>1. n \in Nat /\ DOMAIN s = 1 .. n /\ places \in SUBSET (1 .. n)
  OBVIOUS
<1>2. FirstLeast(s, places, Faster) = least[n]
  BY DEF FirstLeast
<1>3. \A i \in 1 .. n, k \in 0 .. n :
        k = 0 \/ (<<i, k>> \in better <=> Faster(s[i], s[k]))
  BY <1>1 DEF FasterPairs
<1>4. \E f : f = Least(f)
  <2>1. PICK f \in [0 .. n -> 0 .. n] : Sweeps(f, n, places, better)
    <3> HIDE DEF n, better
    <3> QED
      BY <1>1, SweepExists
  <2>2. \A i \in 0 .. n : i = 0 \/ (i \in 1 .. n /\ f[i - 1] \in 0 .. n)
    BY <1>1
  <2>3. f = Least(f)
    <3>1. \A i \in 0 .. n :
            f[i] = IF i = 0 THEN 0
                   ELSE IF /\ i \in places
                           /\ f[i - 1] = 0 \/ Faster(s[i], s[f[i - 1]])
                     THEN i ELSE f[i - 1]
      <4> HIDE DEF better, n
      <4> QED
        BY <1>3, <2>1, <2>2 DEF Sweeps
    <3>2. f = [i \in 0 .. n |-> f[i]]
      OBVIOUS
    <3> QED
      BY <3>1, <3>2
  <2> QED
    BY <2>3
<1>5. least = Least(least)
  BY <1>4
<1>6. Sweeps(least, n, places, better)
  <2>1. DOMAIN least = 0 .. n /\ \A i \in 0 .. n : least[i] = Least(least)[i]
    BY <1>5
  <2>2. 0 \in 0 .. n /\ \A i \in 1 .. n : i \in 0 .. n /\ i # 0
    BY <1>1
  <2> HIDE DEF least, better
  <2> QED
    BY <1>3, <2>1, <2>2 DEF Sweeps
<1> HIDE DEF least, better, n
<1> QED
  BY <1>2, <1>6 DEF better, n

\* min with the key of Chrysalis.
LEMMA CheapestSweep ==
  ASSUME NEW s \in Seq(Candidates), NEW places \in SUBSET DOMAIN s
  PROVE  Found(FirstLeast(s, places, Cheaper), places, CheaperPairs(s))
<1> DEFINE n == Len(s)
           better == CheaperPairs(s)
           Least(f) == [i \in 0 .. Len(s) |->
              IF i = 0 THEN 0
              ELSE IF /\ i \in places
                      /\ f[i - 1] = 0 \/ Cheaper(s[i], s[f[i - 1]])
                THEN i ELSE f[i - 1]]
           least == CHOOSE f : f = Least(f)
<1>1. n \in Nat /\ DOMAIN s = 1 .. n /\ places \in SUBSET (1 .. n)
  OBVIOUS
<1>2. FirstLeast(s, places, Cheaper) = least[n]
  BY DEF FirstLeast
<1>3. \A i \in 1 .. n, k \in 0 .. n :
        k = 0 \/ (<<i, k>> \in better <=> Cheaper(s[i], s[k]))
  BY <1>1 DEF CheaperPairs
<1>4. \E f : f = Least(f)
  <2>1. PICK f \in [0 .. n -> 0 .. n] : Sweeps(f, n, places, better)
    <3> HIDE DEF n, better
    <3> QED
      BY <1>1, SweepExists
  <2>2. \A i \in 0 .. n : i = 0 \/ (i \in 1 .. n /\ f[i - 1] \in 0 .. n)
    BY <1>1
  <2>3. f = Least(f)
    <3>1. \A i \in 0 .. n :
            f[i] = IF i = 0 THEN 0
                   ELSE IF /\ i \in places
                           /\ f[i - 1] = 0 \/ Cheaper(s[i], s[f[i - 1]])
                     THEN i ELSE f[i - 1]
      <4> HIDE DEF better, n
      <4> QED
        BY <1>3, <2>1, <2>2 DEF Sweeps
    <3>2. f = [i \in 0 .. n |-> f[i]]
      OBVIOUS
    <3> QED
      BY <3>1, <3>2
  <2> QED
    BY <2>3
<1>5. least = Least(least)
  BY <1>4
<1>6. Sweeps(least, n, places, better)
  <2>1. DOMAIN least = 0 .. n /\ \A i \in 0 .. n : least[i] = Least(least)[i]
    BY <1>5
  <2>2. 0 \in 0 .. n /\ \A i \in 1 .. n : i \in 0 .. n /\ i # 0
    BY <1>1
  <2> HIDE DEF least, better
  <2> QED
    BY <1>3, <2>1, <2>2 DEF Sweeps
<1> HIDE DEF least, better, n
<1> QED
  BY <1>1, <1>2, <1>6, SweepFinds DEF better

\* What NaN can spoil is left out by these conditions.
LEMMA PayloadNumbers ==
  /\ NaN \notin Int
  /\ \A p \in Payloads.chrononav :
       /\ p.profiles \in Seq(Profiles)
       /\ \A i \in DOMAIN p.profiles :
            p.profiles[i].workers \in Int /\ p.profiles[i].seconds \in Number
       /\ \A i, j \in DOMAIN p.profiles :
            p.profiles[i].workers = p.profiles[j].workers => i = j
  /\ \A p \in Payloads.chrysalis :
       /\ p.candidates \in Seq(Candidates)
       /\ \A i \in DOMAIN p.candidates :
            /\ p.candidates[i].id \in Int
            /\ p.candidates[i].quality \in Number
            /\ p.candidates[i].cost \in Number
       /\ p.baseline.cost \in Number
       /\ p.policy.reduction \in Number
<1>1. \A s \in Seq(Profiles) : \A i \in DOMAIN s :
        s[i].workers \in Int /\ s[i].seconds \in Number
  <2>1. \A s \in Seq(Profiles) : \A i \in DOMAIN s : s[i] \in Profiles
    OBVIOUS
  <2> QED
    BY <2>1 DEF Profiles
<1>2. \A s \in Seq(Candidates) : \A i \in DOMAIN s :
        s[i].id \in Int /\ s[i].quality \in Number /\ s[i].cost \in Number
  <2>1. \A s \in Seq(Candidates) : \A i \in DOMAIN s : s[i] \in Candidates
    OBVIOUS
  <2> QED
    BY <2>1 DEF Candidates
<1>3. /\ NaN \notin Int
      /\ \A p \in Payloads.chrononav :
           /\ p.profiles \in Seq(Profiles)
           /\ \A i, j \in DOMAIN p.profiles :
                p.profiles[i].workers = p.profiles[j].workers => i = j
      /\ \A p \in Payloads.chrysalis :
           /\ p.candidates \in Seq(Candidates)
           /\ p.baseline.cost \in Number /\ p.policy.reduction \in Number
  BY PayloadsAssumption DEF Profiles, Candidates, Number
<1> HIDE DEF Profiles, Candidates, Number
<1> QED
  BY <1>1, <1>2, <1>3

\* The profiles that compare with the first one.
Ranked(s) == {i \in DOMAIN s : s[i].seconds = NaN <=> s[1].seconds = NaN}

AsGood(p, q) ==
  \/ Lt(p.seconds, q.seconds)
  \/ p.seconds = q.seconds /\ p.workers <= q.workers

\* The fastest profile of an accepted payload: among the profiles that compare
\* with the first one, none is faster, nor as fast with fewer workers.
LEMMA FastestIsFastest ==
  ASSUME NEW p \in Payloads.chrononav,
         ProfilesAccepted(p.profiles, p.deadline)
  PROVE  \E k \in Ranked(p.profiles) :
           /\ Fastest(p.profiles) = p.profiles[k]
           /\ \A i \in Ranked(p.profiles) : AsGood(p.profiles[k], p.profiles[i])
<1> DEFINE s == p.profiles
           k == FirstLeast(s, DOMAIN s, Faster)
<1>1. /\ s \in Seq(Profiles)
      /\ \A i \in DOMAIN s : s[i].workers \in Int /\ s[i].seconds \in Number
      /\ NaN \notin Int
  BY PayloadNumbers
<1>2. s # <<>>
  BY DEF ProfilesAccepted
<1>3. Fastest(s) = s[k]
  BY DEF Fastest
<1> HIDE DEF s
<1>4. DOMAIN s = 1 .. Len(s) /\ Len(s) \in Nat /\ 1 \in DOMAIN s
  BY <1>1, <1>2
<1>5. PICK least : k = least[Len(s)] /\ Sweeps(least, Len(s), DOMAIN s, FasterPairs(s))
  BY <1>1, FastestSweep
<1> HIDE DEF k
<1>6. \A i, j \in DOMAIN s :
        <<i, j>> \in FasterPairs(s) <=> Faster(s[i], s[j])
  BY <1>4 DEF FasterPairs
<1>7. \A i \in DOMAIN s \ Ranked(s), j \in Ranked(s) : ~Faster(s[i], s[j])
  BY DEF Ranked, Faster, Lt
<1>8. Found(k, Ranked(s), FasterPairs(s))
  <2>1. Ranked(s) \in SUBSET (1 .. Len(s)) /\ 1 \in Ranked(s)
    BY <1>4 DEF Ranked
  <2>2. \A i \in (1 .. Len(s)) \ Ranked(s), j \in Ranked(s) :
          <<i, j>> \notin FasterPairs(s)
    BY <1>4, <1>6, <1>7, <2>1
  <2>3. Sweeps(least, Len(s), Ranked(s), FasterPairs(s))
    BY <1>4, <1>5, <2>1, <2>2, SweepStays
  <2> QED
    BY <1>4, <1>5, <2>1, <2>3, SweepFinds
<1>9. Ordered(Ranked(s), FasterPairs(s))
  <2>1. ASSUME NEW a \in Ranked(s), NEW b \in Ranked(s), NEW c \in Ranked(s)
        PROVE  /\ ~Faster(s[a], s[a])
               /\ Faster(s[b], s[c]) /\ ~Faster(s[a], s[c]) => ~Faster(s[a], s[b])
    <3>1. /\ s[a].workers \in Int /\ s[b].workers \in Int /\ s[c].workers \in Int
          /\ \/ /\ s[a].seconds = NaN /\ s[b].seconds = NaN
                /\ s[c].seconds = NaN
             \/ /\ s[a].seconds \in Int /\ s[b].seconds \in Int
                /\ s[c].seconds \in Int
      BY <1>1 DEF Ranked, Number
    <3>2. CASE s[a].seconds = NaN /\ s[b].seconds = NaN /\ s[c].seconds = NaN
      BY <3>1, <3>2 DEF Faster, Lt
    <3>3. CASE s[a].seconds \in Int /\ s[b].seconds \in Int /\ s[c].seconds \in Int
      <4>1. ASSUME NEW i \in {a, b, c}, NEW j \in {a, b, c}
            PROVE  Faster(s[i], s[j]) <=>
                     \/ s[i].seconds < s[j].seconds
                     \/ /\ s[i].seconds = s[j].seconds
                        /\ s[i].workers < s[j].workers
        BY <1>1, <3>3 DEF Faster, Lt
      <4> QED
        BY <3>1, <3>3, <4>1
    <3> QED
      BY <3>1, <3>2, <3>3
  <2>2. Ranked(s) \subseteq DOMAIN s
    BY DEF Ranked
  <2> QED
    BY <1>6, <2>1, <2>2 DEF Ordered
<1>10. k \in Ranked(s) /\ \A i \in Ranked(s) : ~Faster(s[i], s[k])
  <2>1. Ranked(s) \subseteq DOMAIN s /\ 1 \in Ranked(s)
    BY <1>4 DEF Ranked
  <2> QED
    BY <1>6, <1>8, <1>9, <2>1 DEF Found
<1>11. ASSUME NEW i \in Ranked(s) PROVE AsGood(s[k], s[i])
  <2>1. /\ s[k].workers \in Int /\ s[i].workers \in Int
        /\ \/ s[k].seconds = NaN /\ s[i].seconds = NaN
           \/ s[k].seconds \in Int /\ s[i].seconds \in Int
    BY <1>1, <1>10 DEF Ranked, Number
  <2>2. ~Faster(s[i], s[k])
    BY <1>10
  <2>3. CASE s[k].seconds = NaN /\ s[i].seconds = NaN
    BY <2>1, <2>2, <2>3 DEF AsGood, Faster
  <2>4. CASE s[k].seconds \in Int /\ s[i].seconds \in Int
    BY <1>1, <2>1, <2>2, <2>4 DEF AsGood, Faster, Lt
  <2> QED
    BY <2>1, <2>3, <2>4
<1> QED
  BY <1>3, <1>10, <1>11 DEF s

\* Where a profile meets the deadline, one with the fewest workers is chosen.
LEMMA FewestIsFewest ==
  ASSUME NEW p \in Payloads.chrononav,
         ProfilesAccepted(p.profiles, p.deadline),
         Meeting(p.profiles, p.deadline) # {}
  PROVE  \E k \in Meeting(p.profiles, p.deadline) :
           /\ ChooseWorkers(p.profiles, p.deadline) = p.profiles[k]
           /\ \A i \in Meeting(p.profiles, p.deadline) :
                p.profiles[k].workers <= p.profiles[i].workers
<1> DEFINE s == p.profiles
           meeting == Meeting(s, p.deadline)
           counts == {s[i].workers : i \in meeting}
           fewest == Min(counts)
<1>1. \A i \in DOMAIN s : s[i].workers \in Nat
  <2>1. \A i \in DOMAIN s : s[i].workers \in Int
    BY PayloadNumbers
  <2>2. \A i \in DOMAIN s : s[i].workers > 0
    BY DEF ProfilesAccepted
  <2> QED
    BY <2>1, <2>2
<1>2. meeting \subseteq DOMAIN s /\ meeting # {}
  BY DEF Meeting
<1>3. counts \in SUBSET Nat /\ counts # {}
  BY <1>1, <1>2
<1>4. ChooseWorkers(s, p.deadline) = s[CHOOSE i \in meeting : s[i].workers = fewest]
  BY <1>2 DEF ChooseWorkers
<1>5. fewest \in counts /\ \A n \in counts : fewest <= n
  <2>1. fewest = CHOOSE x \in counts : \A y \in counts : x <= y
    BY DEF Min
  <2> HIDE DEF counts, fewest
  <2>2. \E x \in counts : \A y \in counts : x <= y
    BY <1>3, LeastExists
  <2> QED
    BY <2>1, <2>2
<1> DEFINE k == CHOOSE i \in meeting : s[i].workers = fewest
<1>6. k \in meeting /\ s[k].workers = fewest
  <2>1. \E i \in meeting : s[i].workers = fewest
    BY <1>5
  <2> HIDE DEF meeting, fewest, s
  <2> QED
    BY <2>1
<1>7. ChooseWorkers(s, p.deadline) = s[k]
  BY <1>4
<1>8. \A i \in meeting : s[i].workers \in counts
  OBVIOUS
<1>9. \A i \in meeting : s[k].workers <= s[i].workers
  <2> HIDE DEF counts, fewest, k, meeting, s
  <2> QED
    BY <1>5, <1>6, <1>8
<1> HIDE DEF k, fewest, counts
<1> QED
  BY <1>6, <1>7, <1>9

LEMMA ChoiceIsBest ==
  ASSUME NEW p \in Payloads.chrononav,
         ProfilesAccepted(p.profiles, p.deadline)
  PROVE  \E k \in DOMAIN p.profiles :
           LET s == p.profiles
               meets(i) == Le(s[i].seconds, p.deadline)
           IN  /\ ChooseWorkers(s, p.deadline) = s[k]
               /\ meets(k) <=> \E i \in DOMAIN s : meets(i)
               /\ \A i \in DOMAIN s : meets(i) => s[i].workers >= s[k].workers
               /\ ~meets(k) => /\ k \in Ranked(s)
                               /\ \A i \in Ranked(s) : AsGood(s[k], s[i])
<1> DEFINE s == p.profiles
           meets(i) == Le(s[i].seconds, p.deadline)
<1>1. \A i : i \in Meeting(s, p.deadline) <=> i \in DOMAIN s /\ meets(i)
  BY DEF Meeting
<1>2. \A i \in DOMAIN s : s[i].workers \in Int
  BY PayloadNumbers
<1>3. CASE Meeting(s, p.deadline) # {}
  <2>1. PICK k \in Meeting(s, p.deadline) :
               /\ ChooseWorkers(s, p.deadline) = s[k]
               /\ \A i \in Meeting(s, p.deadline) : s[k].workers <= s[i].workers
    BY <1>3, FewestIsFewest
  <2> QED
    BY <1>1, <1>2, <2>1
<1>4. CASE Meeting(s, p.deadline) = {}
  <2>1. PICK k \in Ranked(s) :
          /\ Fastest(s) = s[k]
          /\ \A i \in Ranked(s) : AsGood(s[k], s[i])
    BY FastestIsFastest
  <2>2. ChooseWorkers(s, p.deadline) = s[k]
    BY <1>4, <2>1 DEF ChooseWorkers
  <2>3. k \in DOMAIN s /\ \A i \in DOMAIN s : ~meets(i)
    BY <1>1, <1>4 DEF Ranked
  <2> HIDE DEF meets, s
  <2>4. \E j \in DOMAIN s :
          /\ ChooseWorkers(s, p.deadline) = s[j]
          /\ meets(j) <=> \E i \in DOMAIN s : meets(i)
          /\ \A i \in DOMAIN s : meets(i) => s[i].workers >= s[j].workers
          /\ ~meets(j) => /\ j \in Ranked(s)
                          /\ \A i \in Ranked(s) : AsGood(s[j], s[i])
    BY <2>1, <2>2, <2>3
  <2> QED
    BY <2>4 DEF meets, s
<1> QED
  BY <1>3, <1>4

\* ChronoNav's choice, for all profiles with distinct worker counts, whatever
\* their order, NaN among the predictions or as the deadline included: the
\* sweep of min and the minimum over the profiles that meet the deadline are
\* the policy the schedule names.
THEOREM SchedulesAreBest == Spec => []ScheduleIsBest
<1>1. Init => ScheduleIsBest
  BY DEF Init, ScheduleIsBest
<1>2. ScheduleIsBest /\ [Next]_vars => ScheduleIsBest'
  <2> SUFFICES ASSUME ScheduleIsBest, [Next]_vars, phase' = "chrysalis"
               PROVE  ScheduleIsBest'
    BY DEF ScheduleIsBest
  <2>1. CASE UNCHANGED vars
    BY <2>1 DEF ScheduleIsBest, vars
  <2>2. CASE Schedule
    <3>1. PICK p \in Payloads.chrononav :
            /\ ProfilesAccepted(p.profiles, p.deadline)
            /\ input' = p
            /\ schedule' =
                 [workers |-> ChooseWorkers(p.profiles, p.deadline).workers,
                  met |-> Le(ChooseWorkers(p.profiles, p.deadline).seconds,
                               p.deadline)]
      BY <2>2 DEF Schedule, Refuse
    <3> DEFINE s == p.profiles
               all == {input'.profiles[i] : i \in DOMAIN input'.profiles}
               ranked == {q \in all :
                            q.seconds = NaN <=> input'.profiles[1].seconds = NaN}
    <3>2. PICK k \in DOMAIN s :
            /\ ChooseWorkers(s, p.deadline) = s[k]
            /\ Le(s[k].seconds, p.deadline) <=>
                 \E i \in DOMAIN s : Le(s[i].seconds, p.deadline)
            /\ \A i \in DOMAIN s :
                 Le(s[i].seconds, p.deadline) => s[i].workers >= s[k].workers
            /\ ~Le(s[k].seconds, p.deadline) =>
                 k \in Ranked(s) /\ \A i \in Ranked(s) : AsGood(s[k], s[i])
      BY <3>1, ChoiceIsBest
    <3>3. schedule'.workers = s[k].workers
          /\ schedule'.met = Le(s[k].seconds, p.deadline)
      BY <3>1, <3>2
    <3>4. input'.profiles = s /\ input'.deadline = p.deadline
      BY <3>1
    <3>5. /\ \A q \in all : \E i \in DOMAIN s : q = s[i]
          /\ \A i \in DOMAIN s : s[i] \in all
      BY <3>4
    <3>6. (CHOOSE q \in all : q.workers = schedule'.workers) = s[k]
      <4>1. s[k] \in all
        BY <3>5
      <4>2. \A q \in all : q.workers = s[k].workers => q = s[k]
        <5>1. \A i \in DOMAIN s : s[i].workers = s[k].workers => i = k
          BY PayloadNumbers
        <5> HIDE DEF all, ranked, s
        <5> QED
          BY <3>5, <5>1
      <4> HIDE DEF all
      <4> QED
        BY <3>3, <4>1, <4>2
    <3>7. /\ schedule'.met <=> \E q \in all : Le(q.seconds, p.deadline)
          /\ \A q \in all :
               Le(q.seconds, p.deadline) => q.workers >= s[k].workers
      <4> HIDE DEF all, s
      <4> QED
        BY <3>2, <3>3, <3>5
    <3>8. ASSUME ~schedule'.met
          PROVE  s[k] \in ranked /\ \A q \in ranked : AsGood(s[k], q)
      <4>1. k \in Ranked(s) /\ \A i \in Ranked(s) : AsGood(s[k], s[i])
        BY <3>2, <3>3, <3>8
      <4>2. s[k] \in ranked
        BY <3>4, <3>5, <4>1 DEF Ranked
      <4>3. ASSUME NEW q \in ranked PROVE AsGood(s[k], q)
        <5>1. PICK i \in DOMAIN s : q = s[i]
          BY <3>5
        <5>2. i \in Ranked(s)
          BY <3>4, <5>1 DEF Ranked
        <5> QED
          BY <4>1, <5>1, <5>2
      <4> QED
        BY <4>2, <4>3
    <3> QED
      BY <3>4, <3>6, <3>7, <3>8 DEF ScheduleIsBest, AsGood
  <2>3. Schedule \/ UNCHANGED vars
    BY DEF Next, Refinery, Refuse, Evaluate, MintRun, VerifyRun,
      Edit, Attach, VerifyAgain, VerifyRaises, MintAgain, Ended
  <2> QED
    BY <2>1, <2>2, <2>3
<1> QED
  BY <1>1, <1>2, PTL DEF Spec

\* The reduction of the policy is a bound on the cost.
LEMMA ReductionIsBound ==
  ASSUME NEW b \in Int, NEW c \in Int, NEW r \in Int
  PROVE  (b - c) * 100 >= r * b <=> 100 * c <= (100 - r) * b
<1>1. (100 - r) * b = 100 * b - r * b
  OBVIOUS
<1>2. r * b \in Int
  OBVIOUS
<1> DEFINE d == r * b
           e == (100 - r) * b
<1> HIDE DEF d, e
<1>3. d \in Int /\ e = 100 * b - d
  BY <1>1, <1>2 DEF d, e
<1>4. (b - c) * 100 >= d <=> 100 * c <= e
  BY <1>3
<1> QED
  BY <1>4 DEF d, e

\* Among the candidates that qualify none is cheaper than the one selected, nor
\* as cheap and better.
LEMMA SelectedIsBest ==
  ASSUME NEW p \in Payloads.chrysalis
  PROVE  LET s == p.candidates
             qualifying == {i \in DOMAIN s : Qualifies(p.baseline, s[i], p.policy)}
             chosen == Selected(p.baseline, s, p.policy)
         IN  /\ qualifying = {} => chosen = <<>>
             /\ qualifying # {} =>
                  \E k \in qualifying :
                    /\ chosen = <<s[k]>>
                    /\ \A i \in qualifying :
                         \/ s[k].cost < s[i].cost
                         \/ s[k].cost = s[i].cost /\ s[k].quality > s[i].quality
                         \/ /\ s[k].cost = s[i].cost /\ s[k].quality = s[i].quality
                            /\ s[k].id <= s[i].id
<1> DEFINE s == p.candidates
           qualifying == {i \in DOMAIN s : Qualifies(p.baseline, s[i], p.policy)}
           k == FirstLeast(s, qualifying, Cheaper)
<1>1. s \in Seq(Candidates) /\ DOMAIN s = 1 .. Len(s)
  <2>1. s \in Seq(Candidates)
    BY PayloadNumbers
  <2> QED
    BY <2>1
<1>2. Selected(p.baseline, s, p.policy) = IF k = 0 THEN <<>> ELSE <<s[k]>>
  BY DEF Selected
<1>3. Found(k, qualifying, CheaperPairs(s))
  <2>1. qualifying \in SUBSET DOMAIN s
    OBVIOUS
  <2> HIDE DEF qualifying, s
  <2> QED
    BY <1>1, <2>1, CheapestSweep
<1>4. \A i \in qualifying :
        /\ i \in DOMAIN s /\ s[i].id \in Int
        /\ s[i].quality \in Int /\ s[i].cost \in Int
  BY PayloadNumbers DEF Qualifies, Reduces, Le, Number
<1> HIDE DEF qualifying, s
<1>5. \A i, j \in qualifying :
        <<i, j>> \in CheaperPairs(s) <=>
          \/ s[i].cost < s[j].cost
          \/ s[i].cost = s[j].cost /\ s[i].quality > s[j].quality
          \/ /\ s[i].cost = s[j].cost /\ s[i].quality = s[j].quality
             /\ s[i].id < s[j].id
  BY <1>1, <1>4 DEF CheaperPairs, Cheaper
<1>6. Ordered(qualifying, CheaperPairs(s))
  <2>1. ASSUME NEW a \in qualifying, NEW b \in qualifying, NEW c \in qualifying
        PROVE  /\ <<a, a>> \notin CheaperPairs(s)
               /\ <<b, c>> \in CheaperPairs(s) /\ <<a, c>> \notin CheaperPairs(s)
                    => <<a, b>> \notin CheaperPairs(s)
    <3> DEFINE less(i, j) ==
                 \/ s[i].cost < s[j].cost
                 \/ s[i].cost = s[j].cost /\ s[i].quality > s[j].quality
                 \/ /\ s[i].cost = s[j].cost /\ s[i].quality = s[j].quality
                    /\ s[i].id < s[j].id
    <3>1. ~less(a, a) /\ (less(b, c) /\ ~less(a, c) => ~less(a, b))
      <4>1. /\ s[a].cost \in Int /\ s[b].cost \in Int /\ s[c].cost \in Int
            /\ s[a].quality \in Int /\ s[b].quality \in Int /\ s[c].quality \in Int
            /\ s[a].id \in Int /\ s[b].id \in Int /\ s[c].id \in Int
        BY <1>4
      <4> QED
        BY <4>1
    <3>2. \A i, j \in qualifying : <<i, j>> \in CheaperPairs(s) <=> less(i, j)
      BY <1>5
    <3> HIDE DEF less
    <3> QED
      BY <3>1, <3>2
  <2> QED
    BY <2>1 DEF Ordered
<1> HIDE DEF k
<1>7. ASSUME k # 0
      PROVE  /\ k \in qualifying
             /\ \A i \in qualifying :
                  \/ s[k].cost < s[i].cost
                  \/ s[k].cost = s[i].cost /\ s[k].quality > s[i].quality
                  \/ /\ s[k].cost = s[i].cost /\ s[k].quality = s[i].quality
                     /\ s[k].id <= s[i].id
  <2>1. k \in qualifying /\ \A i \in qualifying : <<i, k>> \notin CheaperPairs(s)
    BY <1>3, <1>6, <1>7 DEF Found
  <2>2. ASSUME NEW i \in qualifying
        PROVE  \/ s[k].cost < s[i].cost
               \/ s[k].cost = s[i].cost /\ s[k].quality > s[i].quality
               \/ /\ s[k].cost = s[i].cost /\ s[k].quality = s[i].quality
                  /\ s[k].id <= s[i].id
    <3>1. /\ ~(s[i].cost < s[k].cost)
          /\ ~(s[i].cost = s[k].cost /\ s[i].quality > s[k].quality)
          /\ ~(/\ s[i].cost = s[k].cost /\ s[i].quality = s[k].quality
               /\ s[i].id < s[k].id)
      BY <1>5, <2>1
    <3>2. /\ s[i].cost \in Int /\ s[k].cost \in Int
          /\ s[i].quality \in Int /\ s[k].quality \in Int
          /\ s[i].id \in Int /\ s[k].id \in Int
      BY <1>4, <2>1
    <3> QED
      BY <3>1, <3>2
  <2> QED
    BY <2>1, <2>2
<1>8. k = 0 <=> qualifying = {}
  BY <1>3, <1>7 DEF Found
<1> QED
  BY <1>2, <1>7, <1>8 DEF qualifying, s

\* Chrysalis' selection, for all candidates, baselines and policies, whatever
\* is NaN and whatever the order of the candidates: it keeps the policy, and no
\* other that keeps it is cheaper, nor as cheap and better.
THEOREM SelectionsAreBest == Spec => []SelectionIsBest
<1>1. Init => SelectionIsBest
  BY DEF Init, SelectionIsBest
<1>2. SelectionIsBest /\ [Next]_vars => SelectionIsBest'
  <2> SUFFICES ASSUME SelectionIsBest, [Next]_vars, phase' = "mint"
               PROVE  SelectionIsBest'
    BY DEF SelectionIsBest
  <2>1. CASE UNCHANGED vars
    BY <2>1 DEF SelectionIsBest, vars
  <2>2. CASE Evaluate
    <3>1. PICK p \in Payloads.chrysalis :
            /\ input' = p
            /\ selected' = Selected(p.baseline, p.candidates, p.policy)
      BY <2>2 DEF Evaluate, Refuse
    <3> DEFINE s == p.candidates
               keeps(c) ==
                 /\ Le(input'.policy.quality, c.quality)
                 /\ NaN \notin {c.cost, input'.baseline.cost, input'.policy.reduction}
                 /\ 100 * c.cost <= (100 - input'.policy.reduction) * input'.baseline.cost
               kept == {c \in {input'.candidates[i] : i \in DOMAIN input'.candidates} :
                          keeps(c)}
               qualifying ==
                 {i \in DOMAIN s : Qualifies(p.baseline, s[i], p.policy)}
    <3>2. \A i \in DOMAIN s : keeps(s[i]) <=> Qualifies(p.baseline, s[i], p.policy)
      <4> SUFFICES ASSUME NEW i \in DOMAIN s
                   PROVE  keeps(s[i]) <=> Qualifies(p.baseline, s[i], p.policy)
        OBVIOUS
      <4> DEFINE b == p.baseline.cost
                 c == s[i].cost
                 r == p.policy.reduction
      <4>1. b \in Number /\ c \in Number /\ r \in Number
        BY PayloadNumbers
      <4>2. NaN \notin {b, c, r} =>
              ((b - c) * 100 >= r * b <=> 100 * c <= (100 - r) * b)
        <5> HIDE DEF b, c, r
        <5> QED
          BY <4>1, ReductionIsBound DEF Number
      <4>3. keeps(s[i]) <=> /\ Le(p.policy.quality, s[i].quality)
                            /\ NaN \notin {c, b, r}
                            /\ 100 * c <= (100 - r) * b
        BY <3>1
      <4>4. Qualifies(p.baseline, s[i], p.policy) <=>
              /\ Le(p.policy.quality, s[i].quality)
              /\ NaN \notin {b, c, r}
              /\ (b - c) * 100 >= r * b
        BY DEF Qualifies, Reduces
      <4> HIDE DEF b, c, r, keeps
      <4> QED
        BY <4>2, <4>3, <4>4
    <3>3. /\ \A c \in kept : \E i \in qualifying : c = s[i]
          /\ \A i \in qualifying : s[i] \in kept
      <4>1. \A c : c \in kept <=> (\E i \in DOMAIN s : c = s[i]) /\ keeps(c)
        BY <3>1
      <4> HIDE DEF keeps, kept, s
      <4> QED
        BY <3>2, <4>1
    <3>4. /\ qualifying = {} => selected' = <<>>
          /\ qualifying # {} =>
               \E k \in qualifying :
                 /\ selected' = <<s[k]>>
                 /\ \A i \in qualifying :
                      \/ s[k].cost < s[i].cost
                      \/ s[k].cost = s[i].cost /\ s[k].quality > s[i].quality
                      \/ /\ s[k].cost = s[i].cost /\ s[k].quality = s[i].quality
                         /\ s[k].id <= s[i].id
      BY <3>1, SelectedIsBest
    <3>5. IF kept = {} THEN selected' = <<>>
          ELSE /\ selected' # <<>> /\ selected'[1] \in kept
               /\ \A c \in kept :
                    \/ selected'[1].cost < c.cost
                    \/ selected'[1].cost = c.cost /\ selected'[1].quality > c.quality
                    \/ /\ selected'[1].cost = c.cost /\ selected'[1].quality = c.quality
                       /\ selected'[1].id <= c.id
      <4> HIDE DEF kept, qualifying, s
      <4> QED
        BY <3>3, <3>4
    <3> QED
      BY <3>5 DEF SelectionIsBest
  <2>3. Evaluate \/ UNCHANGED vars
    BY DEF Next, Refinery, Refuse, Schedule, MintRun, VerifyRun,
      Edit, Attach, VerifyAgain, VerifyRaises, MintAgain, Ended
  <2> QED
    BY <2>1, <2>2, <2>3
<1> QED
  BY <1>1, <1>2, PTL DEF Spec

\* The Marble of a run, and in a client's hands, has the id of the core that was
\* minted, which could be minted.
HasMintedId ==
  (phase \in {"verify", "held"}) =>
    /\ marble \in [core : Cores, id : Cores, attached : BOOLEAN]
    /\ minted \in Cores /\ Mintable(minted)
    /\ marble.id = minted

\* Until it is edited it is the one the run made.
UneditedIsOfRun ==
  (phase \in {"verify", "held"} /\ edits = 0) =>
    /\ marble.core = minted
    /\ minted.class = "IMPLEMENTED" /\ minted.provenance = "numbered"
    /\ minted.policy = "committed" /\ minted.actor = "UNATTESTED"

\* A verdict is about the Marble as it is.
VerdictIsCurrent ==
  verdict # None => phase = "held" /\ verdict = VerifyIntegrity(marble)

MarbleInv == edits \in Nat /\ HasMintedId /\ UneditedIsOfRun /\ VerdictIsCurrent

LEMMA MintGives ==
  ASSUME NEW core \in Cores, NEW attached \in BOOLEAN
  PROVE  Mint(core, attached) = [core |-> core, id |-> core, attached |-> attached]
BY DEF Mint, Content

\* The core of a run claims no measurement.
LEMMA RunCore ==
  ASSUME NEW backed \in BOOLEAN, NEW resources \in {"object", "nan", "other"}
  PROVE  /\ CoreRecord(backed, resources) \in Cores
         /\ CoreRecord(backed, resources).class = "IMPLEMENTED"
         /\ CoreRecord(backed, resources).provenance = "numbered"
         /\ CoreRecord(backed, resources).policy = "committed"
         /\ CoreRecord(backed, resources).actor = "UNATTESTED"
BY DEF CoreRecord, Cores, Classes

LEMMA MarbleInductive == MarbleInv /\ [Next]_vars => MarbleInv'
<1> SUFFICES ASSUME MarbleInv, [Next]_vars PROVE MarbleInv'
  OBVIOUS
<1> USE DEF MarbleInv
<1>1. CASE UNCHANGED <<phase, marble, verdict, minted, edits>>
  BY <1>1 DEF HasMintedId, UneditedIsOfRun, VerdictIsCurrent
<1>2. CASE /\ phase \notin {"verify", "held"} /\ phase' \notin {"verify", "held"}
           /\ UNCHANGED <<marble, verdict, minted, edits>>
  BY <1>2 DEF HasMintedId, UneditedIsOfRun, VerdictIsCurrent
<1>3. CASE MintRun /\ phase' = "verify"
  <2>1. PICK backed \in BOOLEAN, resources \in {"object", "nan", "other"} :
          LET core == CoreRecord(backed, resources)
          IN  Mintable(core) /\ marble' = Mint(core, FALSE) /\ minted' = core
    BY <1>3 DEF MintRun, Refuse
  <2> DEFINE core == CoreRecord(backed, resources)
  <2>2. /\ core \in Cores /\ core.class = "IMPLEMENTED"
        /\ core.provenance = "numbered" /\ core.policy = "committed"
        /\ core.actor = "UNATTESTED"
    BY RunCore
  <2> HIDE DEF core
  <2>3. /\ marble' = [core |-> core, id |-> core, attached |-> FALSE]
        /\ minted' = core /\ Mintable(core)
    BY <2>1, <2>2, MintGives DEF core
  <2>4. phase = "mint" /\ UNCHANGED <<verdict, edits>>
    BY <1>3 DEF MintRun, Refuse
  <2>5. HasMintedId' /\ UneditedIsOfRun'
    BY <2>2, <2>3 DEF HasMintedId, UneditedIsOfRun
  <2> QED
    BY <2>4, <2>5 DEF VerdictIsCurrent
<1>4. CASE VerifyRun
  <2>1. /\ phase = "verify" /\ phase' = "held"
        /\ verdict' = VerifyIntegrity(marble)
        /\ UNCHANGED <<marble, minted, edits>>
    BY <1>4 DEF VerifyRun
  <2> QED
    BY <2>1 DEF HasMintedId, UneditedIsOfRun, VerdictIsCurrent, VerifyIntegrity,
      StructureOk, Integrity, Content, EvidenceOk
<1>5. CASE Edit
  <2>1. /\ phase = "held" /\ phase' = "held" /\ edits' = edits + 1
        /\ verdict' = None /\ UNCHANGED minted
        /\ \E core \in Cores : marble' = [marble EXCEPT !.core = core]
    BY <1>5 DEF Edit
  <2>2. HasMintedId'
    BY <2>1 DEF HasMintedId
  <2> QED
    BY <2>1, <2>2 DEF UneditedIsOfRun, VerdictIsCurrent
<1>6. CASE Attach
  <2>1. /\ phase = "held" /\ phase' = "held" /\ UNCHANGED <<minted, edits>>
        /\ verdict' = None /\ marble' = [marble EXCEPT !.attached = TRUE]
    BY <1>6 DEF Attach
  <2>2. HasMintedId' /\ marble'.core = marble.core
    BY <2>1 DEF HasMintedId
  <2> QED
    BY <2>1, <2>2 DEF UneditedIsOfRun, VerdictIsCurrent
<1>7. CASE VerifyAgain
  <2>1. /\ phase = "held" /\ verdict' = VerifyIntegrity(marble)
        /\ UNCHANGED <<phase, marble, minted, edits>>
    BY <1>7 DEF VerifyAgain
  <2> QED
    BY <2>1 DEF HasMintedId, UneditedIsOfRun, VerdictIsCurrent, VerifyIntegrity,
      StructureOk, Integrity, Content, EvidenceOk
<1>8. CASE MintAgain
  <2>1. /\ phase = "held" /\ Mintable(marble.core)
        /\ marble' = Mint(marble.core, marble.attached)
        /\ minted' = marble.core /\ verdict' = None /\ UNCHANGED <<phase, edits>>
    BY <1>8 DEF MintAgain
  <2>2. marble.core \in Cores /\ marble.attached \in BOOLEAN
    BY <2>1 DEF HasMintedId
  <2>3. marble' = [core |-> marble.core, id |-> marble.core,
                   attached |-> marble.attached]
    BY <2>1, <2>2, MintGives
  <2>4. HasMintedId'
    BY <2>1, <2>2, <2>3 DEF HasMintedId
  <2> QED
    BY <2>1, <2>3, <2>4 DEF UneditedIsOfRun, VerdictIsCurrent
<1>9. Refinery \/ Schedule \/ Evaluate =>
        /\ phase \notin {"verify", "held"} /\ phase' \notin {"verify", "held"}
        /\ UNCHANGED <<marble, verdict, minted, edits>>
  BY DEF Refinery, Schedule, Evaluate, Refuse
<1>10. MintRun => \/ phase' = "verify"
                    \/ /\ phase \notin {"verify", "held"}
                       /\ phase' \notin {"verify", "held"}
                       /\ UNCHANGED <<marble, verdict, minted, edits>>
  BY DEF MintRun, Refuse
<1>11. VerifyRaises \/ Ended \/ UNCHANGED vars =>
         UNCHANGED <<phase, marble, verdict, minted, edits>>
  BY DEF VerifyRaises, Ended, vars
<1> QED
  BY <1>1, <1>2, <1>3, <1>4, <1>5, <1>6, <1>7, <1>8, <1>9, <1>10, <1>11 DEF Next

\* A Marble verifies exactly if its core is the one that was minted, after any
\* number of edits, attachments and mintings; that of a run verifies in every
\* respect.
THEOREM VerdictsTrackContent == Spec => []VerdictTracksContent
<1>1. Init => MarbleInv
  BY DEF Init, MarbleInv, HasMintedId, UneditedIsOfRun, VerdictIsCurrent
<1>2. MarbleInv => VerdictTracksContent
  <2> SUFFICES ASSUME MarbleInv PROVE VerdictTracksContent
    OBVIOUS
  <2>1. ASSUME verdict # None PROVE verdict.integrity <=> marble.core = minted
    <3>1. /\ verdict = VerifyIntegrity(marble) /\ marble.id = minted
          /\ Mintable(minted)
      BY <2>1 DEF MarbleInv, VerdictIsCurrent, HasMintedId
    <3>2. verdict.integrity <=> StructureOk(marble) /\ marble.id = marble.core
      BY <3>1 DEF VerifyIntegrity, Integrity, Content
    <3>3. marble.core = minted => StructureOk(marble)
      BY <3>1 DEF Mintable, StructureOk
    <3> QED
      BY <3>1, <3>2, <3>3
  <2>2. ASSUME phase = "held", edits = 0
        PROVE  /\ marble.core.class = "IMPLEMENTED"
               /\ verdict # None =>
                    /\ verdict.integrity /\ verdict.provenance
                    /\ verdict.policy /\ verdict.evidence
                    /\ verdict.attestation = "UNATTESTED"
    <3>1. /\ marble.core = minted /\ minted.class = "IMPLEMENTED"
          /\ minted.provenance = "numbered" /\ minted.policy = "committed"
          /\ minted.actor = "UNATTESTED"
      BY <2>2 DEF MarbleInv, UneditedIsOfRun
    <3>2. ASSUME verdict # None
          PROVE  /\ verdict.integrity /\ verdict.provenance
                 /\ verdict.policy /\ verdict.evidence
                 /\ verdict.attestation = "UNATTESTED"
      <4>1. verdict = VerifyIntegrity(marble)
        BY <3>2 DEF MarbleInv, VerdictIsCurrent
      <4>2. verdict.integrity
        BY <2>1, <3>1, <3>2
      <4>3. Integrity(marble)
        BY <4>1, <4>2 DEF VerifyIntegrity
      <4>4. /\ marble.core.provenance = "numbered"
            /\ marble.core.policy = "committed"
            /\ marble.core.actor = "UNATTESTED"
            /\ EvidenceOk(marble.core)
        BY <3>1 DEF EvidenceOk
      <4> QED
        BY <4>1, <4>2, <4>3, <4>4 DEF VerifyIntegrity
    <3> QED
      BY <3>1, <3>2
  <2> QED
    BY <2>1, <2>2 DEF VerdictTracksContent
<1> QED
  BY <1>1, <1>2, MarbleInductive, PTL DEF Spec
=============================================================================
