--------------------------- MODULE SignOffProofs ---------------------------
(***************************************************************************)
(* Signing a block off with any number of models, drafts, runs, kills and  *)
(* stronger testbenches: what an agent is shown and handed, and what the   *)
(* files hold.                                                             *)
(***************************************************************************)
EXTENDS SignOff, FiniteSetTheorems, WellFoundedInduction, TLAPS

-----------------------------------------------------------------------------
(* The greatest of some numbers.                                           *)

LEMMA NatMin == ASSUME NEW S, S \subseteq Nat, S # {}
                PROVE  \E x \in S : \A y \in S : x <= y
<1> DEFINE R == OpToRel(<, Nat)
<1>1. R = {p \in Nat \X Nat : p[1] < p[2]}
  BY DEF OpToRel
<1>2. IsWellFoundedOn(R, Nat)
  BY NatLessThanWellFounded
<1>3. \A x, y \in S : <<y, x>> \in R <=> y < x
  BY <1>1
<1> HIDE DEF R
<1>4. PICK x \in S : \A y \in S : ~(<<y, x>> \in R)
  BY <1>2, WFMin
<1>5. ASSUME NEW y \in S PROVE x <= y
  <2>1. ~(y < x) /\ x \in Nat /\ y \in Nat
    BY <1>3, <1>4
  <2>2. QED BY <2>1
<1>6. QED BY <1>5

LEMMA MinIn ==
  ASSUME NEW S, S \subseteq Nat, S # {}
  PROVE  Min(S) \in S /\ \A y \in S : Min(S) <= y
BY NatMin DEF Min

LEMMA MaxIn ==
  ASSUME NEW n \in Nat, NEW S, S \subseteq 0..n, S # {}
  PROVE  Max(S) \in S /\ \A y \in S : Max(S) >= y
<1> DEFINE T == {n - x : x \in S}
<1>1. T \subseteq Nat /\ T # {}
  <2>1. PICK x : x \in S
    OBVIOUS
  <2>2. n - x \in T
    BY <2>1
  <2>3. QED BY <2>2
<1>2. PICK t \in T : \A y \in T : t <= y
  BY <1>1, NatMin
<1>3. PICK x \in S : t = n - x
  BY <1>2
<1>4. \A y \in S : n - y \in T
  OBVIOUS
<1> HIDE DEF T
<1>5. \A y \in S : x >= y
  <2> SUFFICES ASSUME NEW y \in S PROVE x >= y
    OBVIOUS
  <2>1. n - x <= n - y
    BY <1>2, <1>3, <1>4
  <2>2. QED BY <2>1
<1>6. QED BY <1>5 DEF Max

\* Of some of the first n values of a function to the integers one is the
\* greatest: else take the least n for which there is none.
\* Of some of the first n values of a function to the integers one is the
\* greatest: take the least n for which there is none.
LEMMA Greatest ==
  ASSUME NEW n \in Nat, NEW f, \A i \in 1..n : f[i] \in Int, NEW S, S \subseteq 1..n, S # {}
  PROVE  \E i \in S : \A j \in S : f[j] <= f[i]
<1> DEFINE Has(T) == \E i \in T : \A j \in T : f[j] <= f[i]
           Bad == {m \in 0..n : \E T \in SUBSET (1..m) : T # {} /\ ~Has(T)}
<1>1. SUFFICES ASSUME Bad # {} PROVE FALSE
  <2>1. n \in 0..n /\ S \in SUBSET (1..n)
    OBVIOUS
  <2>2. n \notin Bad => Has(S)
    BY <2>1
  <2>3. QED BY <2>2
<1>b. Bad \subseteq 0..n
  OBVIOUS
<1>c. \A m \in Bad : \E T \in SUBSET (1..m) : T # {} /\ ~Has(T)
  OBVIOUS
<1>d. \A m \in (0..n) \ Bad : \A T \in SUBSET (1..m) : T = {} \/ Has(T)
  OBVIOUS
<1> HIDE DEF Bad
<1>2. PICK m \in Bad : \A k \in Bad : m <= k
  <2>1. Bad \subseteq Nat
    BY <1>b
  <2>2. QED BY <1>1, <2>1, NatMin
<1>3. PICK T \in SUBSET (1..m) : T # {} /\ ~Has(T)
  BY <1>c
<1>4. m \in 1..n /\ m - 1 \in 0..n /\ m - 1 \notin Bad
  <2>1. m \in 0..n
    BY <1>b
  <2>2. m # 0
    <3>1. PICK e : e \in T
      BY <1>3
    <3>2. e \in 1..m
      BY <3>1
    <3>3. QED BY <2>1, <3>2
  <2>3. m - 1 \in 0..n /\ ~(m <= m - 1)
    BY <2>1, <2>2
  <2>4. QED BY <1>2, <2>1, <2>2, <2>3
<1>5. \A U \in SUBSET (1..(m - 1)) : U = {} \/ Has(U)
  BY <1>4, <1>d
<1>6. T \ {m} \in SUBSET (1..(m - 1))
  BY <1>4
<1>7. T \ {m} # {} /\ m \in T
  <2>1. CASE m \notin T
    <3>1. T \ {m} = T
      BY <2>1
    <3> HIDE DEF Has
    <3>2. QED BY <1>3, <1>5, <1>6, <3>1
  <2>2. CASE T = {m}
    <3>1. f[m] <= f[m]
      BY <1>4
    <3>2. QED BY <1>3, <2>2, <3>1
  <2>3. QED BY <1>3, <2>1, <2>2
<1>8. PICK i \in T \ {m} : \A j \in T \ {m} : f[j] <= f[i]
  BY <1>5, <1>6, <1>7
<1>9. \A j \in T : f[j] \in Int
  BY <1>4
<1>10. CASE f[m] <= f[i]
  BY <1>3, <1>8, <1>10
<1>11. CASE f[i] <= f[m]
  <2>1. \A j \in T : f[j] <= f[m]
    BY <1>7, <1>8, <1>9, <1>11
  <2>2. QED BY <1>3, <1>7, <2>1
<1>12. QED BY <1>7, <1>8, <1>9, <1>10, <1>11
-----------------------------------------------------------------------------
(* What is handed on.                                                      *)

Gates == {"sim", "synth", "timing", "fpga", "contract"}

LEMMA VerdictTypes ==
  ASSUME NEW v \in Verdicts
  PROVE  /\ v.fails \in SUBSET Gates /\ v.slack \in Int
         /\ v # NoDraft
         /\ "contract" \in v.fails => Contract
<1>1. v.slack \in Slacks \cup {NoSlack}
  BY DEF Verdicts
<1>2. v.slack \in Int
  <2>1. NoSlack \in Int
    BY DEF NoSlack
  <2>2. Slacks \subseteq Int
    BY ChainAssumption
  <2>3. QED BY <1>1, <2>1, <2>2
<1>3. /\ v.fails \subseteq {"sim", "synth", "timing", "fpga", "contract"}
      /\ "contract" \in v.fails => Contract
  <2>1. CASE v \in {[fails |-> {g}, slack |-> NoSlack] : g \in {"sim", "synth"}}
    BY <2>1
  <2>2. CASE v \in [fails : SUBSET {"timing", "fpga"}, slack : Slacks \cup {NoSlack}]
    BY <2>2
  <2>3. CASE Contract /\ v.fails = {"contract"}
    BY <2>3
  <2>4. QED BY <2>1, <2>2, <2>3 DEF Verdicts
<1>4. v # NoDraft
  <2>1. "none" \notin v.fails
    BY <1>3
  <2>2. QED BY <2>1 DEF NoDraft
<1>5. QED BY <1>2, <1>3, <1>4 DEF Gates

LEMMA BestOf ==
  ASSUME NEW d \in Seq(Verdicts)
  PROVE  /\ best_of(d) = NoSeed \/
              \E i \in DOMAIN d :
                /\ best_of(d).draft = d[i] /\ ThroughSim(d[i])
                /\ best_of(d).fails = d[i].fails \ {"contract"}
                /\ best_of(d).passed \in {"sim", "synth"}
                /\ best_of(d).passed = "synth" => ThroughBoth(d[i])
         /\ \A i \in DOMAIN d :
              /\ ThroughSim(d[i]) => best_of(d) # NoSeed
              /\ ThroughBoth(d[i]) => /\ best_of(d).passed = "synth"
                                      /\ best_of(d).draft.slack >= d[i].slack
<1> DEFINE both == {i \in DOMAIN d : ThroughBoth(d[i])}
           sim_ok == {i \in DOMAIN d : ThroughSim(d[i])}
           best == {i \in both : \A j \in both : d[j].slack <= d[i].slack}
           chosen == IF both # {} THEN Closest(d, both) ELSE Max(sim_ok)
<1>1. Len(d) \in Nat /\ DOMAIN d = 1..Len(d) /\ \A i \in DOMAIN d : d[i] \in Verdicts
  OBVIOUS
<1>2. best_of(d) = IF sim_ok = {} THEN NoSeed
                   ELSE [draft |-> d[chosen],
                         fails |-> d[chosen].fails \cap {"sim", "synth", "timing", "fpga"},
                         passed |-> IF both # {} THEN "synth" ELSE "sim"]
  BY DEF best_of
<1>3. both \subseteq sim_ok
  BY DEF ThroughBoth, ThroughSim
<1>4. both # {} => best # {}
  <2> DEFINE f == [i \in 1..Len(d) |-> d[i].slack]
  <2>1. \A i \in 1..Len(d) : f[i] \in Int
    BY <1>1, VerdictTypes
  <2>2. both # {} => \E i \in both : \A j \in both : f[j] <= f[i]
    BY <1>1, <2>1, Greatest
  <2>3. QED BY <1>1, <2>2
<1>5. both # {} => chosen \in best
  <2>1. best \subseteq 0..Len(d)
    BY <1>1
  <2>2. best # {} => Max(best) \in best
    BY <1>1, <2>1, MaxIn
  <2>3. QED BY <1>4, <2>2 DEF Closest
<1>6. sim_ok # {} => chosen \in sim_ok
  <2>1. sim_ok \subseteq 0..Len(d)
    BY <1>1
  <2>2. sim_ok # {} => Max(sim_ok) \in sim_ok
    BY <1>1, <2>1, MaxIn
  <2>3. QED BY <1>3, <1>5, <2>2
<1> HIDE DEF chosen
<1>7. sim_ok # {} => \A g \in d[chosen].fails : g \in Gates
  BY <1>1, <1>6, VerdictTypes
<1>8. CASE sim_ok = {}
  BY <1>2, <1>3, <1>8
<1>9. CASE sim_ok # {}
  <2>1. best_of(d) = [draft |-> d[chosen], fails |-> d[chosen].fails \ {"contract"},
                      passed |-> IF both # {} THEN "synth" ELSE "sim"]
    BY <1>2, <1>7, <1>9 DEF Gates
  <2>2. best_of(d) # NoSeed
    BY <2>1 DEF NoSeed
  <2>3. \A i \in both : d[i].slack <= d[chosen].slack /\ d[i].slack \in Int
    BY <1>1, <1>5, VerdictTypes
  <2>4. chosen \in sim_ok /\ both # {} => chosen \in both
    BY <1>5, <1>6, <1>9
  <2>5. chosen \in DOMAIN d /\ ThroughSim(d[chosen]) /\ (both # {} => ThroughBoth(d[chosen]))
    BY <1>5, <1>6, <1>9
  <2>6. d[chosen].slack \in Int
    BY <1>1, <2>5, VerdictTypes
  <2>7. \A i \in DOMAIN d : ThroughBoth(d[i]) => i \in both
    OBVIOUS
  <2> HIDE DEF both, sim_ok, best
  <2>8. \A i \in DOMAIN d : ThroughBoth(d[i]) => /\ best_of(d).passed = "synth"
                                                 /\ best_of(d).draft.slack >= d[i].slack
    BY <2>1, <2>3, <2>6, <2>7
  <2>9. QED BY <2>1, <2>2, <2>5, <2>8
<1>10. QED BY <1>8, <1>9
-----------------------------------------------------------------------------
(* The chain.                                                              *)

Phases == {"drafting", "revising", "handing", "signed", "given up"}
Limit == IF kind = "llm" THEN NDrafts ELSE NSwarm

ChainTypes ==
  /\ kind \in Kinds /\ agent \in 1..(NModels + 1) /\ phase \in Phases
  /\ drafts \in [Models -> Seq(Verdicts)]

\* How many drafts each has given, and that none who is still at it has
\* given one that passes.
Given ==
  /\ \A m \in Models : Len(drafts[m]) <= Limit /\ (m > agent => drafts[m] = <<>>)
  /\ phase \in {"drafting", "revising"} /\ agent \in Models =>
       Len(Mine) < Limit /\ \A i \in DOMAIN Mine : Mine[i].fails # {}

\* The seed is the choice among the drafts of the model before.
Handed ==
  seed = IF agent \in Models \ {1} THEN best_of(drafts[agent - 1]) ELSE NoSeed

Alone == /\ kind = "swarm" => agent = 1
         /\ phase = "revising" => kind = "swarm"
         /\ phase = "handing" => agent \in Models

ChainInv == ChainTypes /\ Given /\ Handed /\ Alone

LEMMA ChainSizes ==
  /\ NModels \in Nat \ {0} /\ NDrafts \in Nat \ {0} /\ NSwarm \in Nat \ {0}
  /\ 1 \in Models /\ NModels + 1 \notin Models /\ Limit \in Nat \ {0}
  /\ \A a \in 1..(NModels + 1) : a # NModels + 1 => a \in Models
  /\ \A a \in Models : a \in Nat /\ a + 1 \in 1..(NModels + 1) /\ a # a + 1
                       /\ a + 1 # 1 /\ (a + 1) - 1 = a
  /\ \A a \in Models \ {1} : a - 1 \in Models /\ a - 1 # a /\ a - 1 < a
  /\ Kinds \subseteq {"llm", "swarm"}
BY ChainAssumption DEF Models, Limit

LEMMA ChainStarts ==
  ASSUME kind \in Kinds, agent = 1, phase = "drafting", seed = NoSeed,
         drafts = [m \in Models |-> <<>>]
  PROVE  ChainInv
BY ChainSizes DEF ChainInv, ChainTypes, Given, Handed, Alone, Phases, Mine

LEMMA ChainProposes ==
  ASSUME ChainInv, NEW v \in Verdicts, Propose(v) PROVE ChainInv'
<1>1. /\ phase \in {"drafting", "revising"} /\ agent \in Models
      /\ drafts' = [drafts EXCEPT ![agent] = Append(@, v)]
      /\ kind' = kind /\ agent' = agent /\ seed' = seed
  BY DEF Propose
<1>2. /\ drafts \in [Models -> Seq(Verdicts)] /\ Mine \in Seq(Verdicts)
      /\ Len(Mine) \in Nat /\ DOMAIN Mine = 1..Len(Mine)
  BY <1>1 DEF ChainInv, ChainTypes, Mine
<1>3. /\ drafts' \in [Models -> Seq(Verdicts)]
      /\ drafts'[agent] = Append(Mine, v)
      /\ \A m \in Models : m # agent => drafts'[m] = drafts[m]
  BY <1>1, <1>2 DEF Mine
<1>4. Limit' = Limit /\ (LastDraft <=> Len(Mine) + 1 = Limit)
  BY <1>1 DEF Limit, LastDraft
<1>5. Len(Append(Mine, v)) = Len(Mine) + 1
      /\ \A i \in DOMAIN Append(Mine, v) :
           Append(Mine, v)[i] = IF i \in DOMAIN Mine THEN Mine[i] ELSE v
  BY <1>2
<1>6. Len(Mine) < Limit /\ \A i \in DOMAIN Mine : Mine[i].fails # {}
  BY <1>1 DEF ChainInv, Given
<1>7. /\ phase' \in {"signed", "handing", "drafting"}
      /\ phase' = "drafting" => v.fails # {} /\ ~LastDraft
  BY DEF Propose
<1>8. Given'
  <2>1. \A m \in Models : Len(drafts'[m]) <= Limit'
                          /\ (m > agent' => drafts'[m] = <<>>)
    <3>1. \A m \in Models : m # agent =>
            Len(drafts'[m]) <= Limit' /\ (m > agent' => drafts'[m] = <<>>)
      BY <1>1, <1>3, <1>4 DEF ChainInv, Given
    <3>2. Len(drafts'[agent]) <= Limit /\ ~(agent > agent)
      <4>1. Len(drafts'[agent]) = Len(Mine) + 1 /\ agent \in Nat /\ Limit \in Nat
        BY <1>1, <1>3, <1>5, ChainSizes
      <4>2. QED BY <1>2, <1>6, <4>1
    <3>3. QED BY <1>1, <1>4, <3>1, <3>2
  <2>2. ASSUME phase' \in {"drafting", "revising"}
        PROVE  /\ Len(drafts'[agent]) < Limit
               /\ \A i \in DOMAIN drafts'[agent] : drafts'[agent][i].fails # {}
    <3>1. v.fails # {} /\ Len(Mine) + 1 # Limit
      BY <1>4, <1>7, <2>2
    <3>2. Len(Mine) + 1 < Limit
      <4>1. Limit \in Nat
        BY ChainSizes
      <4>2. QED BY <1>2, <1>6, <3>1, <4>1
    <3>3. \A i \in DOMAIN Append(Mine, v) : Append(Mine, v)[i].fails # {}
      BY <1>5, <1>6, <3>1
    <3>4. QED BY <1>3, <1>5, <3>2, <3>3
  <2>3. QED BY <1>1, <1>4, <2>1, <2>2 DEF Given, Mine
<1>9. Handed'
  BY <1>1, <1>3, ChainSizes DEF ChainInv, Handed
<1>10. ChainTypes' /\ Alone'
  BY <1>1, <1>3, <1>7 DEF ChainInv, ChainTypes, Alone, Phases
<1>11. QED BY <1>8, <1>9, <1>10 DEF ChainInv

LEMMA ChainHandsOn ==
  ASSUME ChainInv, HandOn PROVE ChainInv'
<1>1. /\ phase = "handing" /\ kind = "llm" /\ agent' = agent + 1 /\ phase' = "drafting"
      /\ seed' = (IF agent' \in Models THEN best_of(Mine) ELSE NoSeed)
      /\ kind' = kind /\ drafts' = drafts
  BY DEF HandOn
<1>2. agent \in Models
  BY <1>1 DEF ChainInv, Alone
<1>3. Given'
  <2>1. Limit' = Limit
    BY <1>1 DEF Limit
  <2>2. agent + 1 \in Models => drafts[agent + 1] = <<>>
    <3>1. agent + 1 > agent
      BY <1>2, ChainSizes
    <3>2. QED BY <3>1 DEF ChainInv, Given
  <2>3. \A m \in Models : m > agent + 1 => m > agent
    BY <1>2, ChainSizes
  <2>4. \A m \in Models : Len(drafts'[m]) <= Limit'
                          /\ (m > agent' => drafts'[m] = <<>>)
    BY <1>1, <2>1, <2>3 DEF ChainInv, Given
  <2>5. agent' \in Models => Mine' = <<>>
    BY <1>1, <2>2 DEF Mine
  <2>6. Len(<<>>) < Limit /\ \A i \in DOMAIN <<>> : FALSE
    BY ChainSizes
  <2>7. agent' \in Models => Len(Mine') < Limit' /\ \A i \in DOMAIN Mine' : Mine'[i].fails # {}
    BY <2>1, <2>5, <2>6
  <2> HIDE DEF Mine
  <2>8. QED BY <2>4, <2>7 DEF Given
<1>4. Handed'
  <2>1. agent' \in Models => agent' \in Models \ {1} /\ drafts'[agent' - 1] = Mine
    BY <1>1, <1>2, ChainSizes DEF Mine
  <2>2. QED BY <1>1, <2>1 DEF Handed
<1>5. ChainTypes' /\ Alone'
  BY <1>1, <1>2, ChainSizes DEF ChainInv, ChainTypes, Alone, Phases
<1>6. QED BY <1>3, <1>4, <1>5 DEF ChainInv

LEMMA ChainElse ==
  ASSUME ChainInv, UNCHANGED <<kind, agent, drafts, seed>>,
         \/ phase' = phase
         \/ phase' \in {"signed", "given up"}
         \/ phase' = "revising" /\ phase = "drafting" /\ kind = "swarm"
         \/ phase' = "handing" /\ agent \in Models
  PROVE  ChainInv'
BY DEF ChainInv, ChainTypes, Given, Handed, Alone, Phases, Limit, Mine

LEMMA ChainNext == ChainInv /\ [Next]_vars => ChainInv'
<1> SUFFICES ASSUME ChainInv, [Next]_vars PROVE ChainInv'
  OBVIOUS
<1>1. CASE \E v \in Verdicts : Propose(v)
  BY <1>1, ChainProposes
<1>2. CASE HandOn
  BY <1>2, ChainHandsOn
<1>3. CASE Reject \/ NoAnswer \/ Rules \/ SwarmEnds \/ Ended \/ UNCHANGED vars
  BY <1>3, ChainElse DEF Reject, NoAnswer, Rules, SwarmEnds, Ended, vars
<1>4. QED BY <1>1, <1>2, <1>3 DEF Next
-----------------------------------------------------------------------------
(* What a model is shown.                                                  *)

LEMMA ChainTyped == ChainInv => TypeOK
<1> SUFFICES ASSUME ChainInv PROVE TypeOK
  OBVIOUS
<1>1. \A m \in Models : Len(drafts[m]) <= Max({NDrafts, NSwarm})
  <2>1. {NDrafts, NSwarm} \subseteq 0..(NDrafts + NSwarm)
    BY ChainSizes
  <2>2. /\ Max({NDrafts, NSwarm}) \in {NDrafts, NSwarm}
        /\ Max({NDrafts, NSwarm}) >= NDrafts /\ Max({NDrafts, NSwarm}) >= NSwarm
    <3>1. NDrafts + NSwarm \in Nat
      BY ChainSizes
    <3>2. QED BY <2>1, <3>1, MaxIn
  <2>3. Limit <= Max({NDrafts, NSwarm})
    BY <2>2 DEF Limit
  <2>4. \A m \in Models : Len(drafts[m]) \in Nat /\ Len(drafts[m]) <= Limit
    BY DEF ChainInv, ChainTypes, Given
  <2>5. Max({NDrafts, NSwarm}) \in Nat /\ Limit \in Nat
    BY <2>2, ChainSizes
  <2> HIDE DEF Limit
  <2>6. QED BY <2>3, <2>4, <2>5
<1>2. \A m \in Models : \A i \in DOMAIN drafts[m] : drafts[m][i] \in Verdicts
  BY DEF ChainInv, ChainTypes
<1>3. seed.draft \in Verdicts \cup {NoDraft} /\ seed.passed \in {"none", "sim", "synth"}
  <2>1. CASE agent \in Models \ {1}
    <3> DEFINE d == drafts[agent - 1]
    <3>1. d \in Seq(Verdicts) /\ seed = best_of(d)
      BY <2>1, ChainSizes DEF ChainInv, ChainTypes, Handed
    <3> HIDE DEF d
    <3>2. CASE seed = NoSeed
      BY <3>2 DEF NoSeed
    <3>3. CASE seed # NoSeed
      <4>1. PICK i \in DOMAIN d : seed.draft = d[i] /\ seed.passed \in {"sim", "synth"}
        BY <3>1, <3>3, BestOf
      <4>2. QED BY <3>1, <4>1
    <3>4. QED BY <3>2, <3>3
  <2>2. CASE agent \notin Models \ {1}
    BY <2>2 DEF ChainInv, Handed, NoSeed
  <2>3. QED BY <2>1, <2>2
<1>4. QED BY <1>1, <1>2, <1>3 DEF ChainInv, ChainTypes, Phases, TypeOK

\* What a seed is, whoever handed it on.
LEMMA Seeded ==
  ASSUME ChainInv, seed # NoSeed
  PROVE  /\ seed.draft \in Verdicts /\ seed.fails = seed.draft.fails \ {"contract"}
         /\ seed.passed = "synth" => ThroughBoth(seed.draft)
         /\ kind = "llm"
<1>1. agent \in Models \ {1}
  BY DEF ChainInv, Handed
<1> DEFINE d == drafts[agent - 1]
<1>2. d \in Seq(Verdicts) /\ seed = best_of(d)
  BY <1>1, ChainSizes DEF ChainInv, ChainTypes, Handed
<1> HIDE DEF d
<1>3. PICK i \in DOMAIN d : /\ seed.draft = d[i] /\ seed.fails = d[i].fails \ {"contract"}
                            /\ seed.passed = "synth" => ThroughBoth(d[i])
  BY <1>2, BestOf
<1>4. kind = "llm"
  BY <1>1, ChainSizes DEF ChainInv, ChainTypes, Alone
<1>5. QED BY <1>2, <1>3, <1>4

LEMMA ChainHandedTheClosest == ChainInv => HandedTheClosest
<1> SUFFICES ASSUME ChainInv, Asking, agent > 1, NEW i \in DOMAIN drafts[agent - 1]
             PROVE  LET d == drafts[agent - 1][i] IN
                      /\ ThroughSim(d) => seed # NoSeed
                      /\ ThroughBoth(d) => seed.passed = "synth" /\ seed.draft.slack >= d.slack
  BY DEF HandedTheClosest
<1>1. agent \in Models \ {1}
  BY ChainSizes DEF Asking
<1>2. drafts[agent - 1] \in Seq(Verdicts) /\ seed = best_of(drafts[agent - 1])
  BY <1>1, ChainSizes DEF ChainInv, ChainTypes, Handed
<1>3. QED BY <1>2, BestOf

\* A draft with failures and no contract's is through both exactly when its
\* last gate ranks above synthesis.
LEMMA Ranks ==
  ASSUME NEW v \in Verdicts, v.fails # {}, "contract" \notin v.fails
  PROVE  _rank(v) \in 0..3 /\ (ThroughBoth(v) <=> _rank(v) >= 2)
<1> DEFINE S == {IF g \in DOMAIN STAGE_RANK THEN STAGE_RANK[g] ELSE -1 : g \in v.fails}
<1>1. v.fails \subseteq {"sim", "synth", "timing", "fpga"}
  BY VerdictTypes DEF Gates
<1>2. /\ DOMAIN STAGE_RANK = {"sim", "synth", "timing", "fpga"}
      /\ STAGE_RANK["sim"] = 0 /\ STAGE_RANK["synth"] = 1
      /\ STAGE_RANK["timing"] = 2 /\ STAGE_RANK["fpga"] = 3
  BY DEF STAGE_RANK
<1>3. S = {STAGE_RANK[g] : g \in v.fails} /\ S # {} /\ S \subseteq 0..3
  BY <1>1, <1>2
<1>4. _rank(v) = Max(S)
  BY DEF _rank
<1>5. Max(S) \in S /\ \A y \in S : Max(S) >= y
  BY <1>3, MaxIn
<1> HIDE DEF S
<1>6. PICK g \in v.fails : Max(S) = STAGE_RANK[g]
  BY <1>3, <1>5
<1>7. CASE ThroughBoth(v)
  <2>1. g \in {"timing", "fpga"}
    BY <1>1, <1>7 DEF ThroughBoth
  <2>2. QED BY <1>2, <1>4, <1>6, <1>7, <2>1
<1>8. CASE ~ThroughBoth(v)
  <2>1. v.fails \in {{"sim"}, {"synth"}}
    BY <1>1, <1>8 DEF Verdicts, ThroughBoth
  <2>2. QED BY <1>2, <1>4, <1>6, <1>8, <2>1
<1>9. QED BY <1>7, <1>8
LEMMA MineTypes ==
  ASSUME ChainInv, agent \in Models
  PROVE  /\ Mine \in Seq(Verdicts) /\ Len(Mine) \in Nat /\ DOMAIN Mine = 1..Len(Mine)
         /\ \A i \in DOMAIN Mine : Mine[i] \in Verdicts
         /\ Mine # <<>> => Len(Mine) \in DOMAIN Mine
         /\ Mine = <<>> => DOMAIN Mine = {}
BY DEF ChainInv, ChainTypes, Mine

LEMMA ChainNeverBuilds ==
  ASSUME ~Contract \/ "swarm" \notin Kinds, ChainInv PROVE NeverBuildsOnWorse
<1> SUFFICES ASSUME Asking,
                    seed.passed = "synth" \/ \E i \in DOMAIN Mine : ThroughBoth(Mine[i])
             PROVE  ThroughBoth(Shown.draft)
  BY DEF NeverBuildsOnWorse
<1>1. agent \in Models /\ phase = "drafting" /\ kind \in {"llm", "swarm"}
  BY ChainSizes DEF Asking, ChainInv, ChainTypes
<1>2. seed.passed = "synth" => seed # NoSeed /\ ThroughBoth(seed.draft)
  BY Seeded DEF NoSeed
<1>3. CASE kind = "llm"
  <2>1. CASE Mine # <<>> /\ ~ThroughBoth(Mine[Len(Mine)])
    <3>1. CASE Earlier # {}
      <4>1. Earlier \subseteq 0..Len(Mine)
        BY <1>1, MineTypes DEF Earlier
      <4>2. Max(Earlier) \in Earlier
        BY <1>1, <3>1, <4>1, MineTypes, MaxIn
      <4>3. Shown = MineShown(Max(Earlier))
        BY <1>3, <2>1, <3>1 DEF Shown, LLMShown
      <4>4. QED BY <4>2, <4>3 DEF MineShown, Earlier
    <3>2. CASE Earlier = {}
      <4>1. \A i \in DOMAIN Mine : ~ThroughBoth(Mine[i])
        <5>1. \A i \in DOMAIN Mine : i = Len(Mine) \/ i \in 1..(Len(Mine) - 1)
          BY <1>1, MineTypes
        <5>2. QED BY <2>1, <3>2, <5>1 DEF Earlier
      <4>2. Shown = SeedShown /\ ThroughBoth(seed.draft)
        BY <1>2, <1>3, <2>1, <3>2, <4>1 DEF Shown, LLMShown
      <4>3. QED BY <4>2 DEF SeedShown
    <3>3. QED BY <3>1, <3>2
  <2>2. CASE Mine # <<>> /\ ThroughBoth(Mine[Len(Mine)])
    BY <1>3, <2>2 DEF Shown, LLMShown, LatestShown
  <2>3. CASE Mine = <<>>
    <3>1. Shown = SeedShown /\ ThroughBoth(seed.draft)
      BY <1>1, <1>2, <1>3, <2>3, MineTypes DEF Shown, LLMShown
    <3>2. QED BY <3>1 DEF SeedShown
  <2>4. QED BY <2>1, <2>2, <2>3
<1>4. CASE kind = "swarm"
  <2> DEFINE rank(i) == _rank(Mine[i])
             top == {i \in DOMAIN Mine : \A k \in DOMAIN Mine : rank(k) <= rank(i)}
  <2>1. \A i \in DOMAIN Mine : rank(i) \in 0..3 /\ (ThroughBoth(Mine[i]) <=> rank(i) >= 2)
    <3>1. ~Contract
      BY <1>4 DEF ChainInv, ChainTypes
    <3>2. \A i \in DOMAIN Mine : /\ Mine[i] \in Verdicts /\ Mine[i].fails # {}
                                 /\ "contract" \notin Mine[i].fails
      BY <1>1, <3>1, MineTypes, VerdictTypes DEF ChainInv, Given
    <3>3. QED BY <3>2, Ranks
  <2>2. seed = NoSeed
    BY <1>4, Seeded
  <2>3. PICK i \in DOMAIN Mine : ThroughBoth(Mine[i])
    BY <2>2 DEF NoSeed
  <2>4. Mine # <<>> /\ Len(Mine) \in DOMAIN Mine
    BY <1>1, <2>3, MineTypes
  <2>5. Furthest \in DOMAIN Mine /\ rank(i) <= rank(Furthest)
    <3> DEFINE f == [k \in 1..Len(Mine) |-> rank(k)]
    <3>1. \A k \in 1..Len(Mine) : f[k] \in Int
      BY <1>1, <2>1, MineTypes
    <3>2. \E k \in DOMAIN Mine : \A j \in DOMAIN Mine : f[j] <= f[k]
      BY <1>1, <2>3, <3>1, MineTypes, Greatest
    <3>3. top # {} /\ top \subseteq Nat
      BY <1>1, <3>2, MineTypes
    <3>4. Furthest = Min(top)
      BY DEF Furthest
    <3>5. Furthest \in top
      BY <3>3, <3>4, MinIn
    <3>6. QED BY <3>5
  <2>6. Shown.draft = IF rank(Furthest) > rank(Len(Mine)) THEN Mine[Furthest]
                      ELSE Mine[Len(Mine)]
    BY <1>1, <1>4, <2>4 DEF Shown, SwarmShown, LatestShown
  <2> HIDE DEF rank, top
  <2>7. rank(i) >= 2 /\ rank(i) \in Nat /\ rank(Furthest) \in Nat /\ rank(Len(Mine)) \in Nat
    BY <2>1, <2>3, <2>4, <2>5
  <2>8. rank(Furthest) >= 2 /\ (~(rank(Furthest) > rank(Len(Mine))) => rank(Len(Mine)) >= 2)
    BY <2>5, <2>7
  <2>9. QED BY <2>1, <2>4, <2>5, <2>6, <2>8
<1>5. QED BY <1>1, <1>3, <1>4
\* The latest draft's failures are among those there is room for.
LEMMA LatestKept ==
  ASSUME ChainInv, agent \in Models, Mine # <<>>, NEW g \in Mine[Len(Mine)].fails
  PROVE  <<Len(Mine), g>> \in history
<1> DEFINE n == Len(Mine)
           all == UNION {Records(i, Mine[i].fails) : i \in DOMAIN Mine}
           later == {y \in all : After(y, <<n, g>>)}
<1>1. n \in DOMAIN Mine /\ n \in Nat /\ DOMAIN Mine = 1..n /\ Mine[n] \in Verdicts
  BY MineTypes
<1>2. <<n, g>> \in all
  BY <1>1 DEF Records
<1>3. later \subseteq {<<n, "fpga">>}
  <2> SUFFICES ASSUME NEW y \in later PROVE y = <<n, "fpga">>
    OBVIOUS
  <2>1. PICK i \in DOMAIN Mine : y \in Records(i, Mine[i].fails)
    OBVIOUS
  <2>2. PICK h \in Mine[i].fails : y = <<i, h>>
    BY <2>1 DEF Records
  <2>3. After(<<i, h>>, <<n, g>>)
    BY <2>2
  <2>4. i \in Nat /\ i <= n
    BY <1>1
  <2>5. i = n /\ Gate[h] > Gate[g]
    BY <1>1, <2>3, <2>4 DEF After
  <2>6. g \in Mine[n].fails /\ h \in Mine[n].fails /\ Mine[n].fails \subseteq Gates
    BY <1>1, <2>2, <2>5, VerdictTypes
  <2>7. /\ Gate["sim"] = 1 /\ Gate["synth"] = 2 /\ Gate["timing"] = 3
        /\ Gate["fpga"] = 4 /\ Gate["contract"] = 5
    BY DEF Gate
  <2>8. g # h
    BY <2>5, <2>6, <2>7 DEF Gates
  <2>9. g \in {"timing", "fpga"} /\ h \in {"timing", "fpga"}
    BY <1>1, <2>6, <2>8 DEF Verdicts
  <2>10. h = "fpga"
    BY <2>5, <2>7, <2>8, <2>9
  <2>11. QED BY <2>2, <2>5, <2>10
<1>4. Cardinality(later) < MAX_FEEDBACK
  <2>1. IsFiniteSet({<<n, "fpga">>}) /\ Cardinality({<<n, "fpga">>}) = 1
    BY FS_Singleton
  <2>2. IsFiniteSet(later) /\ Cardinality(later) <= 1
    BY <1>3, <2>1, FS_Subset
  <2>3. Cardinality(later) \in Nat
    BY <2>2, FS_CardinalityType
  <2>4. QED BY <2>2, <2>3 DEF MAX_FEEDBACK
<1>5. history = {x \in all : Cardinality({y \in all : After(y, x)}) < MAX_FEEDBACK}
  BY DEF history, condense_feedback
<1> HIDE DEF all
<1>6. QED BY <1>2, <1>4, <1>5

LEMMA ChainShown ==
  ASSUME ~Contract, ChainInv PROVE ShownWithItsFailures
<1> SUFFICES ASSUME Asking, kind = "llm", Shown.draft # NoDraft, NEW g \in Shown.draft.fails
             PROVE  <<Shown.base, g>> \in Shown.records
  BY DEF ShownWithItsFailures
<1>1. agent \in Models /\ Shown = LLMShown
  BY DEF Asking, Shown
<1>2. CASE \E i \in DOMAIN Mine : Shown = MineShown(i)
  BY <1>2 DEF MineShown, Records
<1>3. CASE Shown = SeedShown /\ seed # NoSeed
  <2>1. seed.draft \in Verdicts /\ seed.fails = seed.draft.fails \ {"contract"}
    BY <1>3, Seeded
  <2>2. g \in seed.fails
    BY <1>3, <2>1, VerdictTypes DEF SeedShown
  <2>3. QED BY <1>3, <2>2 DEF SeedShown, Records
<1>4. CASE Shown = LatestShown
  <2>1. Mine # <<>> /\ Shown.draft = Mine[Len(Mine)]
    BY <1>4 DEF LatestShown
  <2>2. QED BY <1>1, <1>4, <2>1, LatestKept DEF LatestShown
<1>5. \/ \E i \in DOMAIN Mine : Shown = MineShown(i)
      \/ Shown = SeedShown /\ seed # NoSeed
      \/ Shown = LatestShown
  <2>1. Earlier # {} => Max(Earlier) \in DOMAIN Mine
    <3>1. Earlier \subseteq 0..Len(Mine) /\ Earlier \subseteq DOMAIN Mine
      BY <1>1, MineTypes DEF Earlier
    <3>2. QED BY <1>1, <3>1, MineTypes, MaxIn
  <2>2. QED BY <1>1, <2>1 DEF LLMShown
<1>6. QED BY <1>2, <1>3, <1>4, <1>5
-----------------------------------------------------------------------------
(* The files.                                                              *)

\* A converged report goes with its design unless a run was killed in
\* between, and then the testbench is still the one they passed.
FilesInv ==
  /\ Files!TypeOK /\ Files!DesignOnceSigned
  /\ row # "none" => run = "none"
  /\ run = "reported" => report = "converged"
  /\ killed = 0 /\ run = "none" /\ report = "converged" => design = rtl
  /\ ~Mixed => bench = 0 \/ killed = 0
  /\ ~Mixed => Files!DesignPasses

LEMMA FilesStart == SignOffInit => FilesInv
BY FilesAssumption
   DEF SignOffInit, Files!Init, FilesInv, Files!TypeOK, Files!DesignOnceSigned,
       Files!DesignPasses, Files!NoFile

LEMMA FilesRanges ==
  ASSUME FilesInv
  PROVE  /\ bench \in Nat /\ bench <= MaxBench /\ runs \in Nat /\ runs <= MaxRuns
         /\ killed \in Nat /\ killed <= MaxKilled
         /\ MaxBench \in Nat /\ MaxRuns \in Nat /\ MaxKilled \in Nat
         /\ rtl \in Files!Drafts \cup {Files!NoFile}
         /\ run = "reported" => rtl.rest /\ rtl.upto >= bench
<1>1. bench \in 0..MaxBench /\ runs \in 0..MaxRuns /\ killed \in 0..MaxKilled
  BY DEF FilesInv, Files!TypeOK
<1>2. MaxBench \in Nat /\ MaxRuns \in Nat /\ MaxKilled \in Nat
  BY FilesAssumption
<1>3. rtl \in Files!Drafts \cup {Files!NoFile}
  BY DEF FilesInv, Files!TypeOK
<1>4. run = "reported" => rtl.rest /\ rtl.upto >= bench
  BY DEF FilesInv, Files!TypeOK, Files!Passes, Files!PassesSim
<1>5. QED BY <1>1, <1>2, <1>3, <1>4

LEMMA FilesBegin ==
  ASSUME FilesInv, NEW resume \in BOOLEAN, Files!Begin(resume) PROVE FilesInv'
<1>1. /\ run = "none" /\ runs < MaxRuns /\ runs' = runs + 1
      /\ bench' = bench /\ report' = report /\ rtl' = rtl /\ design' = design /\ killed' = killed
      /\ \/ Files!Kept /\ row' = "kept" /\ run' = run
         \/ row' = "none" /\ run' = "drafting"
  BY DEF Files!Begin, Files!disk
<1>2. Files!TypeOK'
  <2>1. runs' \in 0..MaxRuns
    BY <1>1, FilesRanges
  <2>2. QED BY <1>1, <2>1 DEF FilesInv, Files!TypeOK
<1>3. ASSUME ~Mixed, Files!Kept PROVE Files!Passes(design)
  <2>1. report = "converged" /\ design # Files!NoFile /\ Files!PassesSim(Files!_kept_source)
    BY <1>3 DEF Files!Kept
  <2>2. design.rest /\ design.upto >= 0
    BY <2>1 DEF FilesInv, Files!DesignOnceSigned
  <2>3. CASE killed = 0
    <3>1. Files!_kept_source = design
      BY <1>1, <2>1, <2>3 DEF FilesInv, Files!_kept_source
    <3>2. QED BY <2>1, <2>2, <3>1 DEF Files!Passes
  <2>4. CASE bench = 0
    BY <2>2, <2>4 DEF Files!Passes, Files!PassesSim
  <2>5. QED BY <1>3, <2>3, <2>4 DEF FilesInv
<1>4. ~Mixed => Files!DesignPasses'
  BY <1>1, <1>3 DEF Files!DesignPasses, Files!Passes, Files!PassesSim
<1>5. QED BY <1>1, <1>2, <1>4 DEF FilesInv, Files!DesignOnceSigned

LEMMA FilesDraft ==
  ASSUME FilesInv, NEW d \in Files!Drafts, Files!Draft(d) PROVE FilesInv'
<1>1. /\ run = "drafting" /\ rtl' = d
      /\ run' = IF Files!Converges(d) THEN "passed" ELSE "drafting"
      /\ UNCHANGED <<bench, row, report, design, runs, killed>>
  BY DEF Files!Draft
<1>2. Files!TypeOK'
  BY <1>1 DEF FilesInv, Files!TypeOK, Files!Converges, Files!Passes, Files!PassesSim
<1>3. QED
  BY <1>1, <1>2 DEF FilesInv, Files!DesignOnceSigned, Files!DesignPasses

LEMMA FilesEnd ==
  ASSUME FilesInv, NEW again \in BOOLEAN, Files!AgentEnds(again) PROVE FilesInv'
BY DEF Files!AgentEnds, FilesInv, Files!TypeOK, Files!DesignOnceSigned, Files!DesignPasses,
       Files!Passes, Files!PassesSim

LEMMA FilesReport == ASSUME FilesInv, Files!Report PROVE FilesInv'
BY DEF Files!Report, FilesInv, Files!TypeOK, Files!DesignOnceSigned, Files!DesignPasses,
       Files!Passes, Files!PassesSim

LEMMA FilesInstall == ASSUME FilesInv, Files!Install PROVE FilesInv'
<1>1. /\ run = "reported" /\ design' = rtl /\ row' = "signed off" /\ run' = "none"
      /\ UNCHANGED <<bench, report, rtl, runs, killed>>
  BY DEF Files!Install
<1>2. rtl.rest /\ rtl.upto >= bench /\ bench \in Nat /\ rtl \in Files!Drafts \cup {Files!NoFile}
  BY <1>1, FilesRanges
<1>3. rtl.upto \in Int
  BY <1>2, FilesAssumption DEF Files!Drafts, Files!NoFile
<1>4. rtl.upto >= 0
  BY <1>2, <1>3
<1>5. QED
  BY <1>1, <1>2, <1>4 DEF FilesInv, Files!TypeOK, Files!DesignOnceSigned, Files!DesignPasses,
                     Files!Passes, Files!PassesSim

LEMMA FilesKilled == ASSUME FilesInv, Interrupted PROVE FilesInv'
<1>1. /\ run # "none" /\ killed < MaxKilled /\ run' = "none" /\ killed' = killed + 1
      /\ UNCHANGED <<bench, row, report, rtl, design, runs>> /\ (Mixed \/ bench = 0)
  BY DEF Interrupted, Files!Interrupt, Files!disk
<1>2. killed' \in 0..MaxKilled /\ killed' # 0
  BY <1>1, FilesRanges
<1>3. QED
  BY <1>1, <1>2 DEF FilesInv, Files!TypeOK, Files!DesignOnceSigned, Files!DesignPasses

LEMMA FilesStronger == ASSUME FilesInv, Strengthened PROVE FilesInv'
<1>1. /\ run = "none" /\ bench < MaxBench /\ bench' = bench + 1 /\ row' = "none"
      /\ UNCHANGED <<run, report, rtl, design, runs, killed>> /\ (Mixed \/ killed = 0)
  BY DEF Strengthened, Files!Strengthen, Files!disk
<1>2. bench' \in 0..MaxBench
  BY <1>1, FilesRanges
<1>3. QED
  BY <1>1, <1>2 DEF FilesInv, Files!TypeOK, Files!DesignOnceSigned, Files!DesignPasses
-----------------------------------------------------------------------------
(* The two together.                                                       *)

IInv == ChainInv /\ FilesInv

LEMMA ChainRestarts == ASSUME ChainInv, NoAgents PROVE ChainInv'
<1>1. /\ kind' = kind /\ agent' = 1 /\ phase' = "drafting" /\ seed' = NoSeed
      /\ drafts' = [m \in Models |-> <<>>] /\ kind \in Kinds
  BY DEF NoAgents, ChainInv, ChainTypes
<1>2. \A m \in Models : drafts'[m] = <<>>
  BY <1>1
<1>3. drafts' \in [Models -> Seq(Verdicts)]
  BY <1>1
<1>4. Mine' = <<>> /\ Limit' = Limit
  BY <1>1, <1>2, ChainSizes DEF Mine, Limit
<1>5. Len(<<>>) = 0 /\ DOMAIN <<>> = {} /\ Limit \in Nat /\ Limit > 0
  BY ChainSizes
<1> HIDE DEF Mine, Limit
<1>6. Given'
  BY <1>2, <1>4, <1>5 DEF Given
<1>7. ChainTypes' /\ Handed' /\ Alone'
  BY <1>1, <1>3, ChainSizes DEF ChainTypes, Handed, Alone, Phases
<1>8. QED BY <1>6, <1>7 DEF ChainInv

LEMMA InitInv == SignOffInit => IInv
BY FilesStart, ChainStarts DEF SignOffInit, Init, IInv

LEMMA NextInv == IInv /\ [SignOffNext]_<<vars, onDisk>> => IInv'
<1> SUFFICES ASSUME IInv, [SignOffNext]_<<vars, onDisk>> PROVE ChainInv' /\ FilesInv'
  BY DEF IInv
<1>i. ChainInv /\ FilesInv
  BY DEF IInv
<1>u. ASSUME UNCHANGED vars PROVE ChainInv'
  BY <1>i, <1>u, ChainElse DEF vars
<1>f. ASSUME UNCHANGED onDisk PROVE FilesInv'
  BY <1>i, <1>f DEF onDisk, FilesInv, Files!TypeOK, Files!DesignOnceSigned, Files!DesignPasses,
                    Files!Passes, Files!PassesSim
<1>1. CASE \E resume \in BOOLEAN : Files!Begin(resume) /\ UNCHANGED vars
  BY <1>i, <1>u, <1>1, FilesBegin
<1>2. CASE \E v \in Verdicts : ModelDrafts(v)
  <2>1. PICK v \in Verdicts : Propose(v) /\ \E d \in Judged(v) : Files!Draft(d)
    BY <1>2 DEF ModelDrafts
  <2>2. PICK d \in Files!Drafts : Files!Draft(d)
    BY <2>1 DEF Judged
  <2>3. QED BY <1>i, <2>1, <2>2, ChainProposes, FilesDraft
<1>3. CASE Review \/ ModelStops
  <2>1. UNCHANGED onDisk /\ (Reject \/ NoAnswer)
    BY <1>3 DEF Review, ModelStops
  <2>2. QED BY <1>i, <1>f, <2>1, ChainElse DEF Reject, NoAnswer
<1>4. CASE NextAgent
  BY <1>i, <1>4, ChainHandsOn, FilesEnd DEF NextAgent
<1>5. CASE \E d \in Files!Drafts : RulesDraft(d)
  <2>1. PICK d \in Files!Drafts : RulesDraft(d)
    BY <1>5
  <2>2. Files!Draft(d) /\ (phase' = phase \/ phase' = "signed")
        /\ UNCHANGED <<kind, agent, drafts, seed>>
    BY <2>1 DEF RulesDraft
  <2>3. QED BY <1>i, <2>2, ChainElse, FilesDraft
<1>6. CASE ChainEnds
  BY <1>i, <1>6, ChainRestarts, FilesEnd DEF ChainEnds
<1>7. CASE Files!Report /\ UNCHANGED vars
  BY <1>i, <1>u, <1>7, FilesReport
<1>8. CASE Files!Install /\ NoAgents
  BY <1>i, <1>8, ChainRestarts, FilesInstall
<1>9. CASE Interrupted
  BY <1>i, <1>9, ChainRestarts, FilesKilled DEF Interrupted
<1>10. CASE Strengthened
  BY <1>i, <1>u, <1>10, FilesStronger DEF Strengthened
<1>11. CASE UNCHANGED <<vars, onDisk>>
  BY <1>u, <1>f, <1>11
<1>12. QED
  BY <1>1, <1>2, <1>3, <1>4, <1>5, <1>6, <1>7, <1>8, <1>9, <1>10, <1>11 DEF SignOffNext

\* What every history of a block's sign-off keeps to.
THEOREM SignOffInvariant == SignOffSpec => []IInv
BY InitInv, NextInv, PTL DEF SignOffSpec

\* Types of what the agents know and of the files.
THEOREM SignOffTypes == SignOffSpec => [](TypeOK /\ Files!TypeOK)
<1>1. IInv => TypeOK /\ Files!TypeOK
  BY ChainTyped DEF IInv, FilesInv
<1>2. QED BY <1>1, SignOffInvariant, PTL

\* No model is asked to revise a draft that broke the simulation once there is
\* one that did not.  A swarm that has the contract for a gate gives it no
\* rank, and is left out.
THEOREM SignOffNeverBuilds ==
  ASSUME ~Contract \/ "swarm" \notin Kinds PROVE SignOffSpec => []NeverBuildsOnWorse
<1>1. IInv => NeverBuildsOnWorse
  BY ChainNeverBuilds DEF IInv
<1>2. QED BY <1>1, SignOffInvariant, PTL

\* Each failure of the draft a model is shown is shown with it, as long as the
\* contract is no gate.
THEOREM SignOffShown == ASSUME ~Contract PROVE SignOffSpec => []ShownWithItsFailures
<1>1. IInv => ShownWithItsFailures
  BY ChainShown DEF IInv
<1>2. QED BY <1>1, SignOffInvariant, PTL

\* The model is handed the draft nearest to its timing of the model before.
THEOREM SignOffHanded == SignOffSpec => []HandedTheClosest
<1>1. IInv => HandedTheClosest
  BY ChainHandedTheClosest DEF IInv
<1>2. QED BY <1>1, SignOffInvariant, PTL

\* What a run says is signed off, or kept, passes the testbench of now, in every
\* history without both a kill and a stronger testbench.
THEOREM SignOffDesignPasses == ASSUME ~Mixed PROVE SignOffSpec => []DesignPasses
<1>1. IInv => DesignPasses
  BY DEF IInv, FilesInv, DesignPasses
<1>2. QED BY <1>1, SignOffInvariant, PTL

\* The design file never holds a draft that failed a gate.
THEOREM SignOffDesignOnceSigned == SignOffSpec => []DesignOnceSigned
<1>1. IInv => DesignOnceSigned
  BY DEF IInv, FilesInv, DesignOnceSigned
<1>2. QED BY <1>1, SignOffInvariant, PTL
=============================================================================
