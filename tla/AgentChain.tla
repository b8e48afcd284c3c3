----------------------------- MODULE AgentChain -----------------------------
(***************************************************************************)
(* One block's way through the chain of agents (spec2rtl.py, _sign_off):   *)
(* each language model in turn gets NDrafts drafts, each draft goes        *)
(* through the gates of chiplet_flow.run_flow, and what failed is shown to *)
(* the model with the draft it is to revise (llm_agent.py, LLMAgent).  The *)
(* next model may be handed a draft of the one before; the rule-based      *)
(* agent comes last.  Or the chain is a swarm alone (swarm.py): one writer *)
(* that starts from the attempt that got furthest, and a reviewer that may *)
(* send a draft back once.  A draft is what the gates say of it.           *)
(***************************************************************************)
EXTENDS Integers, Sequences, FiniteSetsExt

CONSTANTS Kinds,     \* of agents: "llm", a chain of models and the rules; "swarm"
          NModels,   \* language models in the chain
          NDrafts,   \* drafts each may give
          NSwarm,    \* drafts the swarm may give
          Slacks,    \* worst slacks timing may report
          Contract   \* whether the formal contract is a gate

NoSlack == -100      \* no slack reported: the timing proxy, or no timing at all

ASSUME ChainAssumption ==
  /\ Kinds \subseteq {"llm", "swarm"}
  /\ NModels \in Nat \ {0} /\ NDrafts \in Nat \ {0} /\ NSwarm \in Nat \ {0}
  /\ Slacks \subseteq {s \in Int : s > NoSlack} /\ Contract \in BOOLEAN

Models == 1..NModels

\* What the gates say: simulation first, then synthesis, then timing and
\* mapping together, and the contract only of a draft that passes the rest.
Verdicts ==
  {[fails |-> {g}, slack |-> NoSlack] : g \in {"sim", "synth"}}
  \cup {v \in [fails : SUBSET {"timing", "fpga"}, slack : Slacks \cup {NoSlack}] :
          v.slack # NoSlack => ("timing" \in v.fails <=> v.slack < 0)}
  \cup (IF Contract THEN [fails : {{"contract"}},
                       slack : {s \in Slacks \cup {NoSlack} : s >= 0 \/ s = NoSlack}] ELSE {})

NoDraft == [fails |-> {"none"}, slack |-> NoSlack]
NoSeed == [draft |-> NoDraft, fails |-> {}, passed |-> "none"]

VARIABLES
  kind,     \* what the chain is of
  agent,    \* whose turn it is; NModels + 1 is the rule-based agent
  phase,    \* drafting, revising, handing on, signed off or given up
  drafts,   \* each model's drafts, in order
  seed      \* the draft the model was handed: its failure records, what it passed

vars == <<kind, agent, phase, drafts, seed>>

Init == /\ kind \in Kinds
        /\ agent = 1 /\ phase = "drafting"
        /\ drafts = [m \in Models |-> <<>>]
        /\ seed = NoSeed

ThroughBoth(v) == v.fails \cap {"none", "sim", "synth"} = {}
ThroughSim(v) == v.fails \cap {"none", "sim"} = {}

-----------------------------------------------------------------------------
(* What a model is shown: a draft, numbered within its flow and 0 if it    *)
(* was handed on, and failure records, each of one draft and one gate.     *)

Mine == drafts[agent]
Records(i, fails) == {i} \X fails

\* Of a flow's records a prompt has room for the latest.
MAX_FEEDBACK == 4
Gate == [sim |-> 1, synth |-> 2, timing |-> 3, fpga |-> 4, contract |-> 5]
After(x, y) == x[1] > y[1] \/ (x[1] = y[1] /\ Gate[x[2]] > Gate[y[2]])
condense_feedback(records) ==
  {x \in records : Cardinality({y \in records : After(y, x)}) < MAX_FEEDBACK}
history == condense_feedback(UNION {Records(i, Mine[i].fails) : i \in DOMAIN Mine})

MineShown(i) == [base |-> i, draft |-> Mine[i], records |-> Records(i, Mine[i].fails)]
SeedShown == [base |-> 0, draft |-> seed.draft, records |-> Records(0, seed.fails)]
LatestShown ==
  [base |-> Len(Mine), draft |-> IF Mine = <<>> THEN NoDraft ELSE Mine[Len(Mine)],
   records |-> history]

\* The latest draft through simulation and synthesis but the last one.
Earlier == {i \in 1..(Len(Mine) - 1) : ThroughBoth(Mine[i])}

LLMShown ==
  IF Mine # <<>> /\ ~ThroughBoth(Mine[Len(Mine)])
  THEN IF Earlier # {} THEN MineShown(Max(Earlier))
       ELSE IF seed # NoSeed THEN SeedShown ELSE LatestShown
  ELSE IF Mine = <<>> /\ seed # NoSeed THEN SeedShown ELSE LatestShown

\* The swarm's writer starts from the first of the attempts that got
\* furthest, unless the latest got as far; after a rejection it revises that
\* draft, which no gate has judged.  A gate that has no rank counts as none.
STAGE_RANK == [sim |-> 0, synth |-> 1, timing |-> 2, fpga |-> 3]
_rank(v) == Max({IF g \in DOMAIN STAGE_RANK THEN STAGE_RANK[g] ELSE -1 : g \in v.fails})
Furthest == Min({i \in DOMAIN Mine : \A k \in DOMAIN Mine : _rank(Mine[k]) <= _rank(Mine[i])})
SwarmShown ==
  IF phase = "revising" THEN [base |-> Len(Mine) + 1, draft |-> NoDraft, records |-> history]
  ELSE IF Mine # <<>> /\ _rank(Mine[Furthest]) > _rank(Mine[Len(Mine)])
       THEN [base |-> Furthest, draft |-> Mine[Furthest], records |-> history]
  ELSE LatestShown

Shown_Latest == LatestShown
Shown == IF kind = "llm" THEN LLMShown ELSE SwarmShown

-----------------------------------------------------------------------------
(* What the next model is handed.                                          *)

Closest(d, passing) ==
  LET best == {i \in passing : \A j \in passing : d[j].slack <= d[i].slack}
  IN Max(best)

\* A draft through simulation and synthesis, the one closest to its timing;
\* else the latest through simulation; else none.
best_of_Last(d) ==
  IF d # <<>> /\ ThroughSim(d[Len(d)])
  THEN [draft |-> d[Len(d)], fails |-> d[Len(d)].fails \ {"contract"},
        passed |-> IF ThroughBoth(d[Len(d)]) THEN "synth" ELSE "sim"]
  ELSE NoSeed
best_of_Bare(d) ==
  LET both == {i \in DOMAIN d : ThroughBoth(d[i])}
  IN IF both # {} THEN [draft |-> d[Closest(d, both)], fails |-> {}, passed |-> "synth"]
     ELSE NoSeed
best_of(d) ==
  LET both == {i \in DOMAIN d : ThroughBoth(d[i])}
      sim_ok == {i \in DOMAIN d : ThroughSim(d[i])}
      i == IF both # {} THEN Closest(d, both) ELSE Max(sim_ok)
  IN IF sim_ok = {} THEN NoSeed
     ELSE [draft |-> d[i], fails |-> d[i].fails \cap {"sim", "synth", "timing", "fpga"},
           passed |-> IF both # {} THEN "synth" ELSE "sim"]

-----------------------------------------------------------------------------
(* The chain.                                                              *)

LastDraft == Len(Mine) + 1 = IF kind = "llm" THEN NDrafts ELSE NSwarm

\* The model answers, and the gates judge its draft.
Propose(v) ==
  /\ phase \in {"drafting", "revising"} /\ agent \in Models
  /\ drafts' = [drafts EXCEPT ![agent] = Append(@, v)]
  /\ phase' = CASE v.fails = {} -> "signed"
                [] v.fails # {} /\ LastDraft -> "handing"
                [] OTHER -> "drafting"
  /\ UNCHANGED <<kind, agent, seed>>

\* From the third draft on the swarm's reviewer may reject it, once.
REVIEW_AFTER == 2
Reject ==
  /\ kind = "swarm" /\ phase = "drafting" /\ Len(Mine) >= REVIEW_AFTER
  /\ phase' = "revising"
  /\ UNCHANGED <<kind, agent, drafts, seed>>

\* The model stops answering: its turn at the block is over.
NoAnswer ==
  /\ phase \in {"drafting", "revising"} /\ agent \in Models
  /\ phase' = "handing"
  /\ UNCHANGED <<kind, agent, drafts, seed>>

HandOn ==
  /\ phase = "handing" /\ kind = "llm"
  /\ agent' = agent + 1
  /\ seed' = IF agent' \in Models THEN best_of(Mine) ELSE NoSeed
  /\ phase' = "drafting"
  /\ UNCHANGED <<kind, drafts>>

Rules ==
  /\ phase = "drafting" /\ agent = NModels + 1
  /\ phase' \in {"signed", "given up"}
  /\ UNCHANGED <<kind, agent, drafts, seed>>

\* After the swarm there is nobody.
Nobody == phase = "handing" /\ kind = "swarm"
SwarmEnds == Nobody /\ phase' = "given up" /\ UNCHANGED <<kind, agent, drafts, seed>>

Ended == phase \in {"signed", "given up"} /\ UNCHANGED vars

Next == \/ \E v \in Verdicts : Propose(v)
        \/ Reject \/ NoAnswer \/ HandOn \/ Rules \/ SwarmEnds \/ Ended

Spec == Init /\ [][Next]_vars

-----------------------------------------------------------------------------
(* Properties.                                                             *)

TypeOK ==
  /\ kind \in Kinds /\ agent \in 1..(NModels + 1)
  /\ phase \in {"drafting", "revising", "handing", "signed", "given up"}
  /\ \A m \in Models : Len(drafts[m]) <= Max({NDrafts, NSwarm})
                       /\ \A i \in DOMAIN drafts[m] : drafts[m][i] \in Verdicts
  /\ seed.draft \in Verdicts \cup {NoDraft} /\ seed.passed \in {"none", "sim", "synth"}

Asking == phase = "drafting" /\ agent \in Models

\* Once this model has given, or was handed, a draft through simulation and
\* synthesis, it is never asked to revise one that is not: a draft that broke
\* the simulation is not built upon (llm_agent.py, _best_draft; swarm.py,
\* "Start from the best attempt, not the latest").
NeverBuildsOnWorse ==
  Asking /\ (seed.passed = "synth" \/ \E i \in DOMAIN Mine : ThroughBoth(Mine[i]))
    => ThroughBoth(Shown.draft)

\* A model of the chain is shown a draft with all its own failures: "failed
\* only what the feedback below says".
ShownWithItsFailures ==
  Asking /\ kind = "llm" /\ Shown.draft # NoDraft
    => {g \in Shown.draft.fails : <<Shown.base, g>> \in Shown.records} = Shown.draft.fails

\* The model is handed, of the drafts of the model before, one through
\* simulation and synthesis if there is any, and of those one nearest to its
\* timing; and nothing only when none got through simulation.
HandedTheClosest ==
  Asking /\ agent > 1
    => \A i \in DOMAIN drafts[agent - 1] : LET d == drafts[agent - 1][i] IN
         /\ ThroughSim(d) => seed # NoSeed
         /\ ThroughBoth(d) => seed.passed = "synth" /\ seed.draft.slack >= d.slack

\* The latest record quotes the lines of the draft it is of, not of another:
\* "rtl is the draft the most recent record was produced from; its failing
\* lines get quoted" (llm_agent.py, condense_feedback).
QuotesTheDraftShown ==
  (Asking \/ phase = "revising") /\ Shown.records # {}
    => Shown.base = Max({x[1] : x \in Shown.records})

\* "a chain that hands each model the draft that got furthest": if any model
\* before this one got a draft through simulation and synthesis, the draft
\* handed on is through both.
HandedTheFurthest ==
  Asking /\ (\E m \in 1..(agent - 1) : \E i \in DOMAIN drafts[m] : ThroughBoth(drafts[m][i]))
    => seed.passed = "synth"
=============================================================================
