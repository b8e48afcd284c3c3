------------------------------ MODULE SignOff ------------------------------
(***************************************************************************)
(* Signing a block off (spec2rtl.py, _sign_off): the chain of agents       *)
(* (AgentChain) over the files it leaves and resumes from (SignOffFiles).  *)
(* A run asks the chain unless it keeps the block; the draft the gates     *)
(* judge is the one written to the scratch file.  The kind of agent is the *)
(* same in every run of a history.  What the agents know is the run's own: *)
(* when a run ends or is killed, only its files are left.                  *)
(***************************************************************************)
EXTENDS AgentChain

CONSTANTS MaxBench, MaxKilled, MaxRuns,
          Mixed   \* bound: may one history hold a stronger testbench and a killed run

VARIABLES bench, run, row, report, rtl, design, runs, killed

Files == INSTANCE SignOffFiles

ASSUME FilesAssumption == MaxBench \in Nat /\ MaxKilled \in Nat /\ MaxRuns \in Nat /\ Mixed \in BOOLEAN

onDisk == <<bench, run, row, report, rtl, design, runs, killed>>

SignOffInit == Init /\ Files!Init

NoAgents == /\ UNCHANGED kind /\ agent' = 1 /\ phase' = "drafting" /\ seed' = NoSeed
            /\ drafts' = [m \in Models |-> <<>>]

\* The files' view of a draft the gates judged: only one through simulation
\* goes to the gates after it.
Judged(v) ==
  {d \in Files!Drafts : /\ Files!PassesSim(d) <=> "sim" \notin v.fails
                        /\ "sim" \notin v.fails => (d.rest <=> v.fails = {})}

ModelDrafts(v) == run = "drafting" /\ Propose(v) /\ \E d \in Judged(v) : Files!Draft(d)

Review == run = "drafting" /\ Reject /\ UNCHANGED onDisk

ModelStops == run = "drafting" /\ NoAnswer /\ UNCHANGED onDisk

NextAgent == HandOn /\ Files!AgentEnds(TRUE)

RulesDraft(d) ==
  /\ agent = NModels + 1 /\ phase = "drafting"
  /\ Files!Draft(d)
  /\ phase' = IF Files!Converges(d) THEN "signed" ELSE phase
  /\ UNCHANGED <<kind, agent, drafts, seed>>

\* The last agent ends without a design.
ChainEnds == (agent = NModels + 1 \/ Nobody) /\ Files!AgentEnds(FALSE) /\ NoAgents

Interrupted == (Mixed \/ bench = 0) /\ Files!Interrupt /\ NoAgents

Strengthened == (Mixed \/ killed = 0) /\ Files!Strengthen /\ UNCHANGED vars

SignOffNext ==
  \/ \E resume \in BOOLEAN : Files!Begin(resume) /\ UNCHANGED vars
  \/ \E v \in Verdicts : ModelDrafts(v)
  \/ Review \/ ModelStops \/ NextAgent
  \/ \E d \in Files!Drafts : RulesDraft(d)
  \/ ChainEnds
  \/ Files!Report /\ UNCHANGED vars
  \/ Files!Install /\ NoAgents
  \/ Interrupted \/ Strengthened

SignOffSpec == SignOffInit /\ [][SignOffNext]_<<vars, onDisk>>

-----------------------------------------------------------------------------
(* Properties.                                                             *)

\* What a run says is signed off, or kept from an earlier one, is a design that
\* passes the testbench as it is now and passed the gates after it, whichever
\* agent wrote it and wherever the runs before were killed.
DesignPasses == Files!DesignPasses

\* However the runs end, the design file holds no draft that failed a gate.
DesignOnceSigned == Files!DesignOnceSigned
=============================================================================
