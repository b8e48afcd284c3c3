---------------------------- MODULE SignOffFiles ----------------------------
(***************************************************************************)
(* What signing a block off leaves on disk, and what resuming makes of it  *)
(* (spec2rtl.py, _sign_off, _kept and _still_passes; chiplet_flow.py,      *)
(* run_flow).  Runs of one block, one after another over the same          *)
(* directory: fresh or resumed, finished, given up or interrupted, and the *)
(* testbench may be made stronger between them.  Parameters, agent kind    *)
(* and the module's name stay the same.                                    *)
(*                                                                         *)
(* A file is the draft in it; a draft is the strongest testbench it passes *)
(* and whether it passes the gates after simulation.                       *)
(***************************************************************************)
EXTENDS Integers

CONSTANTS MaxBench,   \* bound: times the testbench is made stronger
          MaxKilled,  \* bound: runs that are interrupted
          MaxRuns     \* bound: runs

Drafts == [upto : -1..MaxBench, rest : BOOLEAN]
NoFile == [upto |-> -2, rest |-> FALSE]

VARIABLES
  bench,     \* the testbench, a number: higher is stronger
  run,       \* none, drafting, a draft passed every gate, its report is written
  row,       \* what this run's report says of the block: signed off or kept
  report,    \* report_<tag>.json: none, converged or not
  rtl,       \* rtl_<tag>.v, the flow's scratch file
  design,    \* the block's design file
  runs, killed

disk == <<report, rtl, design>>
vars == <<bench, run, row, disk, runs, killed>>

Init == /\ bench = 0 /\ run = "none" /\ row = "none"
        /\ report = "none" /\ rtl = NoFile /\ design = NoFile
        /\ runs = 0 /\ killed = 0

PassesSim(d) == d.upto >= bench
Passes(d) == PassesSim(d) /\ d.rest

\* A block is kept if its report converged, its design file is there and its
\* source still passes: the flow's scratch file, or the design without one.
_kept_source == IF rtl # NoFile THEN rtl ELSE design
Kept == report = "converged" /\ design # NoFile /\ PassesSim(_kept_source)

Begin(resume) ==
  /\ run = "none" /\ runs < MaxRuns
  /\ runs' = runs + 1
  /\ IF resume /\ Kept THEN row' = "kept" /\ UNCHANGED run
                       ELSE row' = "none" /\ run' = "drafting"
  /\ UNCHANGED <<bench, disk, killed>>

\* A draft overwrites the scratch file; one through every gate ends the flow.
Converges_SimOnly(d) == PassesSim(d)
Converges(d) == PassesSim(d) /\ d.rest

Draft_InPlace(d) ==
  /\ run = "drafting"
  /\ rtl' = d /\ design' = d
  /\ run' = IF Converges(d) THEN "passed" ELSE "drafting"
  /\ UNCHANGED <<bench, row, report, runs, killed>>
Draft(d) ==
  /\ run = "drafting"
  /\ rtl' = d
  /\ run' = IF Converges(d) THEN "passed" ELSE "drafting"
  /\ UNCHANGED <<bench, row, report, design, runs, killed>>

Report ==
  /\ run = "passed"
  /\ run' = "reported" /\ report' = "converged"
  /\ UNCHANGED <<bench, row, rtl, design, runs, killed>>

\* An agent's last draft did not pass, or it gives no answer: the report says
\* so.  The next agent takes the block, if there is one.
AgentEnds(again) ==
  /\ run = "drafting"
  /\ report' = "not converged"
  /\ run' = IF again THEN "drafting" ELSE "none"
  /\ UNCHANGED <<bench, row, rtl, design, runs, killed>>

\* The signed-off draft becomes the design file.
Install ==
  /\ run = "reported"
  /\ design' = rtl /\ row' = "signed off" /\ run' = "none"
  /\ UNCHANGED <<bench, report, rtl, runs, killed>>

\* The process is killed, or an error ends it.
Interrupt ==
  /\ run # "none" /\ killed < MaxKilled
  /\ run' = "none" /\ killed' = killed + 1
  /\ UNCHANGED <<bench, row, disk, runs>>

\* Between runs the repository's testbench is made stronger.
Strengthen ==
  /\ run = "none" /\ bench < MaxBench
  /\ bench' = bench + 1 /\ row' = "none"
  /\ UNCHANGED <<run, disk, runs, killed>>

Next == \/ \E resume \in BOOLEAN : Begin(resume)
        \/ \E d \in Drafts : Draft(d)
        \/ \E again \in BOOLEAN : AgentEnds(again)
        \/ Report \/ Install \/ Interrupt \/ Strengthen

Spec == Init /\ [][Next]_vars

-----------------------------------------------------------------------------
(* Properties.                                                             *)

TypeOK ==
  /\ bench \in 0..MaxBench /\ run \in {"none", "drafting", "passed", "reported"}
  /\ row \in {"none", "signed off", "kept"}
  /\ report \in {"none", "converged", "not converged"}
  /\ {rtl, design} \subseteq Drafts \cup {NoFile}
  /\ runs \in 0..MaxRuns /\ killed \in 0..MaxKilled
  /\ run \in {"passed", "reported"} => Passes(rtl)

\* Whatever a run says is signed off, or kept from an earlier one, is a design
\* that passes the testbench as it is now, and passed the gates after it.
DesignPasses == row # "none" => Passes(design)

\* What a run leaves in the design file is never a draft that failed a gate:
\* however the runs end, the file has passed every gate of its day.
DesignOnceSigned == design # NoFile => design.rest /\ design.upto >= 0
=============================================================================
