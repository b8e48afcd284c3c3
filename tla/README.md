# agentic-fpga-scaleout in TLA+

The repository designs FPGA accelerators for language models and runs them over
several boards.  Python programs write the Verilog and the C that run on the
boards, simulate clusters of boards, and drive agents that write and sign off
the Verilog of each block.  This directory holds TLA+ models of it: the protocols
between boards, the state machines in each, the generated arithmetic down to the
register and the integer reference it is tested against, the planner, and the
sign-off; the TLC configurations that check them on small instances; and theorems
proved with TLAPS.

Source paths are relative to `src/`.  `PROJECT.json` gives, for every
definition that models code, the lines it models (`map`), for every run its
properties (`runs`), for every property a bug in the code that breaks it
(`mutants`), and what is hard to test in this code and which property watches it
(`hazards`).

    tlc -workers 2 -config FabricLink.cfg FabricLink.tla
    tlapm FabricProofs.tla

## 1. The system

### Components

| Component | Code | State it keeps | Operations |
|---|---|---|---|
| Link layer | `fabric.py` `_Tx`, `_Rx`, `Link` | send queue, packets in flight, credits, timer; receive buffer, next sequence number, drain process | enqueue, acknowledgement, credit, timeout, receive, drain |
| Boards' messages | `fabric.py` `Board`, `NIC`, `Resource` | DMA queue, reassembly by tag, mailbox, waiting receives | send, deliver, recv |
| Collectives | `collectives.py` | the vector, place in the ring | ring all-reduce, pipeline transfer |
| Pipeline stages on boards | `board_zybo.py` `STAGE_C` | position, token, hidden state, parts, KV cache | run, send, resend, pass on, answer |
| Tensor-parallel gathers | `board_zybo.py` `TP_C` | current, next, kept and previous slices | gather, ask, answer, linger |
| Gather register handshake | `qwen_full.py`, `zybo.py`, `board_zybo.py` | request, answer, mover, STATUS bits, core clock | start, gather, move, done |
| Weight streamer | `zybo.py` `render_streamer` | slots, valid flags, bursts under way, stream position | issue, beat, jump, advance |
| DDR bridge | `zybo.py` `render_top` | one held line of each memory, pending writes, AXI master | fetch a line, write through, hold the clock |
| UART stage link | `gals.py` | receiver, transmitter, core and hidden state per stage; the host | byte in, byte out, core start and end, resend |
| Agent chain | `spec2rtl.py`, `chiplet_flow.py`, `llm_agent.py` | drafts, verdicts, seed of the next model | propose, judge, hand on |
| Sign-off files | `spec2rtl.py`, `chiplet_flow.py` | report, scratch RTL, design file | run, interrupt, resume |
| Agent swarm | `swarm.py` | best attempt, its rank, the latest | write, review once, revise |
| Block generators | `specgen.py`, `agent.py` | registers and memories of each block | a sample a cycle, or load, start, run; reset, clear |
| Decoders | `decoder.py`, `qwen_decoder.py` | sequencer state, counters, vectors, KV cache | a decode step |
| Endpoint flow | `chiplet_flow.py` | datapath options | run gates, next option |
| Full-model sequencer | `qwen_full.py`, `tp.py` | layer, head and row counters, vectors; gather request | run a position, gather, hand on |
| Basys 3 top level | `board.py` | prompt, position, two UARTs, the decoder | type, decode, print |
| Cluster planner, sizing | `cluster.py`, `sizing.py` | none (pure) | place layers, split heads, choose a count |
| Integer reference | `specgen.py`, `decoder.py`, `qwen_decoder.py`, `qwen_int.py` | none (pure), the KV cache | a block's answer, a whole step |
| Tools, tests, packaging | `sdboot.py`, `fpga.py`, `bitstream.py`, `cosim.py`, `gatesim.py`, ... | files | call a tool, read its report |

### How they interact

* **Simulated cluster.**  `collectives.ring_allreduce` calls `Board.send` and
  `Board.recv`; a send cuts the message into DMA slices and hands their packets
  to a `_Tx`; an `_Rx` hands the packets back, in order, to the receiving
  board, which puts messages together by tag.  Layers: FabricLink, under
  FabricMessages, under RingAllReduce.  Each layer is checked against a short
  abstract specification, and the layer above is built on that one.
* **Real boards.**  The sequencer of a rank stops at each gather and raises a
  request; the board program sees it through registers (GatherPort), exchanges
  the slices with the other ranks by UDP (TpGather), and answers.  A pipeline
  stage is the same core with the stage program beside it (StagePipeline), or
  with UARTs beside it (GalsLink).  Below the core, its clock is held by the
  weight streamer and the DDR bridge until its operands are there.
* **A board's core.**  `specgen.py` derives each block's widths and latency,
  `agent.py` writes its Verilog, and `decoder.py`, `qwen_decoder.py` and
  `qwen_full.py` write the sequencer that starts the blocks one after another.
  The blocks are checked register by register on their testbench; the sequencers
  are checked over blocks of which only what the testbench has shown is used.
  `cluster.py` plans which layers or shares of matrices a board gets.
* **Sign-off.**  `spec2rtl._sign_off` runs the chain of agents of each block
  through the gates (AgentChain) and leaves files that a later run resumes from
  (SignOffFiles).

### What is hard in it, and what makes each part correct

| Part | Hard behaviour | It is correct when |
|---|---|---|
| Link layer | go-back-N timeouts racing acknowledgements; a credit pool shared with retransmissions; a drain process that parks | packets are delivered once, in order; no credit is lost or made; the buffer never overflows; nothing is stuck |
| Messages | sends of one board interleave at its DMA engine; a recv may come before or after its message | each message arrives whole at the recv of its tag; no send is starved |
| Ring | boards run ahead of each other, back-to-back operations, chunks of different size | every board ends with every contribution exactly once, and the same number on every board |
| Stages | loss, duplication, a timer racing a late answer, positions repeated | the boards decode what a single board would |
| Gathers | loss, repetition, reordering, ranks ahead of each other, only two slices kept | each core gets the slices of its own gather; every request can be answered |
| Register handshake | two clock domains of which one may stand; polling | one answer for each gather, moves only inside one |
| Streamer | bursts in flight when the stream jumps back; registered decisions | the core never reads another line's weights, and never waits for ever |
| DDR bridge | three writes and three fetches through one master; held copies of written lines | the core reads what it last wrote |
| UART link | damaged bytes, resynchronisation, messages arriving in the middle of a run | every token the host takes is one board's, and one comes |
| Blocks | operands and flags through pipelines of different depth; counters, shared requantizers and memories over back-to-back runs, resets in the middle | each answer is the integer reference's, at the derived latency, each index once, and every run ends |
| Decoders | a block's last output against its busy; one memory for the caches of every layer and head, with earlier runs' rows in it; ties in the argmax | a greedy run gives the integer reference's logits and tokens however fast the blocks are |
| Several cores | uneven shares, a rank without head rows, layers that are not one's own, empty chunks | the boards together give the single model's tokens and hidden states |
| Planner | rounding, boards that fill up one after another | every layer, head, column and chunk has exactly one board |
| Agents | drafts that regress, models that stop answering | a model is never sent back behind what it had, and sees what failed |
| Files | interruption at any point, a testbench that changes | what is kept passes the testbench of today |

## 2. The modules

| Module | Models | Abstract specification it implements |
|---|---|---|
| `FabricLink` | one direction of a link | `FifoChannel` |
| `FabricMessages` (`MCFabricMessages`) | sends and receives over channels | `TaggedMail` |
| `RingAllReduce` | the all-reduce over a mailbox | `SumRendezvous` |
| `StagePipeline` | `STAGE_C` on every board and the network | `SingleBoard` |
| `GalsLink` | the UART stages and their host | `SingleBoard` |
| `TpGather` (`MCTpGather`) | `TP_C` on every rank and the network | `GatherRendezvous` |
| `GatherPort` | core, registers, mover and ARM of one rank | `GatherService` |
| `WeightStreamer` | `render_streamer` with its DDR and core | - |
| `DdrBridge` | the constants' and KV side of `render_top` | - |
| `BlockSpecs` | words and registers; what `specgen.py` derives for each block | - |
| `Pipelines`, `Sequencers`, `Attention` | every block's registers at a clock edge, and its golden function | the golden function, index by index |
| `Decoder`, `QwenDecoder`, `QwenFull` | the sequencers of the small decoder, the Qwen-shaped one (with the Basys 3 top level around it) and whole models; their integer steps | the integer step |
| `Fleet` | the planner; whole-model sequencers as one board, ranks or stages | one model's integer step |
| `BlockCases`, `BlockBench` (`MCBlockBench`) | what the testbenches offer, and the bench itself | - |
| `AgentChain` | one block through the agents, or through the swarm | - |
| `SignOffFiles` | a block's files over several runs | - |
| `SignOff` (`MCSignOff`) | the two composed: the chain writes the files | - |
| `FabricProofs` (both layers of `fabric.py` and `RingAllReduce`), `GatherProofs` (`TpGather` and `GatherPort`), `DdrProofs` (`WeightStreamer` and `DdrBridge`), `StagePipelineProofs`, `GalsLinkProofs`, `SignOffProofs`, `PipelineProofs` and `BlockBenchProofs` (the pipelined blocks) | the theorems | |

Where one proof module extends two specifications, the second names its parts for itself:
`Messages...` in `FabricMessages`, `Ring...` (and `Members`, the boards) in `RingAllReduce`,
`Port...` in `GatherPort`, `Bridge...` in `DdrBridge`.

### FabricLink

State: `q`, `inflight`, `nextSeq`, the credits and `armed` are the fields of
`_Tx`; `rxNext`, `buf` and `drain` those of `_Rx`; the two links are sequences.
One action per method: `Enqueue` is `send` with its `_pump`, `OnAck` and
`OnCred` the two branches of `on_control`, `Timeout` the retransmission,
`RxCorrupt`, `RxOutOfSequence` and `RxInSequence` the paths of `_Rx.on_data`, and
`DrainResume` and `DrainDone` the drain process between its two yields.
Simulated time is not kept: a timer may fire whenever it is armed, which
includes every early timeout.  DATA packets may be corrupted; acknowledgements
and credits never are, as in the code.  A packet carries the number it was handed
over with, so `InOrderOnce` can tell a loss, a copy and a swap apart.

### FabricMessages, RingAllReduce

`FabricMessages` takes its channels from `FifoChannel` and models `Board.send`
(one slice a turn at the DMA engine), the reassembly of `_deliver`, the mailbox
and `recv`.  A message stands for its source, destination and tag.
`RingAllReduce` works on the mailbox that specification gives it.  A number is
the *sequence* of contributions added into it, since floating-point sums in
another order are other numbers: `SameOnEveryBoard` says that the boards agree
to the last bit, `EveryContributionOnce` that nothing is missing or added twice.

### StagePipeline, GalsLink, SingleBoard

`SingleBoard` is one board that decodes the positions one after another.  In both
detailed modules the right value for a position is a number, and whatever is made
of a wrong input, a mixed hidden state or a KV cache with a wrong entry is `Wrong`,
which the refinement then refuses.  `StagePipeline` is the datagram version: parts
of a hidden state, an answer that says which position it is for, a timer on the
first stage only.  Stage programs poll; a step is one turn of a loop up to
the next change of state.  `GalsLink` is the RTL version: a step of a stage is one edge
of its clock, with receiver, core and transmitter evaluated together as the
always blocks are.

Abstractions of GalsLink: a message has one byte a field; the CRC matches exactly
when the bytes counted are those of one message, in place and undamaged; the
flags are left out (the head always runs); the clocks' relative speeds are free,
where a UART's are close.  With three damaged bytes a transmitter that is
arbitrarily slow lets noise start a message on the one unguarded edge described in
finding 3; that needs speeds no board has, so the safety runs damage two.  `Guarded`
says that no message gets through that edge as far as its payload: it holds under the
bounds of `GalsLink.cfg`, and `GalsLinkProofs` proves that nothing else can go wrong.

### TpGather, GatherPort

`TpGather` has an action for each of `gather`, `leave`, `ask`, `rx` (slice or
request) and the end with its linger, and a network that loses, repeats and
reorders.  A slice's data is the number of the gather it was computed for, so a
stale one is told from a right one (`WholeVectors`).  Linger is a
timing claim (twelve requests fit in it): the model lets a rank end only when no
other can still ask.  `GatherPort` is one rank between its core and its ARM:
every register bit of the handshake, the clock of the core that may be held at any
time, the mover, the polling program.  `done` cannot be up on a held clock, as
in the sequencer, whose last state reads no memory.

### WeightStreamer, DdrBridge

One step is one edge of the bus clock; a master's request and data channels are
the code's registers.  `WeightStreamer` keeps the registered slot indices and
flags and compares them with the unregistered ones (`FlagsExact`).  Weights are
the number of the line they belong to.  `DdrBridge` keeps of the data only whether
an element, in DDR and in the held line, is what the core last wrote there; a line
comes in one step, which is sound as the core's clock stands meanwhile
(`HeldMeanwhile` checks just that).

### BlockBench and the blocks

`BlockBench` is the generated testbench with its one unit: `block` says which unit
and which description of a model, `r` is the unit's registers and memories, `tb`
what has been offered and is expected.  A step is a clock edge.  A unit is an
operator from registers and ports to registers, its right-hand sides those of the
Verilog's non-blocking assignments (`Pipelines` for blocks that take an operand
every cycle: `mac`, `requant`, `expu`, `recip`, `rsqrt`, `silu`, `rope`, `resadd`
and the fabric's `crc`; `Sequencers` for `matvec`, `wmem`, `proj`, `projn`, `mlp`,
`gmlp`, `rmsnorm`; `Attention` for `softmax`, `attn`, `attnn`).  Every template has
all its fixes in, as a signed-off block does.  Beside each is the golden function
`specgen.py` computes the testbench's expectations with.

The testbench is not the one fixed sequence of the generated file but every one it
stands for: samples alone (the whole range, or its edges) or in a burst with any
gaps, a clear at any edge, runs back to back with any waits, a reset at any edge.
`FixedLatency` and `BitExact` say what a block that embeds another counts on;
`OutputsExact`, `RunWhole` and `EveryRunEnds` what a sequencer counts on.
`Bench` is a constant, `Tables` worked out once: descriptions, samples, jobs and
expected answers, none of which changes in a simulation.  `Ports` is what a pipelined
block may be given at all, of which a bench offers some (`BenchAssumption`); what a
model's description must satisfy is `ModelsAssumption`, `EndpointsAssumption` and
`CheckpointsAssumption`, and how the widths at which a structure changes lie to one
another `SizesAssumption`, all evaluated with the run.  As in Verilog, words wrap at
their width, a memory keeps its words through a reset, and a read out of range
gives a value nothing should depend on (`Beyond`).

### Decoder, QwenDecoder, QwenFull, Fleet

Each has the integer reference's step as operators and the sequencer as a state
machine: the state register, its counters, vectors, caches and the ports of the
blocks.  A block inside a sequencer is abstract: once started it is busy, gives the
golden function's answers index by index at whatever edges it likes, and only then
stops being busy.  That is what the bench checks of each block by itself
(`OutputsExact`, `RunWhole`), so the composition stands on it; it covers every
latency, where the real one is fixed.  The host feeds a prompt and then the token the
hardware chose, over the whole window, and twice; the last step ties every logit.

`QwenFull` has the layout of the weight image (`Layout`, `write_images`) and reads
weights through its addresses, so a wrong offset reads another matrix.  `Fleet` runs
several of them: `ranks` with the gathers of `tp.py`'s testbench network, `stages` with
the hidden state handed on, each with the images the planner makes for it.  Between two
gathers ranks share nothing, so their clocks are run one after another: an interleaving
of them leads to the same state.  The planner is `plan`'s water-filling and
`tp_plan`'s shares with the cycle counts they rest on.

### The Basys 3 top level, in QwenDecoder

`render_top`'s state machine with `uart_rx`, `uart_tx` and the decoder inside, a step
an edge, and the testbench: `Line` is what `send` puts on the wire, with any wait
between two characters; `terminal` samples as the testbench's receiver does.  The first
prompt begins with a line feed that there is nothing to decode for and has a character that
is not in the vocabulary; the second is longer than the window, follows on the first,
and leaves room for one character.

### AgentChain, SignOffFiles, SignOff

A draft is its verdict: the gates it fails and its slack.  The order of the gates,
and that a later gate is only asked when the earlier pass, is `Verdicts`.
All tools are taken to be present; `MAX_FEEDBACK` cuts a prompt's failure records to
the latest four (`condense_feedback`).  `kind` is the kind of agent `_sign_off` was
called with: the chain of models and rules, or the swarm alone, whose writer starts
from the first attempt that got furthest (`Furthest`, by `STAGE_RANK`) unless the latest
got as far, and whose reviewer may reject a draft once before the gates see it.
`SignOffFiles` keeps for every file the draft that is in it, and a
draft is the strongest testbench it passes and whether it passes the gates after
it; runs are killed between any two writes of a file (a write itself is one step).
`SignOff` composes them: `_sign_off` asks the chain when nothing is kept, the
draft that is judged is the one in the scratch file, and what the agents know is
gone when their run ends or is killed.  Both a killed run and a stronger testbench in
one history is finding 2 of section 4, which `sign_off_resumed` shows; `sign_off` has
`Mixed` FALSE, so each of its histories holds one or the other.

## 3. The runs

| Run | Bounds | Shows |
|---|---|---|
| `fabric_link` | window 2, 3 slots, slices of 2, 5 packets, 7 on the wires | pool, window and order under every corruption and every early timeout; refines `FifoChannel` with its liveness |
| `fabric_messages` | 4 messages of 1 to 3 packets, 3 of one board, 2 on one channel | messages whole; refines `TaggedMail` with its liveness |
| `ring_all_reduce` | 3 boards, 7 elements, two rings, 2 operations | exact, identical, one message a tag; refines `SumRendezvous` with its liveness |
| `stage_pipeline` | 3 stages, 2 parts, 3 positions, 1 loss, 1 duplicate, 1 early timeout | hidden states whole, repeats bounded; refines `SingleBoard` with its liveness |
| `gals` | 2 stages, 2 positions, look-alike bytes, 2 damaged | refines `SingleBoard` while the host waits long enough |
| `tp_gather` | 2 ranks, uneven parts, 3 gathers, 2 vectors, 2 losses | right slices for every core; refines `GatherRendezvous` with its liveness |
| `gather_port` | 3 runs, 3 moved gathers, 3 words | one service a gather, moves inside it; no start, answer or done is lost |
| `weight_streamer` | 2 masters, 4 slots, 5 lines, bursts of 2, 2 outstanding | right weights, exact flags; the line always comes |
| `ddr_bridge` | 2 lines of 2 words of 3 memories | reads the last write; a write goes once; the clock always runs again |
| `blocks` | 19 blocks at 4 and 5 bits, 4 CRC datapaths, 7 decoders and fleets (below) | every answer, latency and run of the generated RTL is the integer reference's, and ends |
| `sign_off` | 2 models, 2 drafts, or a swarm of 3; 3 runs, 2 killed or 1 stronger testbench | never behind a passing draft, shown what failed, closest handed on; what is kept passes |
| `sign_off_resumed` | 1 stronger testbench, 1 kill, 3 runs | refuted: what is kept passes (section 4) |

Why the bounds are enough.  The counters that are bounded (packets, gathers,
positions, runs, lines) exceed by at least one the depth of the memory the code has:
the window and the receive buffer of the link (5 packets over a window of 2 and a
pool of 3, so sequence numbers, credits and window wrap round each other), the two kept
slices of a rank (3 gathers, so the oldest is dropped), the slots of the streamer (5
lines over 4 slots, so a slot is used for two lines and a jump back finds it taken),
one repeat of an answer and one position more for it to be met at.  Losses are two
where one hides the repair of another; three stages take one, two of them would make
the run long.  `MaxWire` limits only how many *repeated* packets a timeout may leave
behind, each the copy of one that is there.  `CHECK_DEADLOCK FALSE` is said only
where the program stops: `sign_off` and `sign_off_resumed`, whose runs are used up,
`blocks`, whose testbench ends with its last job, and `RingAllReduce_short`, whose
boards hang.

The sizes of `blocks` are scaled, the structure is not.  `TheSizes` scales every width
at which `specgen.py` changes a block's structure, and there is a model on each side of
them: 4-bit weights with 4-bit activations (one multiply, one requantizer for all
columns) and with 5-bit ones (two half multiplies, split sums, constants per
column).  A row has 4 elements and the hidden layer 3, so the last column pair of two
lanes is half empty; there are 4 positions, 3 for a decoder, so a
window is filled and the next run meets its rows.  Samples are every argument of
`expu`, `recip`, `silu` and (to 1100) `rsqrt`, the edges and each scale bit of the
others; a burst is 3 samples of 2 kinds, more than one in the pipeline at once, with one
clear and one reset.  Decoders: the small one; two layers with two query heads on one
key/value head; that one on the Basys 3 board, eight edges a UART bit; whole models of
two layers with 12 tokens in two head chunks, the last half full, as a Qwen2.5 on one
board and on two stages planned over three boards (the middle one too small for a
layer), and as a Qwen3 on two equal ranks and on two of which the first, four times
slower, has a quarter of the MLP and no head chunk.  Each difference of
layers, heads, constants and shares is there once.  The planner's part is three `ASSUME`s of
`MCBlockBench`, evaluated with the run: `PlansWhole` over every chain of three boards
of four capacities and two speeds, three layers, both modes; `SharesWhole` over
every two or three boards of two widths and two speeds; `PlansOverfill` (section 4).

The swarm's flow is three drafts here, five in the code: three are the fewest at which
its furthest attempt is not its latest, and with five `NeverBuildsOnWorse` holds too
(`Kinds = {"swarm"}`, `NSwarm = 5`, one run).

Further configurations, beside the runs:

| Configuration | Module | Shows |
|---|---|---|
| `GalsLink_locked.cfg` | `GalsLink` | refuted: an answer always comes (section 4) |
| `GalsLink_early.cfg`, `RingAllReduce_short.cfg`, `SignOff_contract.cfg`, `SignOff_furthest.cfg`, `StagePipeline_again.cfg` | as named, `MC` before `SignOff` | refuted: section 4 |

Every module with variables has a `TypeOK`.  It holds under each passing run's bounds,
and is a theorem of every module but `BlockBench` and `GalsLink` (section 5); the runs do not list it, since most of it can fail only together with what they do list.

### Fairness

| Module | Assumed | Because |
|---|---|---|
| FabricLink | weak on acknowledgement, credit, timeout, receive and drain; strong on receiving in sequence | all are events in the simulator's queue; corruption is an independent draw for each copy, so not every copy is corrupted |
| FabricMessages | weak on each board's slice and each channel's delivery | the DMA queue is first come, first served; the channel is `FifoChannel`'s fair one |
| RingAllReduce | weak on begin and receive | worker processes; messages come by the layer below |
| StagePipeline, TpGather | weak on each program's step and on each datagram's arrival; nothing on loss, whose number is bounded | programs are polling loops; a network that loses everything for ever delivers nothing |
| GatherPort | weak on core edges and on an ARM access landing | a held clock is released by the streamer and the bridge (`NeverStalls`, `CoreRuns`) |
| WeightStreamer, DdrBridge | weak on the bus clock and on DDR's answers | AXI |
| GalsLink | weak on each part's edges and on the host | clocks run |
| BlockBench | `ClockRuns`: a run that is on takes steps, which change its state | the bench's clock runs; a block inside a decoder answers in the end, which `EveryRunEnds` says of it by itself, and whoever types at the board goes on typing |

`AgentChain`, `SignOffFiles` and `SignOff` state safety only: a model may always stop
answering and a run may always be killed.

## 4. Where the code and what it says differ

Each is a property that states what the repository says, and where TLC refutes it.

1. `GalsLink_locked.cfg` (`EveryPositionAnswered`): a receiver put
   inside a message that holds the bytes of a message's start stays there for every
   resend (`gals.py:133` against `RESULTS.md:776-778`).
2. `sign_off_resumed` (`SignOffFiles_resumed.cfg`, `DesignPasses`): a resumed run
   tests the scratch file and keeps the design file (`spec2rtl.py:317` against
   328-330).
3. `GalsLink_early.cfg` (`ImplementsSingleBoard`): the check that a stage is idle has a
   gap of one edge, between the end of the core and the start of the transmitter; a
   resend that arrives then overwrites the state being sent (`gals.py:133` against
   130-132).  It takes a host that sends again before its answer came, which
   `GalsLink.cfg` rules out.
4. `RingAllReduce_short.cfg` (`EveryBoardEnds`): an empty chunk makes no packet, and
   every board waits for it (`collectives.py:75` against 4-5; any vector shorter than
   the ring, or than twice the ring with `bidir`).
5. `SignOff_contract.cfg` (`ShownWithItsFailures`): with `--contracts`, a draft that
   failed only its contract is handed to the next model with no failure
   (`llm_agent.py:882` against 842-845).  `sign_off` runs without contracts, the
   default.
6. `SignOff_furthest.cfg` (`HandedTheFurthest`): a draft two models back is lost when
   the model between got nothing as far (`spec2rtl.py:417` against `README.md:475`).
7. `StagePipeline_again.cfg` (`SentAgainOnlyWithoutAnswer`): the first stage sends a
   state again without any timeout.  One late answer leaves a second one behind, which
   is then met at every later position, and each goes out twice until the end
   (`board_zybo.py:1281` against 1019-1021 and 1042).  Only time is lost.
8. `QuotesTheDraftShown` of `AgentChain`, with `Kinds = {"swarm"}`: when the swarm's
   writer starts from its furthest attempt, or revises a draft the reviewer rejected,
   the prompt annotates the latest attempt's errors with source lines of that other
   draft (`swarm.py:229` and 91, against `llm_agent.py:489-490`, "rtl is the draft the
   most recent record was produced from").  The shipped agent, given a first draft that
   fails synthesis and a second with a syntax error on its line 2, quotes line 2 of the
   first.
9. `PlansOverfill` (an `ASSUME` of `MCBlockBench`, so it is checked with `blocks`): `plan`
   takes the tied table's bytes off the first and the last usable board, but the
   stages that get the table are the first and last that get layers.  With
   `["zybo_z7_20", "zc706", "zybo_z7_20"]`, mode `fast`, a Qwen3 of 50 layers, all of it
   and the table, 1001.8 MB, goes to a zc706 of 931.1 MB (`cluster.py:332` and
   `tests.py:3076-3080` want every stage to fit).

Met while modelling, outside what any run's inputs reach or without a property of its own:

* `swarm.py:39` gives the contract no rank, so with `--contracts` an attempt that failed
  only its contract counts for less than one that does not compile, and
  `NeverBuildsOnWorse` fails for the swarm; an attempt that fails timing and mapping
  ranks above one that fails timing alone; and the prompt says "it failed, revise it" of
  the furthest attempt where the comment at 226-228 says it tells which it is.  At its
  fifth draft the furthest attempt may be shown with one of its two failures cut off by
  `MAX_FEEDBACK`.
* `recip` of 0: `specgen.py` gives shift 0, the RTL its input width.  No caller divides
  by 0.
* The requantizer's rounding add overflows when the scaled sum is within half a unit of
  the product's range; up to a quarter of the accumulator's range, which every derived
  width allows for, it cannot (`requant_samples`).
* `softmax`'s sum wraps when more equal scores than `seq_len` are summed, where
  `seq_len` is not a power of two; `attnn` takes a load while it is busy, where `attn`,
  `mlp` and `gmlp` refuse it.  No sequencer does either.
* `silu`, `rope` and `resadd` declare one pipeline stage and have eleven, four or five,
  and three; `BlockBench`'s `Latency` is the registers' depth.

## 5. The proofs

The constants' assumptions are the `ASSUME`s of the modules (numbers at least one,
functions of the right domain) and nothing else.  Each proof has the shape
`Init => IInv`, `IInv /\ [Next]_vars => IInv'`, with a step for every action, and
the theorems follow with PTL.

* **FabricProofs**, the link: for every window, pool, slice and number of packets.
  `LinkTypes`, `LinkNoOverflow`, `LinkCredits`, `LinkWindow`, `LinkInOrder`,
  `LinkImplementsChannel`.  None of them is inductive alone.  `NoOverflow` needs that
  every slot of the pool is in exactly one place - with the sender, on a wire, in the
  buffer, or coming back - where a packet in flight counts once however many copies
  of it are on the wire (`CreditsConserved`); that needs the window to be a run of
  consecutive numbers that covers all the receiver lacks (`WindowAgreement`); and
  order needs that a sequence number stands for one packet for ever (`OneNumbering`).
* **FabricProofs**, the messages: for any messages of any sizes between any boards, and
  any slice.  `MessagesTypes`, `MessagesComeWhole`, `MessagesNobodyWaits`,
  `MessagesTurnsAreFair`, `MessagesImplementMail`.  `MessagesWhole` speaks of what a recv has returned,
  so it says nothing of a message half way.  The invariant says that what has come of a
  message is its first packets (`InOrder`); that a channel holds, of each of its
  messages, those handed over that have not come (`WireRight`, `WireFull`), in order
  though others are between them (`WireOrdered`); that a send waits at one engine,
  its own board's, once, with packets left (`Queued`); and that a message that is whole is kept or
  was returned, whole, and one that is not is neither (`HandedOver`).  A packet that comes
  is then the one its reassembly wants next, so a count of packets is enough
  to know that every slot is filled.
* **FabricProofs**, the ring: for every number of boards, elements and operations, one ring
  or two, chunks of any sizes the division gives, empty ones too.
  `RingEveryContribution`, `RingSameOnEveryBoard`, `RingOneMessagePerTag`,
  `RingSendsAFreshTag`, `RingImplementsSum`, `RingTypes`.  None of the properties says
  anything of a sum under way, so the invariant says it all: `Held` is what a board has
  of a chunk before each step of an operation (its own contribution, the sum of the boards
  the chunk has passed, or the whole sum), `VecRight` that it has exactly that,
  `MailRight` that a message is what `Held` says of its sender at the step of its tag.  It rests
  on how far a chunk has come round (`Dist`): a step receives the one chunk that
  is one place further than what it sent (`ChunkSent`, `ChunkReceived`), the sum of
  a chunk grows by the board it reaches (`SumGrows`), and no other chunk changes
  (`HeldKept`).  That a board ends only after all have begun is `Causal`: each message
  carries what its sender has heard of.  Chunks divide a part without gap or overlap
  (`OneChunk`, `SomeChunk`, by the least bound beyond an element).
* **GatherProofs**, the gathers: for every number of ranks, parts and gathers, with any
  number of losses and repeats.  `GatherTypes`, `GatherOneAhead`,
  `GatherAskAnswerable`, `GatherPartsFresh`, `GatherWholeVectors`,
  `GatherImplementsRendezvous`.  The invariant says what every datagram under way may
  be (`TrueNet`: a slice of a gather its source has reached, with that gather's data),
  what a rank's two buffers may hold, and `InStep`: a rank that has every
  part of a gather knows that every other has begun it.  That is why no rank can be two
  ahead, hence why two kept slices are enough, hence why no part of an older gather
  is taken for a newer.
* **GatherProofs**, the registers: for every number of runs, gathers and words, the core's clock
  held and the ARM's accesses landing at any edge.  `PortMovesInsideGather`,
  `PortMovesWhole`, `PortServesEach` (the refinement of `GatherService`).  The
  invariant is one conjunct a handshake: a start stands alone until the core has taken
  it and a core that has ended says so until the ARM has seen it (`RunShape`), an
  answer goes with the request it is for and a gather the ARM has read as waiting
  still waits (`AnswerShape`), and every word of a move is moved or left
  (`MoveShape`).  `CoreKinds` reduces an edge of the core to the six things the
  registers can see of it, so that the rest never splits on the core's states.
* **DdrProofs**, of `WeightStreamer`: for every number of ports, slots, lines, beats and bursts
  outstanding.  `StreamerTypes`, `StreamerRightWeights`, `StreamerFlagsExact`,
  `StreamerOneBurst`.  The invariant says what a port's record of its bursts is (those
  DDR has taken, oldest first, then the request: `Queue`), that no slot has two bursts
  under way and the one it has is for its tag (`OneBurstASlot`), and that a valid slot is
  full of its line while one being filled is so up to its master's beat (`Arrived`).
  It rests on the placing of lines: a line's slot belongs to the line's master, and the
  next line's slot is another, because the ports divide the slots (`Places`).
  Of `DdrBridge`: for every number of lines, words and lanes.
  `BridgeReads` (the core reads what it last wrote), `BridgeWrites`, `BridgeCopies`,
  `BridgeHolds`, `BridgeSendsOnce`.  The invariant says that whatever DDR lacks is on its
  way (`OnItsWay`), that the cause of a transaction stands until it ends (`Serving`),
  and that a held line has taken the write that is about to overtake it (`TookToo`).
* **StagePipelineProofs**: for every number of stages, parts, positions, losses, repeats
  and early timeouts.  `PipelineTypes`, `PipelineHiddenWhole`, `PipelineCachesFull`,
  `PipelineAnswersBounded`, `PipelineImplementsSingleBoard`.  The invariant says of every
  datagram, every state half collected or whole and every answer that its position is one the run has
  reached, and that all earlier stages have the right cache entry for it
  (`Reached`), so a stage that is behind can never be asked a position early; a
  repeat then writes the entry that is there.  `AnswersBounded` counts tokens only,
  and is not inductive: a state under way may still become one.  What never grows by
  itself is the number of states and tokens together, wherever they are, but a state
  is a different number of datagrams at every moment.  So of each stage's states one part
  is counted (`Chosen` says which; the others may be lost or repeated
  freely), a state half collected counts if that part is in it, and a timeout without
  any answer under way, when no stage has all parts, chooses anew for each stage a
  part it has not got, so that what is left behind counts for nothing (`Pending`).
* **GalsLinkProofs**: for every number of stages, positions and bytes of a hidden state,
  whatever the bytes look like, any number damaged, lost or made of noise, and a host
  that asks again as early as it likes.  `GalsSingleBoard`: `Spec /\ []Guarded` implies
  `SingleBoard`.  The hypothesis is needed, finding 3 is the behaviour without it: it
  says that a message begun on the one edge `Idle` misses never reaches its payload
  while the stage sends.  So the theorem names the only hole: with that edge closed
  (`Idle` looking at the core's `done`, too) a message is followed only by a stage that
  rests, and every token is right.  The invariant (`GalsInvariant`) says
  what a receiver that believes its message has of it so far (`Receives`), what a core
  was started with and has made of it (`Computes`), what a byte on a line is of
  (`TrueByte`), and that a position came to a stage only after all earlier stages
  had run it right (`Came`).  `AfterByte` is the core of it: a receiver goes on
  believing only byte by byte of one message, in place, so two messages spliced by a loss
  never start a core.
* **SignOffProofs**: for every number of models, drafts, candidates, runs, kills and
  stronger testbenches.  `SignOffNeverBuilds`, `SignOffShown`, `SignOffHanded`,
  `SignOffDesignPasses`, `SignOffDesignOnceSigned`, `SignOffTypes`.  The chain's invariant
  says which draft the seed was chosen from, that an agent still asked has given no
  draft that passes, and what the prompt's records are of; the files' says that a
  design was signed when it was written and that a report that says converged is of the
  design beside it unless a run was killed in between.  Three theorems have a hypothesis,
  each with a counterexample without it: `SignOffShown` holds without the contract gate
  (with it, section 4), `SignOffNeverBuilds` without the contract gate or without the
  swarm, and `SignOffDesignPasses` in histories that have no kill together with a
  stronger testbench (`~Mixed`; `SignOffFiles_resumed` shows the other kind).

* **PipelineProofs** and **BlockBenchProofs**: every pipelined block on its testbench, for
  every model and endpoint that satisfies the assumptions of `BlockBench` (any widths, any
  number of weights, any table sizes), every sample its ports may carry, and any order of
  samples, gaps, clears and resets.  `FixedLatencyHolds`, `BitExactHolds`, `CheckValue`.
  Neither property is inductive: each looks at the last register only.
  `LineInv` says that the bench's line of what has entered (`tb.line`) and the block's
  flags are one row, place by place: `Flags` lists a block's flag registers in the order a
  sample passes them, and `FlagsMove` shows that every edge shifts them by one, or
  empties the last on a clear.  That is where `Latency`, which other blocks count on, is
  shown to be the number of registers the widths give.
  `DataInv` says what the registers hold of a sample at each place (`RightAt`: for SiLU, that
  the sample, its sign and its exponential are in step in each of eleven places; for the
  requantizer, that each row of the adder tree holds the nodes of that sample, or the
  halves of their sums with the carry between them), whatever is in the other places,
  that a sum is the sum of what was answered (`SumRight`), and that the bench owes the last sample's
  answer.  The induction is over edges, never over data: `DataMoves` takes a sample from
  place to place, and `AnswerRight` meets the golden function at the last.
  What makes `DataMoves` true is arithmetic, which `PipelineProofs` has for words of any width.
  The provers have no definition of `2^n`, so its laws come first, from the
  number of subsets of `1..n` (`PowerStep`); then wrapping, shifting and rounding
  (`WrapOnly`, `ShiftDivides`), a split product (`SplitProduct`), what a fraction brings
  back into a word (`FractionFits`), a normalised word (`Normalised`).  For the requantizer, that
  the slices of the scale follow one another and cover it, whatever the widths
  (`ScaleSlice`, `Covers`), so that the leaves of the tree add up to the product (`Leaf`) and two
  nodes of a level are one of the next (`NodePair`, `NodeOdd`, `Root`).  For the check value,
  that the ripple is linear over XOR (`WordXor`), so that the matrix read off single bits is the ripple
  (`FlatForm`), and that eight steps of it are one look-up in zlib's table (`OneByte`).
  The assumptions are the code's: the numbers it writes out (tables of 256 and 4096
  entries, 15 and 17 bits of fraction) satisfy `SizesAssumption`, the tables it rounds from `2^f`
  and the sine hold entries of their format, activations have at least half the bits of a table's
  index, and a model has at least two positions (with one, SiLU's `1 + e` does not fit the
  reciprocal).  The table of the sine is data (`m.sines`): the bench has eight entries
  a turn, the theorem holds for the code's 4096.
  What a block must never be given is in `Ports`: a zero for
  the logarithm of `recip` and `rsqrt`, and a sum the requantizer's rounding add
  has no room for (both in section 4).

Only model-checked: liveness and everything under fairness (outside the prover), and
of the blocks those that run through a vector or a sequence (`OutputsExact`, `RunWhole` and
`EveryRunEnds`): what such a run must answer is a recursion over its data, which only an
induction theorem with an operator as its parameter would reach, and how it ends
depends on every state machine of the generated code, which the bench runs at scaled sizes.
`ImplementsSingleBoard` is no theorem of `GalsLink` without `Guarded`: it fails with
early resends (finding 3), and with three bytes damaged because the clocks' relative
speeds are free (section 2).

## 6. What is not modelled

Left out for good: training and floating-point inference, which have no protocol; the
calls to synthesis, simulation and packaging tools and the parsing of their
reports; images and boot scripts; demos and sweeps, which call the components in
order; formal, coverage and mutation tools, whose verdict is a gate of AgentChain;
generated and packaged copies (`board_*`, `llm_blocks`, `transcripts`).  Of the block
generators: the prose of a spec, the text of testbenches, constraints files, and the
faulty variants the rule-based agent starts from.  Of the decoders: the calibration on
floating-point activations and the window that slides in `generate`.  Of the planner:
links and estimated rates.  Of the Basys 3 board: its reset button in the middle of a run.
A rank or a stage that restarts during a run is not modelled: the code makes no provision
for it and states nothing that should hold then.  `Sim`'s event queue is replaced by
interleaving; latencies and bandwidths are left out.

## 7. Plan

Done: the protocols, the gathers, the core's memory side, the sign-off with the swarm,
the blocks, the decoders and the whole model, planner and board.  Next, in this order:

1. **GalsLink with time**: a byte takes as long on every line, within the clocks'
   tolerance; then which damage can reach the unguarded edge at all, that is, when
   `Guarded` holds, which is all `GalsSingleBoard` needs.
2. **EndpointFlow** (`chiplet_flow.py`): the options of the endpoint's datapath and the
   profile each leaves; `sizing.py`'s choice of a count beside it.
3. **Rule-based agent** (`agent.py`): `diagnose`'s fixes as a state machine over the
   gates' messages, in place of the agent that may do anything in `SignOff`.
4. **Ranks of different lanes** in `Fleet`, and the planner's links and rates there.
