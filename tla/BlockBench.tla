----------------------------- MODULE BlockBench -----------------------------
(***************************************************************************)
(* The generated testbenches: one block, fresh from reset, on a clock.  A  *)
(* pipeline is offered samples, alone or one after another with any gaps;  *)
(* a block that makes runs is loaded, started and waited for, job after    *)
(* job.  A reset may come between any two clock edges.  A decoder is given *)
(* whole greedy runs, its blocks answering as early or late as they like.  *)
(* A board is typed a prompt, as fast or slowly as someone likes.          *)
(***************************************************************************)
EXTENDS BlockCases

CONSTANTS Models,     \* descriptions of the model the chiplet's blocks are for
          Endpoints,  \* a link and an option of it, for the fabric's endpoint
          Checkpoints, \* a decoder and the checkpoint it is derived for
          BurstLen,   \* samples in a burst
          MaxClears,  \* clears in a burst
          MaxResets,  \* resets after the first one
          Bench       \* Tables, worked out once

VARIABLES block,  \* the unit on the bench and the description it is for
          r,      \* its registers and memories
          tb      \* what the testbench has offered and expects

vars == <<block, r, tb>>

---------------------------------------------------------------------------
\* What does not change in a simulation: each unit's description, the
\* samples or the jobs it gets and the answers it owes.  @@ makes a table.

Piped == (Pipelined \ {"crc"}) \X Models \union {"crc"} \X Endpoints
Runs == Sequenced \X Models \union Checkpoints

Table(f) == f @@ <<>>
Tables ==
  LET specs == Table([b \in Piped \union Runs |->
                 IF b[1] \in Decoding THEN Decoded(b[1], b[2]) ELSE Derived(b[1], b[2])])
      work == Table([b \in Runs |-> Listed(IF b[1] \in Decoding THEN DecoderJobs(b[1], specs[b])
                                           ELSE Jobs(b[1], specs[b]))])
      wanted(b, j) == Listed(IF b[1] \in Decoding THEN j.want ELSE Wanted(b[1], specs[b], j))
  IN  [specs |-> specs, work |-> work,
       samples |-> Table([b \in Piped |-> Alone(b[1], specs[b])]),
       bursts |-> Table([b \in Piped |-> Few(b[1], specs[b])]),
       wants |-> Table([b \in Runs |-> Listed([k \in DOMAIN work[b] |-> wanted(b, work[b][k])])])]

unit == block[1]
spec == Bench.specs[block]

\* What the descriptions are: the code's widths and tables satisfy these.
\* A shift past the format of the exponential fits the register it waits in,
\* and its table the width of the answer; a turn has a quarter.
ASSUME SizesAssumption ==
  /\ \A f \in {"score_frac", "table_width", "table_bits", "scale_width", "one_multiply",
               "acc_slice", "wide_add", "whole_acc", "most_terms", "turn_bits"} : Sizes[f] \in Nat
  /\ Sizes.exp_frac \in 1..22 /\ Sizes.table_bits <= Sizes.exp_frac
  /\ Sizes.scale_width >= 3 /\ Sizes.most_terms >= 2 /\ Sizes.turn_bits >= 2
  /\ \A i \in DOMAIN exp_lut : exp_lut[i] \in 0..(2^(Sizes.exp_frac + 1) - 1)
\* With a context of one the sum 1 + e of SiLU would not fit the reciprocal.
ASSUME ModelsAssumption ==
  \A m \in Models :
    /\ \A f \in {"weight_bits", "activation_bits", "d_model", "d_ff"} : m[f] \in Nat \ {0}
    /\ m.seq_len \in Nat \ {0, 1} /\ Sizes.table_bits <= 2 * m.activation_bits
    /\ head_dim(m) \in Nat \ {0} /\ \A i \in 1..(head_dim(m) \div 2) : m.freqs[i] \in Int
    /\ LET one == 2^(m.activation_bits + 6) IN m.sines \in [1..2^Sizes.turn_bits -> -one..one]
ASSUME EndpointsAssumption == \A e \in Endpoints : e.option \in Nat
ASSUME CheckpointsAssumption == \A c \in Checkpoints : c[1] \in Decoding
ASSUME BenchAssumption ==
  \A b \in Piped : /\ Bench.specs[b] = Derived(b[1], b[2])
                   /\ Bench.samples[b] \subseteq Ports(b[1], Bench.specs[b])
                   /\ Bench.bursts[b] \subseteq Ports(b[1], Bench.specs[b]) /\ Bench.bursts[b] # {}

---------------------------------------------------------------------------
\* The pipelines.  tb.line is what entered at each of the last edges, as far
\* back as the block's latency; tb.want is the answer that is due.

Reset(u, p) ==
  CASE u = "mac" -> mac_reset(p)     [] u = "requant" -> requant_reset(p)
    [] u = "expu" -> expu_reset(p)   [] u = "recip" -> recip_reset(p)
    [] u = "rsqrt" -> rsqrt_reset(p) [] u = "silu" -> silu_reset(p)
    [] u = "rope" -> rope_reset(p)   [] u = "resadd" -> resadd_reset(p)
    [] u = "crc" -> crc_reset(p)
Edge(u, p, in) ==
  CASE u = "mac" -> mac(p, r, in)     [] u = "requant" -> requant(p, r, in)
    [] u = "expu" -> expu(p, r, in)   [] u = "recip" -> recip(p, r, in)
    [] u = "rsqrt" -> rsqrt(p, r, in) [] u = "silu" -> silu(p, r, in)
    [] u = "rope" -> rope(p, r, in)   [] u = "resadd" -> resadd(p, r, in)
    [] u = "crc" -> crc(p, r, in)
Output(u) ==
  CASE u = "mac" -> r.acc [] u = "crc" -> r.crc_out
    [] u = "requant" -> <<r.q_out, r.sat>>
    [] u = "recip" -> <<r.y, r.k>> [] u = "rsqrt" -> <<r.y, r.e>>
    [] u = "rope" -> <<r.y1, r.y2>>
    [] OTHER -> r.y
\* The frame's check value is its last state, inverted.
Expected(u) == IF u = "crc" THEN Inverted(tb.want) ELSE tb.want

\* Three blocks state no latency; it is the depth of their registers.
Latency(u, p) == CASE u = "silu" -> p.exp.pipeline_stages + p.recip.pipeline_stages + 5
                   [] u = "rope" -> IF p.data_width > Sizes.one_multiply THEN 5 ELSE 4
                   [] u = "resadd" -> 3
                   [] OTHER -> p.pipeline_stages
EmptyLine == Chain(Latency(unit, spec), <<>>)

\* A clock edge with the sample in.  A clear takes the sample that would
\* have been answered at that edge.
Clocked(in, valid, clear) ==
  LET line == Shifted(tb.line, IF valid THEN <<in>> ELSE <<>>)
      answered == IF clear THEN <<>> ELSE Last(line)
  IN  /\ r' = Edge(unit, spec, Joined(Joined(in, tb.held), [valid_in |-> valid, clear |-> clear]))
      /\ tb' = [tb EXCEPT
                  !.line = Append(Front(line), answered),
                  !.left = IF valid THEN @ - 1 ELSE @,
                  !.clears = IF clear THEN @ - 1 ELSE @,
                  !.want = CASE clear -> NothingSummed(unit)
                             [] ~clear /\ answered # <<>> ->
                                  Golden(unit, spec, Joined(answered[1], tb.held), tb.want)
                             [] OTHER -> @]
      /\ UNCHANGED block

Offered == IF tb.mode = "alone" THEN Bench.samples[block] ELSE Bench.bursts[block]
Idle == CHOOSE in \in Bench.bursts[block] : TRUE

Sample == block \in Piped /\ tb.left > 0 /\ \E in \in Offered : Clocked(in, TRUE, FALSE)
Gap == block \in Piped /\ Clocked(Idle, FALSE, FALSE)
Clear == /\ block \in Piped /\ unit \in Summing /\ tb.clears > 0
         /\ Clocked(Idle, tb.left > 0, TRUE)

ResetPipeline ==
  /\ block \in Piped /\ tb.resets > 0
  /\ r' = Reset(unit, spec)
  /\ tb' = [tb EXCEPT !.line = EmptyLine, !.want = NothingSummed(unit), !.resets = @ - 1]
  /\ UNCHANGED block

---------------------------------------------------------------------------
\* The blocks that make runs.  tb.seen is what the run has answered, index
\* by index; tb.clk turns at each clock edge of a run, so that one that
\* leaves the block as it was is a step all the same.

\* A reset leaves the memories as they are.
Memories == {"act", "xbuf", "gbuf", "ubuf", "hbuf", "qbuf", "sbuf", "pbuf", "mem", "buf_mem"}
Keeping(fresh, old) ==
  [f \in DOMAIN fresh |-> IF f \in Memories /\ f \in DOMAIN old THEN old[f] ELSE fresh[f]]
Fresh(u, p) ==
  CASE u = "matvec" -> walk_reset(p) [] u = "wmem" -> tile_reset(p)
    [] u = "proj" -> proj_reset(p)   [] u = "projn" -> projn_reset(p)
    [] u = "mlp" -> mlp_reset(p)     [] u = "gmlp" -> gmlp_reset(p)
    [] u = "softmax" -> scores_reset(p) [] u = "attn" -> attn_reset(p)
    [] u = "attnn" -> attnn_reset(p) [] u = "rmsnorm" -> rmsnorm_reset(p)
    [] u \in Decoding -> DecoderReset(u, p)
WithMemories(u, p) ==
  LET f == Keeping(Fresh(u, p), r)
  IN  CASE u = "wmem" -> [f EXCEPT !.wm = Keeping(f.wm, r.wm)]
        [] u \in {"softmax", "attn", "attnn"} -> [f EXCEPT !.sm = Keeping(f.sm, r.sm)]
        [] OTHER -> f

Stepped(u, p, j, in) ==
  CASE u = "matvec" -> walked(p, r, j, in.start) [] u = "wmem" -> tile(p, r, j, in)
    [] u = "proj" -> proj(p, r, j, in)   [] u = "projn" -> projn(p, r, j, in)
    [] u = "mlp" -> mlp(p, r, j, in)     [] u = "gmlp" -> gmlp(p, r, j, in)
    [] u = "softmax" -> scores(p, r, j, in) [] u = "attn" -> attn(p, r, j, in)
    [] u = "attnn" -> attnn(p, r, j, in) [] u = "rmsnorm" -> rmsnorm(p, r, j, in)
    [] OTHER -> DecoderStepped(u, p, r, j, in)

WalkOut(w) == [o_valid |-> w.mv.col_valid, o_index |-> w.mv.col_index, o_data |-> w.mc.acc]
Out(u, s) == CASE u = "matvec" -> WalkOut(s) [] u = "wmem" -> WalkOut(s.wk)
               [] u = "softmax" -> s.sm.out [] u \in Decoding -> DecoderOut(u, spec, s)
               [] OTHER -> s.out
Busy(u, s) == CASE u = "matvec" -> s.mv.busy [] u = "wmem" -> s.wk.mv.busy
                [] u = "softmax" -> s.sm.busy [] OTHER -> s.busy

job == Bench.work[block][tb.k]
Still == [start |-> FALSE, load_start |-> FALSE, load_valid |-> FALSE, load_data |-> 0,
          goes |-> TRUE]
\* A decoder's blocks answer at an edge, or not yet.
Paces == IF unit \in Decoding THEN BOOLEAN ELSE {TRUE}

Ran(in, phase, loaded) ==
  /\ r' = Stepped(unit, spec, job, in)
  /\ tb' = [tb EXCEPT !.loaded = loaded,
                      !.phase = phase,
                      !.clk = phase = "running" /\ @ # in.goes,
                      !.seen = IF Out(unit, r').o_valid THEN Append(@, Out(unit, r').o_index) ELSE @]
  /\ UNCHANGED block

Loading == block \in Runs /\ tb.phase = "load"
ToPush == IF unit \in Decoding THEN <<>> ELSE Pushed(unit, spec, job)
Loaded == tb.loaded = Len(ToPush)

LoadStart == /\ Loading /\ unit = "wmem" /\ tb.loaded = -1
             /\ Ran([Still EXCEPT !.load_start = TRUE], "load", 0)
Push == /\ Loading /\ tb.loaded >= 0 /\ ~Loaded
        /\ Ran([Still EXCEPT !.load_valid = TRUE,
                             !.load_data = ToPush[tb.loaded + 1]],
               "load", tb.loaded + 1)
Pause == Loading /\ Ran(Still, "load", tb.loaded)
Start == /\ Loading /\ Loaded
         /\ Ran([Still EXCEPT !.start = TRUE], "running", tb.loaded)
Run == /\ block \in Runs /\ tb.phase = "running"
       /\ \E goes \in Paces : Ran([Still EXCEPT !.goes = goes],
                                  IF Busy(unit, r') THEN "running" ELSE "ended", tb.loaded)

NothingLoaded(u) == IF u = "wmem" THEN -1 ELSE 0
\* The next job, from the cycle the run before it has ended on; a decoder's
\* host takes the token first.
NextJob == /\ block \in Runs /\ tb.phase = "ended" /\ tb.k < Len(Bench.work[block])
           /\ r' = IF unit \in Decoding THEN Stepped(unit, spec, job, Still) ELSE r
           /\ tb' = [tb EXCEPT !.k = @ + 1, !.phase = "load", !.seen = <<>>,
                               !.loaded = NothingLoaded(unit)]
           /\ UNCHANGED block

ResetRun ==
  /\ block \in Runs /\ tb.resets > 0
  /\ r' = WithMemories(unit, spec)
  /\ tb' = [tb EXCEPT !.phase = "load", !.seen = <<>>, !.loaded = NothingLoaded(unit),
                      !.clk = FALSE, !.resets = @ - 1]
  /\ UNCHANGED block

---------------------------------------------------------------------------

Init ==
  \/ /\ block \in Piped
     /\ r = Reset(unit, spec)
     /\ \E held \in Held(unit, spec), mode \in {"alone", "burst"} :
          tb = [mode |-> mode, held |-> held, line |-> EmptyLine,
                want |-> NothingSummed(unit), resets |-> MaxResets,
                left |-> IF mode = "alone" THEN 1 ELSE BurstLen,
                clears |-> IF mode = "alone" THEN 0 ELSE MaxClears]
  \/ /\ block \in Runs
     /\ r = Fresh(unit, spec)
     /\ \E k \in IF unit \in Decoding THEN {1} ELSE DOMAIN Bench.work[block] :
          tb = [phase |-> "load", k |-> k, loaded |-> NothingLoaded(unit), seen |-> <<>>,
                clk |-> FALSE, resets |-> IF unit \in Decoding THEN 0 ELSE MaxResets]

Next == \/ Sample \/ Gap \/ Clear \/ ResetPipeline
        \/ LoadStart \/ Push \/ Pause \/ Start \/ Run \/ NextJob \/ ResetRun

\* The clock does not stop while a run is on, nor do the blocks of a
\* decoder: WF_vars(Run).  Run is a step whenever one is, for a sequencer
\* whose blocks do not go comes to a standstill.
Running == block \in Runs /\ tb.phase = "running"
ClockRuns == []<>~Running \/ []<><<Running>>_vars

Spec == Init /\ [][Next]_vars /\ ClockRuns

---------------------------------------------------------------------------

TypeOK == /\ block \in Piped \union Runs
          /\ tb.resets \in 0..MaxResets
          /\ block \in Piped => /\ tb.left \in 0..BurstLen /\ tb.clears \in 0..MaxClears
                                /\ Len(tb.line) = Latency(unit, spec)
                                /\ r.valid_out \in BOOLEAN
          /\ block \in Runs => /\ tb.phase \in {"load", "running", "ended"}
                               /\ tb.k \in DOMAIN Bench.work[block]
                               /\ tb.loaded \in -1..Len(ToPush)

\* A pipeline flags an answer exactly its derived latency after each sample,
\* however the samples, the gaps, a clear and a reset fall, and at no other
\* edge: the latency is the number every block that embeds it counts on.
FixedLatency == block \in Piped => (r.valid_out <=> Last(tb.line) # <<>>)

\* The answer a pipeline flags is the reference model's for the sample it
\* belongs to, whatever else is in the pipeline with it.
BitExact == block \in Piped /\ r.valid_out => Output(unit) = Expected(unit)

\* An answer of a run carries the reference model's value for its index; an
\* index is answered once in a run, and nothing is answered outside one.
OutputsExact ==
  block \in Runs =>
    LET o == Out(unit, r)
        want == Bench.wants[block][tb.k]
    IN  /\ o.o_valid => /\ tb.phase # "load"
                        /\ o.o_index + 1 \in DOMAIN want
                        /\ o.o_data = want[o.o_index + 1]
        /\ IsInjective(tb.seen)

\* When a block says it is no longer busy, it has answered every index: what
\* starts it again, or reads its results, counts on that.
RunWhole == block \in Runs /\ tb.phase = "ended" => Len(tb.seen) = Len(Bench.wants[block][tb.k])

\* A run that has begun ends, or is reset.
EveryRunEnds == Running ~> ~Running
=============================================================================
