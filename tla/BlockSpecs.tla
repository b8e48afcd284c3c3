----------------------------- MODULE BlockSpecs -----------------------------
(***************************************************************************)
(* What specgen.py derives for each block from a description of the model  *)
(* it is to run: widths, depths and latencies.  A block's record names the *)
(* blocks it is built from, so that a change to one changes it.  The sizes *)
(* the code writes out are constants here, in a record of that name.       *)
(* First, what the Verilog of the blocks is written in.                    *)
(***************************************************************************)
EXTENDS Integers, SequencesExt

CONSTANT Sizes

-----------------------------------------------------------------------------
(* Words of a width, shifts, rounding and saturation, chains of registers. *)

\* The low w bits, unsigned; the same bits as a two's complement number.
Low(v, w) == v % 2^w
Wrap(v, w) == Low(v + 2^(w - 1), w) - 2^(w - 1)

\* What a word of w bits holds.
Lowest(w) == -(2^(w - 1))
Highest(w) == 2^(w - 1) - 1
Signed(w) == Lowest(w)..Highest(w)

AtLeast(v, low) == IF v < low THEN low ELSE v
AtMost(v, high) == IF v > high THEN high ELSE v

\* The bits hi..lo of a word; an arithmetic shift right, which leaves a word
\* of 30 bits or fewer nothing but its sign from 30 on (TLC's numbers end
\* before 2^31).
Bits(v, hi, lo) == Low(v \div 2^lo, hi - lo + 1)
Sra(v, n) == v \div 2^(IF v \in -(2^30)..(2^30 - 1) THEN AtMost(n, 30) ELSE n)

Half(sh) == IF sh = 0 THEN 0 ELSE 2^(sh - 1)
_round_shift(v, sh) == Sra(v + Half(sh), sh)

Clamp(v, w) == AtLeast(AtMost(v, 2^(w - 1) - 1), -(2^(w - 1)))
Absolute(v) == AtLeast(v, -v)

\* bit_length of a number, ceil(log2) of one, and a quotient rounded up.
bit_length(v) == CHOOSE n \in 0..v : v < 2^n /\ (n > 0 => v >= 2^(n - 1))
CeilLog2(v) == CHOOSE n \in 0..v : v <= 2^n /\ (n > 0 => v > 2^(n - 1))
CeilDiv(a, b) == (a + b - 1) \div b

\* n registers in a row, all holding v; the row takes a value in at its
\* front and lets its last one go.
Chain(n, v) == [i \in 1..n |-> v]
Shifted(chain, v) == <<v>> \o Front(chain)

\* A memory whose addresses count from 0, and what a read beyond it gives.
Beyond == 1
Read(mem, a) == IF a + 1 \in DOMAIN mem THEN mem[a + 1] ELSE Beyond
Write(mem, a, v) == [mem EXCEPT ![a + 1] = v]

\* The fields of f, and those of g it has not got.
Joined(f, g) == [x \in DOMAIN f \union DOMAIN g |-> IF x \in DOMAIN f THEN f[x] ELSE g[x]]

\* The sum of a sequence of numbers, and its largest member.
Total(s) == MapThenSumSet(LAMBDA i : s[i], DOMAIN s)
Largest(s) == Max({s[i] : i \in DOMAIN s})

-----------------------------------------------------------------------------
(* The records of the blocks.                                              *)

depth(ms) == Max({ms.d_model, ms.d_ff})
head_dim(ms) == IF "head_dim" \in DOMAIN ms THEN ms.head_dim ELSE ms.d_model \div ms.n_head
data_width(ms) == Max({ms.weight_bits, ms.activation_bits})

\* The widest reduction, and room for a sum of softmax weights times values.
acc_width(ms) == Max({ms.weight_bits + ms.activation_bits + CeilLog2(depth(ms)),
                      data_width(ms) + Sizes.exp_frac + 1})

derive_chiplet_spec(ms) ==
  [data_width |-> data_width(ms), acc_width |-> acc_width(ms),
   pipeline_stages |-> IF data_width(ms) <= Sizes.one_multiply THEN 2 ELSE 3]

\* Partial products of the scale, and the depth of the requantizer they make.
requant_terms(aw, splits) == splits * (IF aw > Sizes.acc_slice THEN 2 ELSE 1)
per_add(aw, mw) == IF aw + mw > Sizes.wide_add THEN 2 ELSE 1
requant_stages(aw, mw, splits) ==
  1 + CeilLog2(requant_terms(aw, splits)) * per_add(aw, mw) + per_add(aw, mw) + 2

derive_requant_spec(ms) ==
  LET aw == acc_width(ms)
      mw == Sizes.scale_width
      splits == Min({mw, 3 + AtLeast((aw - Sizes.whole_acc + 7) \div 8, 0)})
  IN  [acc_width |-> aw, out_width |-> data_width(ms), scale_width |-> mw,
       shift_width |-> CeilLog2(aw + mw) + 1, scale_splits |-> splits,
       acc_slices |-> requant_terms(aw, splits) \div splits,
       per_add |-> per_add(aw, mw),
       pipeline_stages |-> requant_stages(aw, mw, splits)]

\* As many integer bits as underflow the output: 2^x is 0 below -(frac + 2).
derive_exp_spec(ms) ==
  LET fo == Sizes.exp_frac
      span == CeilDiv((fo + 2) * 10000, 14427)
  IN  [in_width |-> 1 + AtLeast(bit_length(span), 4) + Sizes.score_frac,
       in_frac |-> Sizes.score_frac, out_width |-> fo + 1, out_frac |-> fo,
       pipeline_stages |-> 3]

derive_recip_spec(ms) ==
  LET terms == AtMost(ms.seq_len, Sizes.most_terms)
      iw == bit_length(terms * 2^Sizes.exp_frac)
  IN  [in_width |-> iw, out_width |-> Sizes.table_width,
       lut_bits |-> Sizes.table_bits,
       shift_bias |-> Sizes.table_width + iw - 1, pipeline_stages |-> 3]

derive_rsqrt_spec(ms) ==
  LET iw == 2 * ms.activation_bits + CeilLog2(depth(ms))
  IN  [in_width |-> iw + (iw % 2), out_width |-> Sizes.table_width,
       lut_bits |-> Sizes.table_bits, pipeline_stages |-> 3]

derive_silu_spec(ms) ==
  LET e == derive_exp_spec(ms)
      rc == derive_recip_spec(ms)
  IN  [width |-> e.in_width, weight_frac |-> e.out_frac, exp |-> e, recip |-> rc]

\* ms.freqs holds each pair's turns a position, ms.sines the sines of a turn
\* from none on, both in the format and to the nearest, as the code rounds them.
derive_rope_spec(ms) ==
  LET dw == ms.activation_bits
      pw == AtLeast(bit_length(ms.seq_len - 1), 1)
  IN  [data_width |-> dw, pairs |-> head_dim(ms) \div 2, pos_width |-> pw,
       lut_bits |-> Sizes.turn_bits, phase_bits |-> Sizes.turn_bits + pw + 2,
       coef_frac |-> dw + 6, coef_width |-> dw + 8, freqs |-> ms.freqs,
       sines |-> ms.sines]

derive_resadd_spec(ms) ==
  LET rq == derive_requant_spec(ms)
  IN  [data_width |-> data_width(ms), scale_width |-> rq.scale_width,
       shift_width |-> rq.shift_width,
       sum_width |-> data_width(ms) + rq.scale_width + 2]

derive_matvec_spec(ms) ==
  LET dep_w == AtLeast(bit_length(depth(ms)), 4)
  IN  [mac |-> derive_chiplet_spec(ms), depth_width |-> dep_w,
       col_width |-> dep_w, addr_width |-> 2 * dep_w, mem_latency |-> 1]

derive_wmem_spec(ms) ==
  [data_width |-> data_width(ms), capacity |-> Sizes.tile,
   matvec |-> derive_matvec_spec(ms)]

derive_proj_spec(ms) ==
  [matvec |-> derive_matvec_spec(ms), requant |-> derive_requant_spec(ms)]

\* Lanes enough for the board's memory, each with its own byte of the word.
derive_projn_spec(ms) ==
  [mac |-> derive_chiplet_spec(ms), requant |-> derive_requant_spec(ms),
   lanes |-> ms.lanes, per_column |-> ms.per_column]

derive_mlp_spec(ms) ==
  [matvec |-> derive_matvec_spec(ms), requant |-> derive_requant_spec(ms),
   bank |-> Sizes.bank]

derive_gmlp_spec(ms) ==
  [matvec |-> derive_matvec_spec(ms), requant |-> derive_requant_spec(ms),
   silu |-> derive_silu_spec(ms), bank |-> Sizes.bank,
   gate_width |-> derive_silu_spec(ms).width]

derive_softmax_spec(ms) ==
  LET e == derive_exp_spec(ms)
  IN  [capacity |-> AtMost(2^AtLeast(bit_length(ms.seq_len - 1), 1), Sizes.row),
       score_width |-> e.in_width, score_in_width |-> e.in_width + Sizes.headroom,
       weight_frac |-> e.out_frac, exp |-> e, recip |-> derive_recip_spec(ms)]

derive_attn_spec(ms) ==
  LET sm == derive_softmax_spec(ms)
  IN  [data_width |-> data_width(ms), head_dim |-> head_dim(ms),
       capacity |-> sm.capacity, score_width |-> sm.score_in_width,
       score_guard |-> Sizes.score_guard, softmax |-> sm,
       wsum_width |-> data_width(ms) + sm.weight_frac + 1,
       matvec |-> derive_matvec_spec(ms), requant |-> derive_requant_spec(ms)]

\* A score is a query times a key, both activations, over head_dim.
derive_score_mac_spec(ms) ==
  derive_chiplet_spec([ms EXCEPT !.weight_bits = ms.activation_bits,
                                 !.d_model = head_dim(ms), !.d_ff = head_dim(ms)])

derive_attnn_spec(ms) ==
  LET mac == derive_chiplet_spec(ms)
      aw == Max({mac.acc_width, derive_score_mac_spec(ms).acc_width})
  IN  derive_attn_spec(ms) @@
      [lanes |-> AtMost(ms.lanes, head_dim(ms)),
       mac |-> [mac EXCEPT !.acc_width = aw]]

\* The extra shift keeps |x * g * m| inside the requantizer's input.
derive_rmsnorm_spec(ms) ==
  LET rs == derive_rsqrt_spec(ms)
      dw == data_width(ms)
  IN  [data_width |-> dw, acc_width |-> acc_width(ms), d_model |-> ms.d_model,
       rsqrt |-> rs, requant |-> derive_requant_spec(ms),
       norm_shift |-> AtLeast(dw + rs.out_width + 1 - acc_width(ms), 0)]
=============================================================================
