----------------------------- MODULE BlockCases -----------------------------
(***************************************************************************)
(* What the generated testbenches put into each block: samples for the     *)
(* pipelines, jobs for the blocks that make runs, with the values their    *)
(* answers must have.  specgen.py computes those with the reference model, *)
(* not with the design.  Data comes from the address, as it does there.    *)
(***************************************************************************)
EXTENDS Fleet

Pipelined == {"mac", "requant", "expu", "recip", "rsqrt", "silu", "rope", "resadd", "crc"}
Sequenced == {"matvec", "wmem", "proj", "projn", "mlp", "gmlp", "softmax", "attn", "attnn",
              "rmsnorm"}
Summing == {"mac", "crc"}

\* A model is either what the chiplet's blocks are derived from or the
\* option an endpoint is derived with.
Derived(u, m) ==
  CASE u = "crc" -> derive_endpoint_spec(m.link, m.option)
    [] u = "mac" -> derive_chiplet_spec(m) [] u = "requant" -> derive_requant_spec(m)
    [] u = "expu" -> derive_exp_spec(m)    [] u = "recip" -> derive_recip_spec(m)
    [] u = "rsqrt" -> derive_rsqrt_spec(m) [] u = "silu" -> derive_silu_spec(m)
    [] u = "rope" -> derive_rope_spec(m)   [] u = "resadd" -> derive_resadd_spec(m)
    [] u = "matvec" -> derive_matvec_spec(m) [] u = "wmem" -> derive_wmem_spec(m)
    [] u = "proj" -> derive_proj_spec(m)   [] u = "projn" -> derive_projn_spec(m)
    [] u = "mlp" -> derive_mlp_spec(m)     [] u = "gmlp" -> derive_gmlp_spec(m)
    [] u = "softmax" -> derive_softmax_spec(m) [] u = "attn" -> derive_attn_spec(m)
    [] u = "attnn" -> derive_attnn_spec(m) [] u = "rmsnorm" -> derive_rmsnorm_spec(m)

---------------------------------------------------------------------------
\* Samples for the pipelines: the one offered alone, and the few that go in
\* one after another in every pattern of gaps.

Edges(w) == {Lowest(w), -1, 0, 1, Highest(w)}

mac_samples(p) == [a : Edges(p.data_width), b : Edges(p.data_width)]
mac_burst(p) == {[a |-> Lowest(p.data_width), b |-> Lowest(p.data_width)],
                 [a |-> 3, b |-> -Highest(p.data_width)]}

\* Each bit of the scale, and sums of both signs, up to a quarter of the
\* accumulator: past that, the rounding add itself may overflow.
requant_samples(p) ==
  LET quarter == 2^(p.acc_width - 2)
  IN  [acc_in : {-quarter, -(quarter \div 3), -5, -1, 0, 1, 2, 77, quarter - 1},
       scale : {2^b : b \in 0..(p.scale_width - 1)} \union {3, 2^p.scale_width - 1},
       shift : {0, 1, 3, p.acc_width}]
requant_burst(p) == {[acc_in |-> -Highest(p.acc_width - 1), scale |-> 2^p.scale_width - 1, shift |-> 8],
                     [acc_in |-> 45, scale |-> 5, shift |-> 3]}

\* Every argument the port can carry.
expu_samples(p) == [x : Lowest(p.in_width)..0]
recip_samples(p) == [x : 1..(2^p.in_width - 1)]
rsqrt_samples(p) == [x : 1..AtMost(2^p.in_width - 1, 1100)]
silu_samples(p) == [x : Signed(p.width)]
expu_burst(p) == {[x |-> 0], [x |-> -7]}
table_burst(p) == {[x |-> 2^(p.in_width - 1) + 5], [x |-> 3]}
silu_burst(p) == {[x |-> Lowest(p.width)], [x |-> 9]}

rope_samples(p) == [x1 : Edges(p.data_width), x2 : Edges(p.data_width),
                    idx : 0..(p.pairs - 1), pos : 0..(2^p.pos_width - 1)]
rope_burst(p) == {[x1 |-> Highest(p.data_width), x2 |-> 3, idx |-> 0, pos |-> 1],
                  [x1 |-> 0, x2 |-> Lowest(p.data_width), idx |-> p.pairs - 1, pos |-> 2]}

\* The scales and the shift of a stream are held through it.
resadd_held(p) == {[scale_a |-> 5, scale_b |-> 3, shift |-> 3], [scale_a |-> 1, scale_b |-> 2, shift |-> 0],
                   [scale_a |-> 2^p.scale_width - 1, scale_b |-> 2^(p.scale_width - 1), shift |-> 5]}
resadd_samples(p) == [a : Signed(p.data_width), b : Edges(p.data_width)]
resadd_burst(p) == {[a |-> Highest(p.data_width), b |-> -1], [a |-> -2, b |-> Lowest(p.data_width)]}

\* Words of a frame: zeros, ones, ASCII digits.
crc_words(p) ==
  LET bits == 0..(8 * p.bytes_per_cycle - 1)
  IN  {[data |-> {}], [data |-> bits], [data |-> {b \in bits : b % 8 \in {0, 4, 5}}],
       [data |-> {b \in bits : b % 3 = 0}]}

Alone(u, p) ==
  CASE u = "mac" -> mac_samples(p)     [] u = "requant" -> requant_samples(p)
    [] u = "expu" -> expu_samples(p)   [] u = "recip" -> recip_samples(p)
    [] u = "rsqrt" -> rsqrt_samples(p) [] u = "silu" -> silu_samples(p)
    [] u = "rope" -> rope_samples(p)   [] u = "resadd" -> resadd_samples(p)
    [] u = "crc" -> crc_words(p)
Few(u, p) ==
  CASE u = "mac" -> mac_burst(p)     [] u = "requant" -> requant_burst(p)
    [] u = "expu" -> expu_burst(p)   [] u = "silu" -> silu_burst(p)
    [] u = "rope" -> rope_burst(p)   [] u = "resadd" -> resadd_burst(p)
    [] u = "crc" -> crc_words(p)     [] OTHER -> table_burst(p)
Held(u, p) == IF u = "resadd" THEN resadd_held(p) ELSE {<<>>}

\* All that a unit promises to answer: what its ports can carry, a number
\* with a logarithm, a product the rounding add has room for.
Ports(u, p) ==
  CASE u \in {"mac", "resadd"} -> [a : Signed(p.data_width), b : Signed(p.data_width)]
    [] u = "requant" -> {in \in [acc_in : Signed(p.acc_width), scale : 0..(2^p.scale_width - 1),
                                 shift : 0..(Width(p) - 1)] :
                           in.acc_in * in.scale + Half(in.shift) \in Signed(Width(p))}
    [] u = "expu" -> [x : Lowest(p.in_width)..0]
    [] u \in {"recip", "rsqrt"} -> [x : 1..(2^p.in_width - 1)]
    [] u = "silu" -> [x : Signed(p.width)]
    [] u = "rope" -> [x1 : Signed(p.data_width), x2 : Signed(p.data_width),
                      idx : 0..(p.pairs - 1), pos : 0..(2^p.pos_width - 1)]
    [] u = "crc" -> [data : SUBSET (0..(8 * p.bytes_per_cycle - 1))]

\* What a sample's answer must be, as the reference model computes it; a
\* unit that sums adds it to what it has.
Golden(u, p, in, sum) ==
  CASE u = "mac" -> Wrap(sum + in.a * in.b, p.acc_width)
    [] u = "crc" -> crc32_bytes(sum, [i \in 1..p.bytes_per_cycle |-> Byte(in.data, i - 1)])
    [] u = "requant" -> requant_golden(in.acc_in, in.scale, in.shift, p.out_width)
    [] u = "expu" -> exp_golden(in.x, p)
    [] u = "recip" -> recip_golden(in.x, p)
    [] u = "rsqrt" -> rsqrt_golden(in.x, p)
    [] u = "silu" -> silu_golden(in.x, p)
    [] u = "rope" -> rope_golden(in.x1, in.x2, in.idx, in.pos, p)
    [] u = "resadd" -> resadd_golden(in.a, in.b, in.scale_a, in.scale_b, in.shift, p.data_width)
NothingSummed(u) == IF u = "crc" THEN ONES ELSE 0

---------------------------------------------------------------------------
\* Jobs.  Data spans its width; a scale brings the largest sum inside the
\* output's range, or what it checks would be the clamp.

act(i, w) == ((i * 104729 + 7) % (2^w - 5)) - (2^w - 5) \div 2
wt(i, w) == ((i * 7919 + 13) % (2^w - 5)) - (2^w - 5) \div 2
Acts(n, w, seed) == [i \in 1..n |-> act(i + seed, w)]
Weights(n, w, seed) == [i \in 1..n |-> wt(i + seed, w)]

_mlp_scale(accs, dw, mw, sw) ==
  LET hi == Highest(dw) - 1
      ref == AtLeast(Largest([i \in DOMAIN accs |-> Absolute(accs[i])]), 1)
      enough == {s \in 1..(2^sw - 2) : (hi * 2^s) \div ref >= 2^(mw - 2)}
      sh == IF enough = {} THEN 2^sw - 1 ELSE Min(enough)
  IN  [scale |-> AtLeast(AtMost((hi * 2^sh) \div ref, 2^mw - 1), 1), shift |-> sh]
ScaleFor(accs, rq) == _mlp_scale(accs, rq.out_width, rq.scale_width, AtMost(rq.shift_width, 4))

\* Sizes of the runs: several columns, depth 1, and one more on the cycle
\* after a run has ended.
matvec_jobs(dw) ==
  [k \in 1..3 |->
     LET size == <<<<3, 3>>, <<1, 2>>, <<4, 1>>>>[k]
     IN  [depth |-> size[1], cols |-> size[2], x |-> Acts(size[1], dw, 0),
          w |-> Weights(size[1] * size[2], dw, 0)]]

\* A tile that fills the memory, and a smaller one pushed over it.
wmem_jobs(dw) ==
  [k \in 1..2 |->
     LET size == <<<<4, 2>>, <<2, 2>>>>[k]
     IN  [depth |-> size[1], cols |-> size[2], x |-> Acts(size[1], dw, k),
          w |-> Weights(size[1] * size[2], dw, k)]]

\* Depth 1 is there because only a column shorter than the requantizer's
\* latency tells an index taken at the wrong moment.
proj_jobs(p, dw) ==
  [k \in 1..3 |->
     LET size == <<<<1, 4>>, <<3, 3>>, <<2, 5>>>>[k]
         x == Acts(size[1], dw, k)
         w == Weights(size[1] * size[2], dw, 2 * k)
         s == ScaleFor(Columns(x, w, size[1], size[2]), p.requant)
     IN  [depth |-> size[1], cols |-> size[2], x |-> x, w |-> w, scale |-> s.scale, shift |-> s.shift,
          cols_of |-> [c \in 1..size[2] |->
                         [bias |-> ((5 * c) % 7) - 3, scale |-> AtLeast(s.scale - (c % 3), 1),
                          shift |-> s.shift + (c % 2)]]]]

mlp_jobs(p, dw) ==
  [k \in 1..2 |->
     LET size == <<<<4, 3, 2>>, <<2, 3, 3>>>>[k]
         x == Acts(size[1], dw, k)
         w == Weights(size[1] * size[2] + size[2] * size[3], dw, k)
         t == Columns(x, w, size[1], size[2])
         s == ScaleFor(t, p.requant)
         h == Requantized(t, s.scale, s.shift, dw)
         y == Columns([i \in DOMAIN h |-> Rectified(h[i])], SubSeq(w, size[1] * size[2] + 1, Len(w)),
                      size[2], size[3])
         s2 == ScaleFor(y, p.requant)
     IN  [depth1 |-> size[1], cols1 |-> size[2], cols2 |-> size[3], x |-> x, w |-> w,
          scale1 |-> s.scale, shift1 |-> s.shift, scale2 |-> s2.scale, shift2 |-> s2.shift]]

\* Each stage's scale comes from that stage's own values.
gmlp_jobs(p, dw) ==
  [k \in 1..2 |->
     LET size == <<<<3, 2, 2>>, <<2, 3, 1>>>>[k]
         n == size[1] * size[2]
         x == Acts(size[1], dw, k)
         w == Weights(2 * n + size[2] * size[3], dw, 3 * k)
         part(i) == SubSeq(w, i * n + 1, Len(w))
         tg == Columns(x, part(0), size[1], size[2])
         sg == Min({s \in 0..8 : Sra(Largest([i \in DOMAIN tg |-> Absolute(tg[i])]), s)
                                   <= 2^(p.gate_width - 2)})
         gs == [c \in DOMAIN tg |-> silu_golden(Clamp(_round_shift(tg[c], sg), p.gate_width), p.silu)]
         tu == Columns(x, part(1), size[1], size[2])
         su == ScaleFor(tu, p.requant)
         u == Requantized(tu, su.scale, su.shift, dw)
         hp == [c \in DOMAIN gs |-> gs[c] * u[c]]
         sh == ScaleFor(hp, p.requant)
         sd == ScaleFor(Columns(Requantized(hp, sh.scale, sh.shift, dw), part(2), size[2], size[3]),
                        p.requant)
     IN  [depth1 |-> size[1], cols1 |-> size[2], cols2 |-> size[3], x |-> x, w |-> w, shift_g |-> sg,
          scale_u |-> su.scale, shift_u |-> su.shift, scale_h |-> sh.scale, shift_h |-> sh.shift,
          scale_d |-> sd.scale, shift_d |-> sd.shift]]

\* Rows that straddle zero, equal scores, one wider than the exponential
\* covers, and a row at the extremes of the port.
softmax_jobs(p) ==
  LET w == p.score_in_width
      row == <<<<3>>, <<9, -4, 2>>, <<6, 6, 6, 6>>, <<Highest(w), Lowest(w), 5>>,
               <<Highest(w) - 2^(p.score_width - 1), Highest(w), Highest(w) - 1>>, <<-20, -2>>>>
  IN  [k \in DOMAIN row |-> [n |-> Len(row[k]), x |-> row[k]]]

\* A key aligned with the query makes one score dominate; the most negative
\* value at a weight of 1 puts the weighted sum at its bound.
attn_jobs(p, dw) ==
  [k \in 1..3 |->
     LET n == <<1, 3, 4>>[k]
         hd == p.head_dim
         q == Acts(hd, dw, k)
         key == [i \in 1..(n * hd) |-> IF n > 1 /\ i \in (hd + 1)..(2 * hd)
                                       THEN (IF q[i - hd] >= 0 THEN 5 ELSE -5) ELSE wt(i + k, dw)]
         val == [i \in 1..(n * hd) |-> IF n = 1 THEN Lowest(dw) ELSE act(i + 2 * k, dw)]
         t == Columns(q, key, hd, n)
         ss == <<2, 3, 4>>[k]
         s == softmax_golden([i \in DOMAIN t |-> Score(p, [shift_s |-> ss], t[i])], p.softmax)
         a == [d \in 1..hd |-> Total([i \in 1..n |-> s[i] * val[(i - 1) * hd + d]])]
         so == ScaleFor(a, p.requant)
     IN  [n |-> n, q |-> q, k |-> key, v |-> val, shift_s |-> ss, scale |-> so.scale, shift |-> so.shift]]

\* Typical values, zeros (the sum is epsilon alone), a spike at its bound.
rmsnorm_jobs(p, dw) ==
  [k \in 1..3 |->
     LET x == <<Acts(p.d_model, dw, 1), Chain(p.d_model, 0),
                [i \in 1..p.d_model |-> IF i = 1 THEN Lowest(dw) ELSE (i % 3) - 1]>>[k]
         g == [i \in 1..p.d_model |-> IF k = 3 /\ i = 1 THEN Lowest(dw) ELSE wt(i + k, dw)]
         eps == <<4, 5, 1>>[k]
         me == rsqrt_golden(eps + Total([i \in DOMAIN x |-> x[i] * x[i]]), p.rsqrt)
         t == [i \in DOMAIN x |-> Sra(x[i] * g[i] * me[1], me[2] + p.norm_shift)]
         so == ScaleFor(t, p.requant)
     IN  [x |-> x, g |-> g, eps |-> eps, scale |-> so.scale, shift |-> so.shift]]

Jobs(u, p) ==
  CASE u = "matvec" -> matvec_jobs(p.mac.data_width) [] u = "wmem" -> wmem_jobs(p.data_width)
    [] u \in {"proj", "projn"} -> proj_jobs(p, p.requant.out_width)
    [] u = "mlp" -> mlp_jobs(p, p.requant.out_width)
    [] u = "gmlp" -> gmlp_jobs(p, p.requant.out_width)
    [] u = "softmax" -> softmax_jobs(p)
    [] u \in {"attn", "attnn"} -> attn_jobs(p, p.data_width)
    [] u = "rmsnorm" -> rmsnorm_jobs(p, p.data_width)

Wanted(u, p, j) ==
  CASE u \in {"matvec", "wmem"} -> Columns(j.x, j.w, j.depth, j.cols)
    [] u = "proj" -> proj_golden(p, j) [] u = "projn" -> projn_golden(p, j)
    [] u = "mlp" -> mlp_golden(p, j)   [] u = "gmlp" -> gmlp_golden(p, j)
    [] u = "softmax" -> softmax_golden(j.x, p)
    [] u \in {"attn", "attnn"} -> attn_golden(p, j)
    [] u = "rmsnorm" -> rmsnorm_golden(p, j)

\* What a host pushes into the block before it starts a run.
\* The weight memory is offered a word too many when it is full.
Pushed(u, p, j) ==
  CASE u = "wmem" -> IF Len(j.w) = p.capacity THEN Append(j.w, Beyond) ELSE j.w
    [] u \in {"mlp", "gmlp"} -> j.x
    [] u \in {"attn", "attnn"} -> j.q
    [] OTHER -> <<>>

-----------------------------------------------------------------------------
(* The decoders' testbenches (render_tb) are the host of some greedy runs. *)
(* They feed the prompt, then the token the hardware chose (a whole        *)
(* model's, the one it had to choose), and expect the integer reference's  *)
(* logits, or hidden state, and next token.  A last step has the head's    *)
(* weights zeroed, so that every logit ties.  To the Basys 3 board they    *)
(* type a prompt, and expect characters.                                   *)

Decoding == {"decoder", "qwen", "board"} \union Fleets
Decoded(u, ck) ==
  CASE u = "decoder" -> derive_decoder_spec(ck)
    [] u = "qwen" -> derive_qwen_spec(ck)
    [] u = "board" -> derive_board_spec(ck)
    [] u \in Fleets -> LET p == derive_full_spec(ck) IN p @@ [builds |-> Builds(u, p)]

\* The image of the parameters: anything may have been learned.
Learned(p, n, seed) ==
  Listed([i \in 1..n |-> (((i * 7919 + seed * 104729) \div 7) % (2^p.dw - 1)) - Highest(p.dw)])
param_image(p) ==
  LET w(n, seed) == Learned(p, n, seed)
      D == p.D
      F == p.F
  IN  [tok |-> w(p.V * D, 1), pos |-> w(p.L * D, 2), g1 |-> w(D, 3), g2 |-> w(D, 4),
       wq |-> w(D * D, 5), wk |-> w(D * D, 6), wv |-> w(D * D, 7), wo |-> w(D * D, 8),
       w1 |-> w(D * F, 9), w2 |-> w(F * D, 10), head |-> w(D * p.V, 11)]
qwen_image(p) ==
  LET w(n, seed) == Learned(p, n, seed)
      D == p.D
      q == p.H * p.hd
      kv == p.KV * p.hd
      layer(s) == [g1 |-> w(D, s), wq |-> w(D * q, s + 1), wk |-> w(D * kv, s + 2),
                   wv |-> w(D * kv, s + 3), wo |-> w(q * D, s + 4), g2 |-> w(D, s + 5),
                   wg |-> w(D * p.F, s + 6), wu |-> w(D * p.F, s + 7), wd |-> w(p.F * D, s + 8)]
  IN  [tok |-> w(p.V * D, 1), gf |-> w(D, 2), head |-> w(D * p.V, 3),
       layer |-> [li \in 1..p.NL |-> layer(15 * li)]]
\* A checkpoint: a matrix has its rows' constants, Qwen2.5's q, k and v
\* biases too.
checkpoint(p) ==
  LET w(n, seed) == Learned(p, n, seed)
      biased(b, rows, cols, seed) ==
        [w |-> w(rows * cols, seed),
         k |-> [c \in 1..rows |-> <<IF b THEN 5 * (c % 3) - 5 ELSE 0, 6 + (c % 8), 6>>]]
      M(rows, cols, seed) == biased(FALSE, rows, cols, seed)
      qkv(heads, seed) == biased(~p.qkn, heads * p.hd, p.D, seed)
      G(n, seed, k) == [g |-> w(n, seed), k |-> k]
      heads(l, s) == IF p.qkn THEN [qn |-> G(p.hd, s + 9, p.lc[l].qn), kn |-> G(p.hd, s + 10, p.lc[l].kn)]
                     ELSE <<>>
      layer(l, s) ==
        [n1 |-> G(p.D, s, p.lc[l].n1), n2 |-> G(p.D, s + 1, p.lc[l].n2),
         q |-> qkv(p.H, s + 2), k |-> qkv(p.KV, s + 3), v |-> qkv(p.KV, s + 4),
         o |-> M(p.D, p.H * p.hd, s + 5), g |-> M(p.F, p.D, s + 6), u |-> M(p.F, p.D, s + 7),
         d |-> M(p.D, p.F, s + 8)] @@ heads(l, s)
  IN  [layer |-> [l \in 1..p.NL |-> layer(l, 15 * l)], nf |-> G(p.D, 1, p.nf),
      table |-> [w |-> w(p.V * p.D, 2), k |-> [t \in 1..p.V |-> <<0, 5 + (t % 11), 7>>]],
       emb |-> [t \in 1..p.V |-> <<0, 11 + (t % 4), 3>>]]
Image(u, p) == CASE u = "decoder" -> param_image(p) [] u = "qwen" -> qwen_image(p)
                 [] u \in Fleets -> checkpoint(p)

Decode(u, p, W, context, tok, pos) ==
  CASE u = "decoder" -> step(p, W, context, tok, pos)
    [] u = "qwen" -> qwen_step(p, W, context, tok, pos)
    [] u \in Fleets -> int_step(p, W, context, tok, pos)
\* A head that ties every logit; a whole model's, at one below zero.
NoHead(u, W) == IF u \in Fleets THEN [W EXCEPT !.table.w = Chain(Len(@), 0),
                                               !.table.k = Chain(Len(@), <<-64, 8, 7>>)]
                                ELSE [W EXCEPT !.head = Chain(Len(@), 0)]

\* What the hardware holds of the weights, and what a step must answer: each
\* logit and the token, or the hidden state and, when the next token is
\* wanted, that token and its logit.
Flashed(u, p, W) == IF u \in Fleets THEN Images(p, W) ELSE W
Answers(u, s, wanted) ==
  IF u \in Fleets THEN <<<<{s.x}, IF wanted THEN <<s.next, s.best>> ELSE <<>>>>>>
  ELSE Append(s.lg, s.next)

\* Every step of one greedy run: what is fed, where, and what must come out.
expected_run(u, p, W, prompt, n_gen) ==
  LET flashed == Listed(<<Flashed(u, p, W)>>)
      run[i \in 0..(Len(prompt) + n_gen - 1)] ==
        IF i = 0 THEN [steps |-> <<>>, feed |-> prompt,
                       context |-> IF u = "decoder" THEN NoContext ELSE EmptyContext(p)]
        ELSE LET before == run[i - 1]
                 tok == before.feed[i]
                 s == Decode(u, p, W, before.context, tok, i - 1)
                 wanted == i >= Len(prompt)
             IN  [steps |-> Append(before.steps,
                                   [tok |-> tok, pos |-> i - 1, wanted |-> wanted, W |-> flashed[1],
                                    host |-> u \in Fleets \/ i <= Len(prompt),
                                    want |-> Answers(u, s, wanted)]),
                  feed |-> IF i >= Len(before.feed) THEN Append(before.feed, s.next) ELSE before.feed,
                  context |-> [K |-> s.K, V |-> s.V]]
  IN  run[Len(prompt) + n_gen - 1].steps

\* A run that fills the window, a tie, and for a decoder that is fed what it
\* chose a run over what the one before left in the caches.
GreedyJobs(u, p) ==
  LET W == Image(u, p)
      again == IF u \in Fleets THEN <<>> ELSE expected_run(u, p, W, <<1>>, 2)
  IN  expected_run(u, p, W, <<2, 0>>, p.L - 1) \o again \o expected_run(u, p, NoHead(u, W), <<0>>, 1)

\* The board: the line feed of an earlier prompt, a prompt with a character it
\* does not know; one longer than the window.  Every character it chooses
\* comes back, then a newline.
Unknown(p) == CHOOSE c \in 32..126 : ~Known(p, c)
Prompts(p) ==
  LET c == p.chars
  IN  <<<<LF, c[3], Unknown(p), c[1], CR>>, [i \in 1..(p.L + 1) |-> c[(i % p.V) + 1]] \o <<CR>>>>
TypedJob(p, W, text) ==
  LET known == SelectSeq(text, LAMBDA c : Known(p, c))
      ids == [i \in 1..AtMost(Len(known), p.L) |-> to_tok(p, known[i])]
      steps == expected_run("qwen", p, W, ids, p.L - Len(ids) + 1)
      chosen == [k \in Len(ids)..p.L |-> to_chr(p, Last(steps[k].want))]
  IN  [text |-> text, W |-> W, want |-> [k \in 1..Cardinality(DOMAIN chosen) |-> chosen[Len(ids) + k - 1]] \o <<LF>>]
DecoderJobs(u, p) ==
  IF u = "board" THEN LET W == qwen_image(p) IN [k \in 1..2 |-> TypedJob(p, W, Prompts(p)[k])]
  ELSE GreedyJobs(u, p)

\* The host holds the token and the position through the step.
Hosted(j, chosen) ==
  [tok |-> IF j.host THEN j.tok ELSE chosen, pos |-> j.pos, head_en |-> j.wanted]

DecoderReset(u, p) == CASE u = "decoder" -> decoder_reset(p) [] u = "qwen" -> qwen_reset(p)
                        [] u = "board" -> board_reset(p) [] u \in Fleets -> fleet_reset(p)
DecoderStepped(u, p, r, j, in) ==
  CASE u = "decoder" -> decoder(p, r, j.W, in @@ Hosted(j, r.next_tok))
    [] u = "qwen" -> qwen_decoder(p, r, j.W, in @@ Hosted(j, r.next_tok))
    [] u = "board" -> basys3(p, r, j, in)
    [] u \in Fleets -> fleet(u, p, r, j.W, in @@ Hosted(j, r.next_tok))

\* A step answers each logit, and at done the token it chose.
DecoderOut(u, p, s) ==
  CASE u = "board" -> s.out
    [] u # "board" /\ ~s.done -> IF u \in Fleets THEN quiet ELSE s.out
    [] u # "board" /\ s.done -> [o_valid |-> TRUE, o_index |-> IF u \in Fleets THEN 0 ELSE p.V,
                  o_data |-> IF u \in Fleets THEN FleetEnds(u, s) ELSE s.next_tok]
=============================================================================
