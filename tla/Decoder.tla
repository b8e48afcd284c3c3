------------------------------- MODULE Decoder -------------------------------
(***************************************************************************)
(* The small decoder (decoder.py): one decode step, from the embedding to  *)
(* the argmax, over one instance of each block.  The sequencer is given    *)
(* register by register; the blocks only by what BlockBench shows of them: *)
(* once started, one is busy, answers the reference model's values index   *)
(* by index, when it likes, and only then is busy no more.                 *)
(***************************************************************************)
EXTENDS Attention

\* p describes a checkpoint and the blocks derived at its size.
derive_decoder_spec(ms) ==
  [D |-> ms.d_model, F |-> ms.d_ff, V |-> ms.vocab, L |-> ms.seq_len, dw |-> data_width(ms),
   k |-> ms.k, shift_s |-> ms.shift_s, eps |-> 1,
   attn |-> derive_attn_spec(ms), rmsnorm |-> derive_rmsnorm_spec(ms)]

---------------------------------------------------------------------------
\* The integer reference, a step at a time; W is the image of the parameters.

\* A vector worked out once, as a tuple, not at each use of it.
Listed(v) == v \o <<>>

_proj(p, x, w, rows, cols, k) == Listed(Requantized(Columns(x, w, rows, cols), k[1], k[2], p.dw))
_rmsnorm(p, x, g, k) ==
  Listed(rmsnorm_golden(p.rmsnorm, [x |-> x, g |-> g, eps |-> p.eps, scale |-> k[1], shift |-> k[2]]))
_resadd(p, a, b, k) ==
  Listed([i \in DOMAIN a |-> resadd_golden(a[i], b[i], k[1], k[2], k[3], p.dw)])
_attn(p, q, K, V, n, shift_s, k) ==
  Listed(attn_golden(p.attn, [q |-> q, k |-> K, v |-> V, n |-> n, shift_s |-> shift_s,
                              scale |-> k[1], shift |-> k[2]]))
Row(table, i, width) == SubSeq(table, i * width + 1, (i + 1) * width)
argmax(lg) == (CHOOSE i \in DOMAIN lg : \A j \in DOMAIN lg :
                 lg[j] < lg[i] \/ (lg[j] = lg[i] /\ i <= j)) - 1

NoContext == [K |-> <<>>, V |-> <<>>]

step(p, W, context, tok, i) ==
  LET D == p.D
      k == p.k
      x == _resadd(p, Row(W.tok, tok, D), Row(W.pos, i, D), k.emb)
      xn == _rmsnorm(p, x, W.g1, k.n1)
      q == _proj(p, xn, W.wq, D, D, k.q)
      K == context.K \o _proj(p, xn, W.wk, D, D, k.k)
      V == context.V \o _proj(p, xn, W.wv, D, D, k.v)
      c == _attn(p, q, K, V, i + 1, p.shift_s, k.ctx)
      x1 == _resadd(p, x, _proj(p, c, W.wo, D, D, k.a), k.r1)
      u == _proj(p, _rmsnorm(p, x1, W.g2, k.n2), W.w1, D, p.F, k.h)
      h == Listed([f \in DOMAIN u |-> AtLeast(u[f], 0)])
      x2 == _resadd(p, x1, _proj(p, h, W.w2, p.F, D, k.m), k.r2)
      lg == _proj(p, x2, W.head, D, p.V, k.lg)
  IN  [K |-> K, V |-> V, lg |-> lg, next |-> argmax(lg)]

---------------------------------------------------------------------------
\* A block as the sequencer sees it, and the pipelines it streams through,
\* each a register and the block's own latency.

IdleBlock == [busy |-> FALSE, next |-> 0, valid |-> FALSE, index |-> 0, data |-> 0]

\* It answers, or is busy no more, at the edges it takes its time to; answer
\* is what it has at its next index.
Block(b, starts, goes, n, answer) ==
  CASE starts -> [b EXCEPT !.busy = TRUE, !.next = 0, !.valid = FALSE]
    [] ~starts /\ b.busy /\ goes /\ b.next < n ->
         [busy |-> TRUE, next |-> b.next + 1, valid |-> TRUE, index |-> b.next,
          data |-> answer]
    [] ~starts /\ b.busy /\ goes /\ b.next = n -> [b EXCEPT !.busy = FALSE, !.valid = FALSE]
    [] OTHER -> [b EXCEPT !.valid = FALSE]

Nothing == <<>>
Stream(latency) == Chain(latency + 1, Nothing)
add_latency == 3

---------------------------------------------------------------------------
\* The sequencer.

decoder_reset(p) ==
  LET region == Chain(Max({p.D, p.F, p.V}), Beyond)
  IN  [st |-> "S_IDLE", ph |-> FALSE, busy |-> FALSE, done |-> FALSE, tok_r |-> 0, pos_r |-> 0,
       next_tok |-> 0, fj |-> 0, ocnt |-> 0, cp_v |-> FALSE, cp_i |-> 0, p_data |-> 0,
       starts |-> FALSE, load |-> Nothing, query |-> <<>>, blk |-> IdleBlock,
       ra |-> Stream(add_latency), out |-> quiet, best |-> 0, best_i |-> 0,
       act |-> [s \in {"tok", "pos", "x", "n", "q", "c", "a", "x1", "h", "x2", "lg"} |-> region],
       kc |-> Chain(p.L * p.D, Beyond), vc |-> Chain(p.L * p.D, Beyond)]

\* Where a projection state reads and writes, its matrix and its constants.
projs(p) ==
  LET D == p.D
      row(src, w, rows, cols, k, dst) == [src |-> src, w |-> w, rows |-> rows, cols |-> cols,
                                          k |-> p.k[k], dst |-> dst]
  IN  [S_Q |-> row("n", "wq", D, D, "q", "q"), S_K |-> row("n", "wk", D, D, "k", "kc"),
       S_V |-> row("n", "wv", D, D, "v", "vc"), S_O |-> row("c", "wo", D, D, "a", "a"),
       S_UP |-> row("n", "w1", D, p.F, "h", "h"), S_DN |-> row("h", "w2", p.F, D, "m", "a"),
       S_HD |-> row("x2", "head", D, p.V, "lg", "lg")]
norms(p) == [S_N1 |-> [src |-> "x", g |-> "g1", k |-> p.k.n1],
             S_N2 |-> [src |-> "x1", g |-> "g2", k |-> p.k.n2]]
adds(p) == [S_EMB |-> [a |-> "tok", b |-> "pos", dst |-> "x", k |-> p.k.emb],
            S_R1 |-> [a |-> "x", b |-> "a", dst |-> "x1", k |-> p.k.r1],
            S_R2 |-> [a |-> "x1", b |-> "a", dst |-> "x2", k |-> p.k.r2]]
copies(p) == [S_CPTOK |-> "tok", S_CPPOS |-> "pos"]

expect_n(p, st) == IF st \in DOMAIN projs(p) THEN projs(p)[st].cols ELSE p.D

\* The state after each, once it is over.
After == [S_CPTOK |-> "S_CPPOS", S_CPPOS |-> "S_EMB", S_EMB |-> "S_N1", S_N1 |-> "S_Q",
          S_Q |-> "S_K", S_K |-> "S_V", S_V |-> "S_LQ", S_LQ |-> "S_ATT", S_ATT |-> "S_O",
          S_O |-> "S_R1", S_R1 |-> "S_N2", S_N2 |-> "S_UP", S_UP |-> "S_DN", S_DN |-> "S_R2",
          S_R2 |-> "S_HD", S_HD |-> "S_ARG"]

\* What the block of a state answers at an index, from the memories.
BlockAnswer(p, r, W, i) ==
  CASE r.st \in DOMAIN projs(p) ->
         LET q == projs(p)[r.st]
         IN  _proj(p, r.act[q.src], W[q.w], q.rows, q.cols, q.k)[i + 1]
    [] r.st \in DOMAIN norms(p) ->
         LET n == norms(p)[r.st]
         IN  _rmsnorm(p, SubSeq(r.act[n.src], 1, p.D), W[n.g], n.k)[i + 1]
    [] r.st = "S_ATT" -> _attn(p, r.query, r.kc, r.vc, r.pos_r + 1, p.shift_s, p.k.ctx)[i + 1]

\* The MLP's ReLU, the one piece of arithmetic of the sequencer's own.
Clamped(r, v) == IF r.st = "S_UP" THEN AtLeast(v, 0) ELSE v

\* Outputs land in their state's destination: a block's at their index, a
\* stream's at the count, a copied word one edge behind its address.
Landed(p, r) ==
  LET b == r.blk
      counted == [r EXCEPT !.ocnt = @ + 1]
      into(s, dst, i, v) == [s EXCEPT !.act[dst] = Write(@, i, v)]
      slot == r.pos_r * p.D + b.index
  IN  CASE r.st \in DOMAIN projs(p) /\ b.valid ->
             LET dst == projs(p)[r.st].dst
             IN  CASE dst = "kc" -> [counted EXCEPT !.kc = Write(@, slot, b.data)]
                   [] dst = "vc" -> [counted EXCEPT !.vc = Write(@, slot, b.data)]
                   [] OTHER -> into(counted, dst, b.index, Clamped(r, b.data))
        [] r.st \in DOMAIN norms(p) /\ b.valid -> into(counted, "n", b.index, b.data)
        [] r.st = "S_ATT" /\ b.valid -> into(counted, "c", b.index, b.data)
        [] r.st \in DOMAIN adds(p) /\ Last(r.ra) # Nothing ->
             LET k == adds(p)[r.st].k
                 ab == Last(r.ra)
             IN  into(counted, adds(p)[r.st].dst, r.ocnt,
                      resadd_golden(ab[1], ab[2], k[1], k[2], k[3], p.dw))
        [] r.st \in DOMAIN copies(p) /\ r.cp_v -> into(r, copies(p)[r.st], r.cp_i, r.p_data)
        [] OTHER -> r

Left(d) == [d EXCEPT !.ph = FALSE, !.fj = 0, !.ocnt = 0,
                     !.query = IF d.st = "S_ATT" THEN <<>> ELSE @]
Leaves(d) == [Left(d) EXCEPT !.st = After[d.st]]

\* A state that runs a block: pulse its start, then wait until it is idle
\* and every output it owes has landed.
BlockOver(r, n) == r.ph /\ ~r.blk.busy /\ r.ocnt = n /\ ~r.starts
RunsBlock(d, r, n) ==
  CASE ~r.ph -> [d EXCEPT !.ph = TRUE, !.ocnt = 0, !.starts = TRUE]
    [] BlockOver(r, n) -> Leaves(d)
    [] OTHER -> d

\* Every register that is cleared unless its state sets it.
Cleared(p, r, W, goes) ==
  [Landed(p, r) EXCEPT
     !.done = FALSE, !.starts = FALSE, !.load = Nothing, !.cp_v = FALSE,
     !.ra = Shifted(r.ra, Nothing),
     !.query = IF r.load # Nothing THEN Append(@, r.load[1]) ELSE @,
     !.blk = Block(r.blk, r.starts, goes, expect_n(p, r.st), BlockAnswer(p, r, W, r.blk.next)),
     !.out = Answer(r.out, r.st = "S_HD" /\ r.blk.valid, r.blk.index, r.blk.data)]

\* What the state does; d is r with those cleared.
decoder_state(p, r, W, in, d) ==
  LET D == p.D
      st == r.st
      a == r.act
  IN  CASE st = "S_IDLE" ->
             IF in.start THEN [d EXCEPT !.tok_r = in.tok, !.pos_r = in.pos, !.busy = TRUE,
                                        !.st = "S_CPTOK", !.fj = 0, !.ocnt = 0, !.ph = FALSE]
             ELSE d
        [] st \in DOMAIN copies(p) ->
             IF r.fj < D
             THEN [d EXCEPT !.cp_v = TRUE, !.cp_i = r.fj, !.fj = @ + 1,
                            !.p_data = IF st = "S_CPTOK" THEN Read(W.tok, r.tok_r * D + r.fj)
                                                         ELSE Read(W.pos, r.pos_r * D + r.fj)]
             ELSE IF ~r.cp_v THEN [d EXCEPT !.fj = 0, !.st = After[st]] ELSE d
        [] st \in DOMAIN adds(p) ->
             LET s == IF r.fj = D THEN d
                      ELSE [d EXCEPT !.fj = @ + 1,
                                     !.ra = Shifted(r.ra, <<Read(a[adds(p)[st].a], r.fj),
                                                            Read(a[adds(p)[st].b], r.fj)>>)]
             IN  IF r.ocnt = D THEN Leaves(s) ELSE s
        [] st = "S_LQ" ->
             IF r.fj < D THEN [d EXCEPT !.load = <<Read(a.q, r.fj)>>, !.fj = @ + 1] ELSE Leaves(d)
        [] st = "S_ARG" ->
             LET v == Read(a.lg, r.fj)
             IN  IF r.fj = p.V
                 THEN [d EXCEPT !.next_tok = r.best_i, !.done = TRUE, !.busy = FALSE, !.fj = 0,
                                !.st = "S_IDLE"]
                 ELSE IF r.fj = 0 \/ v > r.best
                 THEN [d EXCEPT !.best = v, !.best_i = r.fj, !.fj = @ + 1]
                 ELSE [d EXCEPT !.fj = @ + 1]
        [] OTHER -> RunsBlock(d, r, expect_n(p, st))
decoder(p, r, W, in) == decoder_state(p, r, W, in, Cleared(p, r, W, in.goes))
=============================================================================
