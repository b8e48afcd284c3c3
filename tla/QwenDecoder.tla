----------------------------- MODULE QwenDecoder -----------------------------
(***************************************************************************)
(* The Qwen-shaped decoder (qwen_decoder.py): layers of several query      *)
(* heads over fewer key/value heads, rotary embedding, a gated MLP and a   *)
(* final norm. The layer and the head are counters of one sequencer; q, k  *)
(* and the key cache are split by rotary half. Around it, the Basys 3 top  *)
(* level (board.py): a prompt comes in over a UART, character by           *)
(* character, the decoder runs a step a position, and the characters it    *)
(* chooses go out again, then a newline.                                   *)
(***************************************************************************)
EXTENDS Decoder

\* The sizes, and the blocks derived for them.
derive_qwen_blocks(ms) ==
  [D |-> ms.d_model, F |-> ms.d_ff, V |-> ms.vocab, L |-> ms.seq_len, H |-> ms.n_head,
   KV |-> ms.n_kv_head, hd |-> ms.head_dim, h2 |-> ms.head_dim \div 2, NL |-> ms.n_layer,
   dw |-> data_width(ms), nf |-> ms.nf, eps |-> 1,
   attn |-> derive_attn_spec(ms), rmsnorm |-> derive_rmsnorm_spec(ms),
   rope |-> derive_rope_spec(ms), silu |-> derive_silu_spec(ms),
   requant |-> derive_requant_spec(ms)]
derive_qwen_spec(ms) ==
  derive_qwen_blocks(ms) @@
  [k |-> ms.k, lg |-> ms.lg, shift_s |-> ms.shift_s, gshift |-> ms.gshift]
grp(p) == p.H \div p.KV

---------------------------------------------------------------------------
\* The integer reference.  A context is a sequence of rows for each layer.

_rope(p, v, heads, pos) ==
  Listed([e \in 1..(heads * p.hd) |->
     LET base == ((e - 1) \div p.hd) * p.hd
         i == (e - 1) % p.h2
         y == rope_golden(v[base + i + 1], v[base + i + p.h2 + 1], i, pos, p.rope)
     IN  y[(((e - 1) % p.hd) \div p.h2) + 1]])

\* The rows of one key/value head, one after another.
OfHead(p, rows, kv) ==
  Listed([t \in 1..(Len(rows) * p.hd) |->
            rows[((t - 1) \div p.hd) + 1][kv * p.hd + ((t - 1) % p.hd) + 1]])

qwen_layer(p, W, k, li, x, K, V, i) ==
  LET xn == _rmsnorm(p, x, W.g1, k.n1)
      q == _rope(p, _proj(p, xn, W.wq, p.D, p.H * p.hd, k.q), p.H, i)
      key == _rope(p, _proj(p, xn, W.wk, p.D, p.KV * p.hd, k.k), p.KV, i)
      rowsK == Append(K, key)
      rowsV == Append(V, _proj(p, xn, W.wv, p.D, p.KV * p.hd, k.v))
      head(h) == _attn(p, Row(q, h, p.hd), OfHead(p, rowsK, h \div grp(p)),
                       OfHead(p, rowsV, h \div grp(p)), i + 1, p.shift_s[li], k.ctx)
      ctx == FlattenSeq([h \in 1..p.H |-> head(h - 1)])
      x1 == _resadd(p, x, _proj(p, ctx, W.wo, p.H * p.hd, p.D, k.a), k.r1)
      xn2 == _rmsnorm(p, x1, W.g2, k.n2)
      g == _proj(p, xn2, W.wg, p.D, p.F, k.g)
      u == _proj(p, xn2, W.wu, p.D, p.F, k.u)
      gated(f) == silu_golden(g[f] * 2^p.gshift[li], p.silu) * u[f]
      m == Listed([f \in DOMAIN g |-> requant_golden(gated(f), k.m[1], k.m[2], p.dw)[1]])
  IN  [x |-> _resadd(p, x1, _proj(p, m, W.wd, p.F, p.D, k.dn), k.r2), K |-> rowsK, V |-> rowsV]

EmptyContext(p) == [K |-> Chain(p.NL, <<>>), V |-> Chain(p.NL, <<>>)]

qwen_step(p, W, context, tok, i) ==
  LET through[li \in 0..p.NL] ==
        IF li = 0 THEN [x |-> Row(W.tok, tok, p.D), K |-> <<>>, V |-> <<>>]
        ELSE qwen_layer(p, W.layer[li], p.k[li], li, through[li - 1].x,
                        context.K[li], context.V[li], i)
      lg == _proj(p, _rmsnorm(p, through[p.NL].x, W.gf, p.nf), W.head, p.D, p.V, p.lg)
  IN  [K |-> [li \in 1..p.NL |-> through[li].K], V |-> [li \in 1..p.NL |-> through[li].V],
       lg |-> lg, next |-> argmax(lg)]

---------------------------------------------------------------------------
\* The sequencer.

rope_latency(p) == IF p.dw > Sizes.one_multiply THEN 5 ELSE 4
silu_latency(p) == p.silu.exp.pipeline_stages + p.silu.recip.pipeline_stages + 5

qwen_reset(p) ==
  LET half == p.KV * p.h2
  IN  [st |-> "S_IDLE", ph |-> FALSE, lyr |-> 0, hh |-> 0, busy |-> FALSE, done |-> FALSE,
       tok_r |-> 0, pos_r |-> 0, next_tok |-> 0, fj |-> 0, ocnt |-> 0, gcnt |-> 0,
       cp_v |-> FALSE, cp_i |-> 0, p_data |-> 0, starts |-> FALSE, load |-> Nothing,
       query |-> <<>>, blk |-> IdleBlock, out |-> quiet, best |-> 0, best_i |-> 0,
       ra |-> Stream(add_latency), ro |-> Stream(rope_latency(p)), si |-> Stream(silu_latency(p)),
       rq |-> Stream(p.requant.pipeline_stages),
       xm |-> Chain(p.D, Beyond), nm |-> Chain(p.D, Beyond), am |-> Chain(p.D, Beyond),
       qlo |-> Chain(p.H * p.h2, Beyond), qhi |-> Chain(p.H * p.h2, Beyond),
       klo |-> Chain(half, Beyond), khi |-> Chain(half, Beyond), cm |-> Chain(p.H * p.hd, Beyond),
       gm |-> Chain(p.F, Beyond), um |-> Chain(p.F, Beyond), mm |-> Chain(p.F, Beyond),
       lgm |-> Chain(p.V, Beyond), kclo |-> Chain(p.NL * p.L * half, Beyond),
       kchi |-> Chain(p.NL * p.L * half, Beyond), vc |-> Chain(2 * p.NL * p.L * half, Beyond)]

\* Each projection's operand, matrix, shape and constants in layer lyr.
qwen_projs(p) ==
  LET row(src, w, rows, cols, k) == [src |-> src, w |-> w, rows |-> rows, cols |-> cols, k |-> k]
  IN  [S_Q |-> row("nm", "wq", p.D, p.H * p.hd, "q"), S_K |-> row("nm", "wk", p.D, p.KV * p.hd, "k"),
       S_V |-> row("nm", "wv", p.D, p.KV * p.hd, "v"), S_O |-> row("cm", "wo", p.H * p.hd, p.D, "a"),
       S_G |-> row("nm", "wg", p.D, p.F, "g"), S_U |-> row("nm", "wu", p.D, p.F, "u"),
       S_DN |-> row("mm", "wd", p.F, p.D, "dn"), S_HD |-> row("nm", "head", p.D, p.V, "lg")]
qwen_norms == {"S_N1", "S_N2", "S_NF"}
qwen_adds == {"S_R1", "S_R2"}

qwen_expect_n(p, st) ==
  CASE st \in DOMAIN qwen_projs(p) -> qwen_projs(p)[st].cols
    [] st = "S_ATT" -> p.hd
    [] st = "S_RQ" -> p.H * p.h2
    [] st = "S_RK" -> p.KV * p.h2
    [] st = "S_GLU" -> p.F
    [] OTHER -> p.D

QwenAfter == [S_CPTOK |-> "S_N1", S_N1 |-> "S_Q", S_Q |-> "S_K", S_K |-> "S_V", S_V |-> "S_RQ",
              S_RQ |-> "S_RK", S_RK |-> "S_LQ", S_LQ |-> "S_ATT", S_O |-> "S_R1", S_R1 |-> "S_N2",
              S_N2 |-> "S_G", S_G |-> "S_U", S_U |-> "S_GLU", S_GLU |-> "S_DN", S_DN |-> "S_R2",
              S_NF |-> "S_HD", S_HD |-> "S_ARG"]

\* The next head, or the next layer, or what comes after the last one.
QwenLeaves(p, d) ==
  LET n == [Left(d) EXCEPT !.gcnt = 0]
  IN  CASE d.st = "S_ATT" /\ d.hh + 1 < p.H -> [n EXCEPT !.hh = @ + 1, !.st = "S_LQ"]
        [] d.st = "S_ATT" /\ d.hh + 1 = p.H -> [n EXCEPT !.hh = 0, !.st = "S_O"]
        [] d.st = "S_R2" /\ d.lyr + 1 < p.NL -> [n EXCEPT !.lyr = @ + 1, !.st = "S_N1"]
        [] d.st = "S_R2" /\ d.lyr + 1 = p.NL -> [n EXCEPT !.st = "S_NF"]
        [] OTHER -> [n EXCEPT !.st = QwenAfter[d.st]]

\* The rows of the caches: a layer's, a head's and a position's.
kslot(p, r) == r.lyr * p.KV * p.L + r.pos_r
kvrow(p, r) == (r.lyr * p.KV + r.hh \div grp(p)) * p.L
\* Where an element of a vector of heads is, in the half of it that has it.
InHigh(p, i) == (i \div p.h2) % 2 = 1
HalfAddr(p, i) == (i \div p.hd) * p.h2 + (i % p.h2)

Keys(p, r) ==
  [t \in 1..((r.pos_r + 1) * p.hd) |->
     LET at == (kvrow(p, r) + (t - 1) \div p.hd) * p.h2 + ((t - 1) % p.h2)
     IN  Read(IF InHigh(p, t - 1) THEN r.kchi ELSE r.kclo, at)]
Values(p, r) == [t \in 1..((r.pos_r + 1) * p.hd) |-> Read(r.vc, kvrow(p, r) * p.hd + t - 1)]

QwenAnswer(p, r, W, i) ==
  LET l == r.lyr + 1
  IN  CASE r.st \in DOMAIN qwen_projs(p) ->
             LET q == qwen_projs(p)[r.st]
                 head == r.st = "S_HD"
             IN  _proj(p, r[q.src], IF head THEN W.head ELSE W.layer[l][q.w], q.rows, q.cols,
                       IF head THEN p.lg ELSE p.k[l][q.k])[i + 1]
        [] r.st = "S_N1" -> _rmsnorm(p, r.xm, W.layer[l].g1, p.k[l].n1)[i + 1]
        [] r.st = "S_N2" -> _rmsnorm(p, r.xm, W.layer[l].g2, p.k[l].n2)[i + 1]
        [] r.st = "S_NF" -> _rmsnorm(p, r.xm, W.gf, p.nf)[i + 1]
        [] r.st = "S_ATT" -> _attn(p, r.query, Keys(p, r), Values(p, r), r.pos_r + 1,
                                   p.shift_s[l], p.k[l].ctx)[i + 1]

QwenProjected(p, r) ==
  LET i == r.blk.index
      v == r.blk.data
      n == [r EXCEPT !.ocnt = @ + 1]
  IN  CASE r.st = "S_Q" /\ InHigh(p, i) -> [n EXCEPT !.qhi = Write(@, HalfAddr(p, i), v)]
        [] r.st = "S_Q" /\ ~InHigh(p, i) -> [n EXCEPT !.qlo = Write(@, HalfAddr(p, i), v)]
        [] r.st = "S_K" /\ InHigh(p, i) -> [n EXCEPT !.khi = Write(@, HalfAddr(p, i), v)]
        [] r.st = "S_K" /\ ~InHigh(p, i) -> [n EXCEPT !.klo = Write(@, HalfAddr(p, i), v)]
        [] r.st = "S_V" ->
             [n EXCEPT !.vc = Write(@, (kslot(p, r) + (i \div p.hd) * p.L) * p.hd + (i % p.hd), v)]
        [] r.st \in {"S_O", "S_DN"} -> [n EXCEPT !.am = Write(@, i, v)]
        [] r.st = "S_G" -> [n EXCEPT !.gm = Write(@, i, v)]
        [] r.st = "S_U" -> [n EXCEPT !.um = Write(@, i, v)]
        [] r.st = "S_HD" -> [n EXCEPT !.lgm = Write(@, i, v)]

\* The key the rotary unit hands back goes to the cache.
Rotated(p, pair) == rope_golden(pair[1], pair[2], pair[3], pair[4], p.rope)
CachedKey(p, r) == Rotated(p, Last(r.ro))

\* SiLU of the gate times up, and that requantized, in one stream.
Gated(p, r) ==
  LET n == IF Last(r.si) = Nothing THEN r ELSE [r EXCEPT !.gcnt = @ + 1]
      k == p.k[r.lyr + 1].m
  IN  IF Last(r.rq) = Nothing THEN n
      ELSE [n EXCEPT !.mm = Write(@, r.ocnt, requant_golden(Last(r.rq)[1], k[1], k[2], p.dw)[1]),
                     !.ocnt = @ + 1]
Product(p, r) ==
  IF r.st = "S_GLU" /\ Last(r.si) # Nothing
  THEN <<silu_golden(Last(r.si)[1], p.silu) * Read(r.um, r.gcnt)>> ELSE Nothing

QwenLanded(p, r) ==
  LET n == [r EXCEPT !.ocnt = @ + 1]
      b == r.blk
  IN  CASE r.st \in DOMAIN qwen_projs(p) /\ b.valid -> QwenProjected(p, r)
        [] r.st \in qwen_norms /\ b.valid -> [n EXCEPT !.nm = Write(@, b.index, b.data)]
        [] r.st = "S_ATT" /\ b.valid -> [n EXCEPT !.cm = Write(@, r.hh * p.hd + b.index, b.data)]
        [] r.st \in qwen_adds /\ Last(r.ra) # Nothing ->
             LET k == IF r.st = "S_R1" THEN p.k[r.lyr + 1].r1 ELSE p.k[r.lyr + 1].r2
             IN  [n EXCEPT !.xm = Write(@, r.ocnt, resadd_golden(Last(r.ra)[1], Last(r.ra)[2],
                                                                 k[1], k[2], k[3], p.dw))]
        [] r.st = "S_RQ" /\ Last(r.ro) # Nothing ->
             LET y == Rotated(p, Last(r.ro))
             IN  [n EXCEPT !.qlo = Write(@, r.ocnt, y[1]), !.qhi = Write(@, r.ocnt, y[2])]
        [] r.st = "S_RK" /\ Last(r.ro) # Nothing ->
             LET y == CachedKey(p, r)
                 at == (kslot(p, r) + (r.ocnt \div p.h2) * p.L) * p.h2 + (r.ocnt % p.h2)
             IN  [n EXCEPT !.kclo = Write(@, at, y[1]), !.kchi = Write(@, at, y[2])]
        [] r.st = "S_GLU" -> Gated(p, r)
        [] r.st = "S_CPTOK" /\ r.cp_v -> [r EXCEPT !.xm = Write(@, r.cp_i, r.p_data)]
        [] OTHER -> r

\* Element fj of a vector of heads goes to the attention of head hh.
LoadsQuery(p, r) ==
  Read(IF InHigh(p, r.fj) THEN r.qhi ELSE r.qlo, r.hh * p.h2 + (r.fj % p.h2))

QwenCleared(p, r, W, goes) ==
  [QwenLanded(p, r) EXCEPT
     !.done = FALSE, !.starts = FALSE, !.load = Nothing, !.cp_v = FALSE,
     !.ra = Shifted(r.ra, Nothing), !.ro = Shifted(r.ro, Nothing),
     !.si = Shifted(r.si, Nothing), !.rq = Shifted(r.rq, Product(p, r)),
     !.query = IF r.load # Nothing THEN Append(@, r.load[1]) ELSE @,
     !.blk = Block(r.blk, r.starts, goes, qwen_expect_n(p, r.st), QwenAnswer(p, r, W, r.blk.next)),
     !.out = Answer(r.out, r.st = "S_HD" /\ r.blk.valid, r.blk.index, r.blk.data)]

qwen_state(p, r, W, in, n, d) ==
  LET st == r.st
      issues == r.fj < n
      \* A stream: one operand in an edge, and out when all have come back.
      streams(s) == IF r.ocnt = n THEN QwenLeaves(p, s) ELSE s
      i == [d EXCEPT !.fj = @ + 1]
  IN  CASE st = "S_IDLE" ->
             IF in.start THEN [d EXCEPT !.tok_r = in.tok, !.pos_r = in.pos, !.busy = TRUE, !.lyr = 0,
                                        !.hh = 0, !.st = "S_CPTOK", !.fj = 0, !.ocnt = 0, !.ph = FALSE]
             ELSE d
        [] st = "S_CPTOK" ->
             IF issues THEN [i EXCEPT !.cp_v = TRUE, !.cp_i = r.fj,
                                      !.p_data = Read(W.tok, r.tok_r * p.D + r.fj)]
             ELSE IF ~r.cp_v THEN QwenLeaves(p, d) ELSE d
        [] st \in qwen_adds ->
             streams(IF issues THEN [i EXCEPT !.ra = Shifted(r.ra, <<Read(r.xm, r.fj), Read(r.am, r.fj)>>)]
                               ELSE d)
        [] st \in {"S_RQ", "S_RK"} ->
             LET q == st = "S_RQ"
                 pair == <<Read(IF q THEN r.qlo ELSE r.klo, r.fj), Read(IF q THEN r.qhi ELSE r.khi, r.fj),
                           r.fj % p.h2, r.pos_r>>
             IN  streams(IF issues THEN [i EXCEPT !.ro = Shifted(r.ro, pair)] ELSE d)
        [] st = "S_LQ" ->
             IF r.fj < p.hd THEN [i EXCEPT !.load = <<LoadsQuery(p, r)>>] ELSE QwenLeaves(p, d)
        [] st = "S_GLU" ->
             streams(IF issues THEN [i EXCEPT !.si = Shifted(r.si, <<Read(r.gm, r.fj)
                                                                     * 2^p.gshift[r.lyr + 1]>>)]
                               ELSE d)
        [] st = "S_ARG" ->
             LET v == Read(r.lgm, r.fj)
             IN  IF r.fj = p.V
                 THEN [d EXCEPT !.next_tok = r.best_i, !.done = TRUE, !.busy = FALSE, !.fj = 0,
                                !.st = "S_IDLE"]
                 ELSE IF r.fj = 0 \/ v > r.best THEN [i EXCEPT !.best = v, !.best_i = r.fj]
                 ELSE i
        [] OTHER ->
             CASE ~r.ph -> [d EXCEPT !.ph = TRUE, !.ocnt = 0, !.starts = TRUE]
               [] BlockOver(r, n) -> QwenLeaves(p, d)
               [] OTHER -> d
qwen_decoder(p, r, W, in) ==
  qwen_state(p, r, W, in, qwen_expect_n(p, r.st), QwenCleared(p, r, W, in.goes))

---------------------------------------------------------------------------
\* The Basys 3 top level (board.py).

\* chars is the vocabulary, div the edges of a bit on the line.
derive_board_spec(ck) == derive_qwen_spec(ck) @@ [chars |-> ck.chars, div |-> ck.div]

CR == 13
LF == 10
Bit(c, b) == (c \div 2^b) % 2

---------------------------------------------------------------------------
\* 8N1: a start bit, eight data bits, the lowest first, a stop bit.

rx_reset == [sync |-> <<1, 1>>, cnt |-> 0, bitn |-> 0, sh |-> 0, busy |-> FALSE, data |-> 0,
             valid |-> FALSE]
uart_rx(p, x, rx) ==
  LET level == x.sync[2]
      n == [x EXCEPT !.sync = Shifted(@, rx), !.valid = FALSE]
      sample == [n EXCEPT !.cnt = p.div - 1]
  IN  CASE ~x.busy /\ level = 1 -> n
        [] ~x.busy /\ level = 0 -> [n EXCEPT !.busy = TRUE, !.cnt = p.div \div 2, !.bitn = 0]
        [] x.busy /\ x.cnt # 0 -> [n EXCEPT !.cnt = @ - 1]
        [] x.busy /\ x.cnt = 0 /\ x.bitn = 0 -> [sample EXCEPT !.busy = level = 0, !.bitn = 1]
        [] x.busy /\ x.cnt = 0 /\ x.bitn \in 1..8 ->
             [sample EXCEPT !.sh = level * 128 + @ \div 2, !.bitn = @ + 1]
        [] x.busy /\ x.cnt = 0 /\ x.bitn > 8 ->
             [sample EXCEPT !.busy = FALSE, !.valid = level = 1,
                            !.data = IF level = 1 THEN x.sh ELSE @]

tx_reset == [tx |-> 1, cnt |-> 0, bitn |-> 0, sh |-> 0, busy |-> FALSE]
uart_tx(p, x, data, send) ==
  CASE ~x.busy /\ ~send -> x
    [] ~x.busy /\ send -> [tx |-> 0, cnt |-> p.div - 1, bitn |-> 0, sh |-> data, busy |-> TRUE]
    [] x.busy /\ x.cnt # 0 -> [x EXCEPT !.cnt = @ - 1]
    [] x.busy /\ x.cnt = 0 /\ x.bitn = 9 -> [x EXCEPT !.cnt = p.div - 1, !.busy = FALSE, !.tx = 1]
    [] x.busy /\ x.cnt = 0 /\ x.bitn < 9 ->
         [x EXCEPT !.cnt = p.div - 1, !.bitn = @ + 1,
                   !.tx = IF x.bitn < 8 THEN Bit(x.sh, x.bitn) ELSE 1]

---------------------------------------------------------------------------
\* The top level.

top_reset(p) ==
  [dec |-> qwen_reset(p), urx |-> rx_reset, utx |-> tx_reset, st |-> "T_IN", start |-> FALSE,
   tok |-> 0, pos |-> 0, plen |-> 0, prompt |-> Chain(p.L, Beyond), tx_data |-> 0, tx_send |-> FALSE]

Known(p, c) == \E t \in DOMAIN p.chars : p.chars[t] = c
to_tok(p, c) == (CHOOSE t \in DOMAIN p.chars : p.chars[t] = c) - 1
to_chr(p, t) == p.chars[t + 1]

\* Enter starts the decode of a prompt; what is no character of the
\* vocabulary, and what does not fit, is passed over.
Typed(p, c, d) ==
  CASE c \in {CR, LF} /\ d.plen # 0 ->
         [d EXCEPT !.pos = 0, !.tok = Read(d.prompt, 0), !.st = "T_STEP"]
    [] ~(c \in {CR, LF} /\ d.plen # 0) /\ Known(p, c) /\ d.plen < p.L ->
         [d EXCEPT !.prompt = Write(@, d.plen, to_tok(p, c)), !.plen = @ + 1]
    [] OTHER -> d

top_state(p, r, d, tx_ready) ==
  CASE r.st = "T_IN" /\ r.urx.valid -> Typed(p, r.urx.data, d)
    [] r.st = "T_STEP" -> [d EXCEPT !.start = TRUE, !.st = "T_WAIT"]
    [] r.st = "T_WAIT" /\ r.dec.done /\ r.pos + 1 < r.plen ->
         [d EXCEPT !.pos = @ + 1, !.tok = Read(r.prompt, r.pos + 1), !.st = "T_STEP"]
    [] r.st = "T_WAIT" /\ r.dec.done /\ r.pos + 1 >= r.plen ->
         [d EXCEPT !.tx_data = to_chr(p, r.dec.next_tok), !.st = "T_SEND"]
    [] r.st = "T_SEND" /\ tx_ready /\ r.pos + 1 < p.L ->
         [d EXCEPT !.tx_send = TRUE, !.pos = @ + 1, !.tok = r.dec.next_tok, !.st = "T_STEP"]
    [] r.st = "T_SEND" /\ tx_ready /\ r.pos + 1 = p.L -> [d EXCEPT !.tx_send = TRUE, !.st = "T_NL"]
    \* The newline goes once the last character has left.
    [] r.st = "T_NL" /\ tx_ready ->
         [d EXCEPT !.tx_data = LF, !.tx_send = TRUE, !.plen = 0, !.st = "T_IN"]
    [] OTHER -> d

fpgai_top(p, r, W, rx, goes) ==
  top_state(p, r,
    [r EXCEPT !.dec = qwen_decoder(p, r.dec, W, [start |-> r.start, tok |-> r.tok, pos |-> r.pos,
                                                 goes |-> goes]),
              !.urx = uart_rx(p, r.urx, rx), !.utx = uart_tx(p, r.utx, r.tx_data, r.tx_send),
              !.start = FALSE, !.tx_send = FALSE],
    ~r.utx.busy /\ ~r.tx_send)

---------------------------------------------------------------------------
\* The testbench: someone types, waiting as long as they like between two
\* characters, and a terminal takes what comes back.

FrameEdges(p) == 11 * p.div
\* The line at an edge of the typing, -1 for none: a start bit, the character,
\* two stops.
Line(p, text, typed) ==
  LET b == (typed % FrameEdges(p)) \div p.div
  IN  CASE typed = -1 \/ b > 8 -> 1
        [] typed >= 0 /\ b = 0 -> 0
        [] typed >= 0 /\ b \in 1..8 -> Bit(text[typed \div FrameEdges(p) + 1], b - 1)
Types(p, text, typed, goes) ==
  CASE typed = -1 \/ ((typed + 1) % FrameEdges(p) = 0 /\ ~goes) -> typed
    [] typed + 1 = Len(text) * FrameEdges(p) -> -1
    [] OTHER -> typed + 1

\* The middle of each bit after the falling edge; a character is there a bit
\* after the last.
Idle_terminal == [at |-> -1, c |-> 0, got |-> 0]
terminal(p, t, tx) ==
  LET since == t.at - (p.div + p.div \div 2)
      n == [t EXCEPT !.at = @ + 1]
  IN  CASE t.at = -1 -> IF tx = 0 THEN [n EXCEPT !.c = 0] ELSE t
        [] t.at >= 0 /\ since = 8 * p.div -> [t EXCEPT !.at = -1, !.got = @ + 1]
        [] t.at >= 0 /\ since \in 0..(8 * p.div - 1) /\ since % p.div = 0 ->
             [n EXCEPT !.c = @ + tx * 2^(since \div p.div)]
        [] OTHER -> n

board_reset(p) ==
  [top |-> top_reset(p), typed |-> -1, term |-> Idle_terminal, out |-> quiet, busy |-> FALSE]

\* The board is at rest when all is typed and the last character has come.
AtRest(b) == /\ b.typed = -1 /\ b.term.at = -1
             /\ b.top.st = "T_IN" /\ ~b.top.tx_send /\ ~b.top.utx.busy
Resting(b) == [b EXCEPT !.busy = ~AtRest(b)]
basys3(p, r, j, in) ==
  LET term == terminal(p, IF in.start THEN [r.term EXCEPT !.got = 0] ELSE r.term, r.top.utx.tx)
  IN  Resting(
        [r EXCEPT !.top = fpgai_top(p, @, j.W, Line(p, j.text, r.typed), in.goes),
                  !.term = term,
                  !.typed = IF in.start THEN 0 ELSE Types(p, j.text, r.typed, in.goes),
                  !.out = Answer(@, term.got > r.term.got, term.got - 1, term.c)])
=============================================================================
