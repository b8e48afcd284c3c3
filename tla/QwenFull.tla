------------------------------ MODULE QwenFull ------------------------------
(***************************************************************************)
(* The sequencer of the whole model (qwen_full.py), for a Qwen2.5 or a     *)
(* Qwen3 checkpoint: on one board, on boards that each have some layers    *)
(* (stages), or on boards that each have a share of every matrix (ranks,   *)
(* with the network of tp.py).  Weights, constants and the KV cache are    *)
(* outside, in words of N lanes, at the addresses Layout gives them.       *)
(***************************************************************************)
EXTENDS QwenDecoder

\* p describes a checkpoint; its blocks are derived at its size, the norm of
\* q's and k's heads for a row of one head.
derive_full_spec(ms) ==
  derive_qwen_blocks(ms) @@
  [N |-> ms.lanes, qkn |-> ms.qkn, lc |-> ms.lc, boards |-> ms.boards, mode |-> ms.mode,
   headnorm |-> derive_rmsnorm_spec([ms EXCEPT !.d_model = ms.head_dim])]

---------------------------------------------------------------------------
\* The integer reference (qwen_int.py).  M is a matrix by rows, with each
\* row's bias, scale and shift.

RequantizedBy(p, acc, k) == requant_golden(acc + k[1], k[2], k[3], p.dw)[1]
int_proj(p, x, M) ==
  Listed([c \in DOMAIN M.k |-> RequantizedBy(p, Column(x, M.w, Len(x), c - 1), M.k[c])])
int_norm(spec, x, G) ==
  Listed(rmsnorm_golden(spec, [x |-> x, g |-> G.g, eps |-> 1, scale |-> G.k[1], shift |-> G.k[2]]))
headnorm(p, v, heads, G) ==
  FlattenSeq([h \in 1..heads |-> int_norm(p.headnorm, Row(v, h - 1, p.hd), G)])
embed(p, W, tok) ==
  LET row == Row(W.table.w, tok, p.D)
  IN  Listed([d \in 1..p.D |-> RequantizedBy(p, row[d], W.emb[tok + 1])])
\* A shift left by e, or right by -e.
Scaled(v, e) == IF e >= 0 THEN v * 2^e ELSE Sra(v, -e)

int_layer(p, W, c, x, K, V, pos) ==
  LET xn == int_norm(p.rmsnorm, x, W.n1)
      normed(v, heads, G) == IF p.qkn THEN headnorm(p, v, heads, G) ELSE v
      q == _rope(p, normed(int_proj(p, xn, W.q), p.H, W.qn), p.H, pos)
      k == _rope(p, normed(int_proj(p, xn, W.k), p.KV, W.kn), p.KV, pos)
      rowsK == Append(K, k)
      rowsV == Append(V, int_proj(p, xn, W.v))
      head(h) == _attn(p, Row(q, h, p.hd), OfHead(p, rowsK, h \div grp(p)),
                       OfHead(p, rowsV, h \div grp(p)), pos + 1, c.shs, c.ctx)
      ctx == FlattenSeq([h \in 1..p.H |-> head(h - 1)])
      x1 == _resadd(p, x, int_proj(p, ctx, W.o), c.r1)
      xn2 == int_norm(p.rmsnorm, x1, W.n2)
      g == int_proj(p, xn2, W.g)
      u == int_proj(p, xn2, W.u)
      gated(f) == silu_golden(Scaled(g[f], c.gsh), p.silu) * u[f]
      m == Listed([f \in DOMAIN g |-> requant_golden(gated(f), c.m[1], c.m[2], p.dw)[1]])
  IN  [x |-> _resadd(p, x1, int_proj(p, m, W.d), c.r2), K |-> rowsK, V |-> rowsV]

int_step(p, W, context, tok, pos) ==
  LET through[li \in 0..p.NL] ==
        IF li = 0 THEN [x |-> embed(p, W, tok), K |-> <<>>, V |-> <<>>]
        ELSE int_layer(p, W.layer[li], p.lc[li], through[li - 1].x,
                       context.K[li], context.V[li], pos)
      lg == int_proj(p, int_norm(p.rmsnorm, through[p.NL].x, W.nf), W.table)
  IN  [K |-> [li \in 1..p.NL |-> through[li].K], V |-> [li \in 1..p.NL |-> through[li].V],
       x |-> through[p.NL].x, next |-> argmax(lg), best |-> lg[argmax(lg) + 1]]

---------------------------------------------------------------------------
\* A build: which layers it has, its share of them, and where its image has
\* each matrix, column constant and gain.

head_chunk(p) == Max({p.D, p.F})
chunks(p) == CeilDiv(p.V, head_chunk(p))

even_part(p, ranks) ==
  LET per == CeilDiv(chunks(p), ranks)
      each(n) == Chain(ranks, n \div ranks)
  IN  [kv |-> each(p.KV), f |-> each(p.F), d |-> each(p.D),
       hk |-> [k \in 1..ranks |-> <<(k - 1) * per, AtMost(chunks(p), k * per) - 1>>]]

\* Rank i's counts, and the offsets of its slices in the gathered vectors.
tp_share(p, part, i) ==
  LET before(counts) == Total(SubSeq(counts, 1, i - 1))
  IN  [H |-> grp(p) * part.kv[i], KV |-> part.kv[i], F |-> part.f[i], D |-> part.d[i],
       coff |-> grp(p) * before(part.kv) * p.hd, kvoff |-> before(part.kv) * p.hd,
       aoff |-> before(part.d), moff |-> before(part.f),
       hk0 |-> part.hk[i][1], hk1 |-> part.hk[i][2]]
whole(p) == tp_share(p, even_part(p, 1), 1)

MATS == <<"q", "k", "v", "o", "g", "u", "d">>
\* For each matrix, the sum of a measure over those before it.
Offsets(measure) ==
  [m \in ToSet(MATS) |->
     Total([i \in 1..(CHOOSE i \in DOMAIN MATS : MATS[i] = m) - 1 |-> measure[MATS[i]]])] @@ <<>>

Layout(p, sh, layers, table, tp) ==
  LET shape == [q |-> <<sh.H * p.hd, p.D>>, k |-> <<sh.KV * p.hd, p.D>>,
                v |-> <<sh.KV * p.hd, p.D>>, o |-> <<sh.D, p.H * p.hd>>,
                g |-> <<sh.F, p.D>>, u |-> <<sh.F, p.D>>, d |-> <<sh.D, p.F>>]
      words == [m \in DOMAIN shape |-> (shape[m][1] \div p.N) * shape[m][2]]
      rows == [m \in DOMAIN shape |-> shape[m][1]]
      all(measure) == Total([i \in DOMAIN MATS |-> measure[MATS[i]]])
  IN  [shape |-> shape, layers |-> layers, table |-> table, sh |-> sh, tp |-> tp,
       row0 |-> [q |-> sh.coff, k |-> sh.kvoff, v |-> sh.kvoff, o |-> sh.aoff,
                 g |-> sh.moff, u |-> sh.moff, d |-> sh.aoff],
       woff |-> Offsets(words), coff |-> Offsets(rows), lw |-> all(words), lc |-> all(rows),
       headw |-> Len(layers) * all(words), headc |-> Len(layers) * all(rows),
       embc |-> Len(layers) * all(rows) + p.V]

\* A slice of a matrix in words: N rows, one a lane, an element in each word.
put(M, N, rows, cols, row0) ==
  Listed([a \in 1..((rows \div N) * cols) |->
            Listed([j \in 1..N |->
              M.w[(row0 + ((a - 1) \div cols) * N + j - 1) * cols + ((a - 1) % cols) + 1]])])

write_images(p, lay, W) ==
  LET layer(l) == W.layer[lay.layers[l]]
      each(f(_)) == FlattenSeq([l \in DOMAIN lay.layers |-> f(l)])
      words(l) == FlattenSeq([i \in DOMAIN MATS |->
                    put(layer(l)[MATS[i]], p.N, lay.shape[MATS[i]][1], lay.shape[MATS[i]][2],
                        lay.row0[MATS[i]])])
      consts(l) == FlattenSeq([i \in DOMAIN MATS |->
                     SubSeq(layer(l)[MATS[i]].k, lay.row0[MATS[i]] + 1,
                            lay.row0[MATS[i]] + lay.shape[MATS[i]][1])])
      table(s) == IF lay.table THEN s ELSE <<>>
  IN  [w |-> each(words) \o table(put(W.table, p.N, p.V, p.D, 0)),
       c |-> each(consts) \o table(W.table.k \o W.emb),
       g |-> each(LAMBDA l : layer(l).n1.g \o layer(l).n2.g) \o W.nf.g
             \o IF p.qkn THEN each(LAMBDA l : layer(l).qn.g \o layer(l).kn.g) ELSE <<>>]

---------------------------------------------------------------------------
\* The sequencer.  b is a build's Layout and mem its images.  tp and stage are
\* what the render is given: a rank gathers, a stage takes a hidden state.

full_reset(p, b) ==
  LET region(n) == Chain(n, Beyond)
      half == p.H * p.h2
  IN  [st |-> "S_IDLE", ph |-> FALSE, busy |-> FALSE, done |-> FALSE, hen |-> FALSE, lyr |-> 0,
       hh |-> 0, hk |-> 0, tok_r |-> 0, pos_r |-> 0, next_tok |-> 0, best |-> 0, fj |-> 0,
       ocnt |-> 0, gcnt |-> 0, ed |-> 0, ev1 |-> FALSE, lane_r |-> 0, hbase |-> 0,
       g_req |-> FALSE, g_vec |-> 0, gph |-> FALSE, w_data |-> region(p.N),
       c_data |-> <<0, 0, 0>>, starts |-> FALSE, load |-> Nothing, query |-> <<>>,
       blk |-> IdleBlock, ra |-> Stream(add_latency), ro |-> Stream(rope_latency(p)),
       si |-> Stream(silu_latency(p)), rq |-> Stream(p.requant.pipeline_stages),
       kw |-> {}, vw |-> {}, xm |-> region(p.D), nm |-> region(p.D), am |-> region(p.D),
       qlo |-> region(half), qhi |-> region(half), klo |-> region(p.KV * p.h2),
       khi |-> region(p.KV * p.h2), cm |-> region(p.H * p.hd), gm |-> region(p.F),
       um |-> region(p.F), mm |-> region(p.F),
       km |-> Chain(p.NL * b.sh.KV * (p.L \div p.N) * p.hd, Chain(p.N, 0)),
       vm |-> Chain(p.NL * b.sh.KV * p.L * (p.hd \div p.N), Chain(p.N, 0))]

\* The states that run a block: each projection's matrix and operand.
ProjMatrix == [S_Q |-> "q", S_K |-> "k", S_V |-> "v", S_O |-> "o", S_G |-> "g", S_U |-> "u",
               S_DN |-> "d", S_HD |-> "table"]
pj_source(st) == CASE st = "S_O" -> "cm" [] st = "S_DN" -> "mm" [] OTHER -> "nm"
in_hnorm == {"S_QN", "S_KN"}

nlast(p) == chunks(p) - 1
hcols(p, r) == IF r.hk = nlast(p) THEN p.V - nlast(p) * head_chunk(p) ELSE head_chunk(p)
layer_consts(p, b, r) == p.lc[b.layers[r.lyr + 1]]

full_expect_n(p, b, r) ==
  CASE r.st = "S_HD" -> hcols(p, r)
    [] r.st \in DOMAIN ProjMatrix \ {"S_HD"} -> b.shape[ProjMatrix[r.st]][1]
    [] r.st \in in_hnorm \union {"S_ATT"} -> p.hd
    [] r.st = "S_RQ" -> b.sh.H * p.h2
    [] r.st = "S_RK" -> b.sh.KV * p.h2
    [] r.st = "S_GLU" -> b.sh.F
    [] OTHER -> p.D

wbase(p, b, r) ==
  CASE r.st = "S_EMB" -> b.headw + (r.tok_r \div p.N) * p.D
    [] r.st = "S_HD" -> b.headw + r.hk * (head_chunk(p) \div p.N) * p.D
    [] OTHER -> r.lyr * b.lw + b.woff[ProjMatrix[r.st]]
cbase(p, b, r) ==
  CASE r.st = "S_EMB" -> b.embc + r.tok_r
    [] r.st = "S_HD" -> b.headc + r.hk * head_chunk(p)
    [] OTHER -> r.lyr * b.lc + b.coff[ProjMatrix[r.st]]
\* The norms' gains, then those of the heads' norms.
gbase(p, b, r) ==
  LET NL == Len(b.layers)
  IN  CASE r.st = "S_N1" -> r.lyr * 2 * p.D
        [] r.st = "S_N2" -> r.lyr * 2 * p.D + p.D
        [] r.st = "S_NF" -> 2 * NL * p.D
        [] r.st = "S_QN" -> (2 * NL + 1) * p.D + r.lyr * 2 * p.hd
        [] r.st = "S_KN" -> (2 * NL + 1) * p.D + r.lyr * 2 * p.hd + p.hd
norm_k(p, c, st) ==
  CASE st = "S_N1" -> c.n1 [] st = "S_N2" -> c.n2 [] st = "S_NF" -> p.nf
    [] st = "S_QN" -> c.qn [] st = "S_KN" -> c.kn

\* A word of n parts, from an image.
Fetched(mem, a, n) == IF a + 1 \in DOMAIN mem THEN mem[a + 1] ELSE Chain(n, Beyond)

\* Element i of head h, of a vector split by half.
Halved(p, lo, hi, h, i) == Read(IF i >= p.h2 THEN hi ELSE lo, h * p.h2 + (i % p.h2))

\* The first word of the rows of the KV head this query head reads; the word
\* and the lane a key, or a value, of that head is in.
kvsel(p, b, r) == r.lyr * b.sh.KV + r.hh \div grp(p)
KeyOf(p, b, r, t, d) ==
  Read(r.km, kvsel(p, b, r) * (p.L \div p.N) * p.hd + (t \div p.N) * p.hd + d)[(t % p.N) + 1]
ValueOf(p, b, r, t, d) ==
  Read(r.vm, kvsel(p, b, r) * p.L * (p.hd \div p.N) + t * (p.hd \div p.N) + d \div p.N)[(d % p.N) + 1]
KeysOf(p, b, r) ==
  Listed([e \in 1..((r.pos_r + 1) * p.hd) |-> KeyOf(p, b, r, (e - 1) \div p.hd, (e - 1) % p.hd)])
ValuesOf(p, b, r) ==
  Listed([e \in 1..((r.pos_r + 1) * p.hd) |-> ValueOf(p, b, r, (e - 1) \div p.hd, (e - 1) % p.hd)])

\* What the block of a state has at index i, from the memories as they are.
Projected(p, b, mem, r, i) ==
  LET x == r[pj_source(r.st)]
      cols == IF r.st = "S_HD" THEN p.D ELSE b.shape[ProjMatrix[r.st]][2]
      word(a) == Read(mem.w, wbase(p, b, r) + (i \div p.N) * cols + a)
  IN  RequantizedBy(p, Total([a \in 1..cols |-> x[a] * word(a - 1)[(i % p.N) + 1]]),
                    Read(mem.c, cbase(p, b, r) + i))
FullAnswer(p, b, mem, r, i) ==
  LET c == layer_consts(p, b, r)
      gains(n) == SubSeq(mem.g, gbase(p, b, r) + 1, gbase(p, b, r) + n)
      head == [e \in 1..p.hd |-> IF r.st = "S_QN" THEN Halved(p, r.qlo, r.qhi, r.hh, e - 1)
                                                 ELSE Halved(p, r.klo, r.khi, r.hh, e - 1)]
  IN  CASE r.st \in DOMAIN ProjMatrix -> Projected(p, b, mem, r, i)
        [] r.st \in qwen_norms ->
             int_norm(p.rmsnorm, r.xm, [g |-> gains(p.D), k |-> norm_k(p, c, r.st)])[i + 1]
        [] r.st \in in_hnorm ->
             int_norm(p.headnorm, head, [g |-> gains(p.hd), k |-> norm_k(p, c, r.st)])[i + 1]
        [] r.st = "S_ATT" ->
             _attn(p, r.query, KeysOf(p, b, r), ValuesOf(p, b, r), r.pos_r + 1, c.shs, c.ctx)[i + 1]

\* Writes of the caches: an address, a lane and what goes there, which is in
\* memory one edge later.
Stored(mem, writes) ==
  IF writes = {} THEN mem
  ELSE [a \in DOMAIN mem |-> [l \in 1..Len(mem[a]) |->
          LET here == {w \in writes : w[1] = a - 1 /\ w[2] = l - 1}
          IN  IF here = {} THEN mem[a][l] ELSE (CHOOSE w \in here : TRUE)[3]]]
KeyWrites(p, b, r, y) ==
  LET slot == (r.lyr * b.sh.KV + r.ocnt \div p.h2) * (p.L \div p.N) * p.hd
              + (r.pos_r \div p.N) * p.hd + (r.ocnt % p.h2)
  IN  {<<slot, r.pos_r % p.N, y[1]>>, <<slot + p.h2, r.pos_r % p.N, y[2]>>}
ValueWrite(p, b, r, i, v) ==
  <<((r.lyr * b.sh.KV + i \div p.hd) * p.L + r.pos_r) * (p.hd \div p.N) + (i % p.hd) \div p.N,
    i % p.N, v>>

\* Outputs land in their state's destination.
FullProjected(p, b, r) ==
  LET i == r.blk.index
      v == r.blk.data
      n == [r EXCEPT !.ocnt = @ + 1]
      first == r.hk = b.sh.hk0 /\ r.ocnt = 0
  IN  CASE r.st = "S_Q" /\ InHigh(p, i) -> [n EXCEPT !.qhi = Write(@, HalfAddr(p, i), v)]
        [] r.st = "S_Q" /\ ~InHigh(p, i) -> [n EXCEPT !.qlo = Write(@, HalfAddr(p, i), v)]
        [] r.st = "S_K" /\ InHigh(p, i) -> [n EXCEPT !.khi = Write(@, HalfAddr(p, i), v)]
        [] r.st = "S_K" /\ ~InHigh(p, i) -> [n EXCEPT !.klo = Write(@, HalfAddr(p, i), v)]
        [] r.st = "S_V" -> [n EXCEPT !.vw = {ValueWrite(p, b, r, i, v)}]
        [] r.st \in {"S_O", "S_DN"} -> [n EXCEPT !.am = Write(@, b.sh.aoff + i, v)]
        [] r.st = "S_G" -> [n EXCEPT !.gm = Write(@, i, v)]
        [] r.st = "S_U" -> [n EXCEPT !.um = Write(@, i, v)]
        \* The argmax goes along with the chunks.
        [] r.st = "S_HD" -> IF first \/ v > r.best
                            THEN [n EXCEPT !.best = v, !.next_tok = r.hbase + i] ELSE n

HeadNormed(p, r) ==
  LET at == r.hh * p.h2 + (r.blk.index % p.h2)
      high == r.blk.index >= p.h2
      n == [r EXCEPT !.ocnt = @ + 1]
      v == r.blk.data
  IN  CASE r.st = "S_QN" /\ high -> [n EXCEPT !.qhi = Write(@, at, v)]
        [] r.st = "S_QN" /\ ~high -> [n EXCEPT !.qlo = Write(@, at, v)]
        [] r.st = "S_KN" /\ high -> [n EXCEPT !.khi = Write(@, at, v)]
        [] r.st = "S_KN" /\ ~high -> [n EXCEPT !.klo = Write(@, at, v)]

\* What the requantizer hands back: the embedding, or the gated product.
Requanted(p, b, r) ==
  LET s == Last(r.rq)
      q == RequantizedBy(p, s[1], <<0, s[2], s[3]>>)
  IN  CASE s = Nothing -> r
        [] s # Nothing /\ r.st = "S_GLU" -> [r EXCEPT !.mm = Write(@, b.sh.moff + r.ocnt, q), !.ocnt = @ + 1]
        [] s # Nothing /\ r.st = "S_EMB" -> [r EXCEPT !.xm = Write(@, r.ocnt, q), !.ocnt = @ + 1]

FullLanded(p, b, r) ==
  LET n == [r EXCEPT !.ocnt = @ + 1]
      c == layer_consts(p, b, r)
      v == r.blk
  IN  CASE r.st \in DOMAIN ProjMatrix /\ v.valid -> FullProjected(p, b, r)
        [] r.st \in qwen_norms /\ v.valid -> [n EXCEPT !.nm = Write(@, v.index, v.data)]
        [] r.st \in in_hnorm /\ v.valid -> HeadNormed(p, r)
        [] r.st = "S_ATT" /\ v.valid ->
             [n EXCEPT !.cm = Write(@, b.sh.coff + r.hh * p.hd + v.index, v.data)]
        [] r.st \in qwen_adds /\ Last(r.ra) # Nothing ->
             LET k == IF r.st = "S_R1" THEN c.r1 ELSE c.r2
             IN  [n EXCEPT !.xm = Write(@, r.ocnt, resadd_golden(Last(r.ra)[1], Last(r.ra)[2],
                                                                 k[1], k[2], k[3], p.dw))]
        [] r.st = "S_RQ" /\ Last(r.ro) # Nothing ->
             LET y == Rotated(p, Last(r.ro))
             IN  [n EXCEPT !.qlo = Write(@, r.ocnt, y[1]), !.qhi = Write(@, r.ocnt, y[2])]
        [] r.st = "S_RK" /\ Last(r.ro) # Nothing ->
             [n EXCEPT !.kw = KeyWrites(p, b, r, CachedKey(p, r))]
        [] r.st \in {"S_GLU", "S_EMB"} ->
             Requanted(p, b, IF Last(r.si) = Nothing THEN r ELSE [r EXCEPT !.gcnt = @ + 1])
        [] OTHER -> r

\* The next head, chunk or layer, or the next state; the gather before it if
\* this is a rank.
FullAfter == QwenAfter @@ [S_EMB |-> "S_N1"]
Done(n) == [n EXCEPT !.busy = FALSE, !.done = TRUE, !.st = "S_IDLE"]
FullLeaves(p, b, d) ==
  LET n == Left(d)
      st == d.st
      heads == IF st = "S_KN" THEN b.sh.KV ELSE b.sh.H
      last == d.hh + 1 = heads
      to(s) == [n EXCEPT !.st = s]
      back(s) == [n EXCEPT !.hh = 0, !.st = s]
  IN  CASE st = "S_V" -> to(IF p.qkn THEN "S_QN" ELSE "S_RQ")
        [] st \in in_hnorm /\ ~last -> [n EXCEPT !.hh = @ + 1]
        [] st = "S_QN" /\ last -> back("S_KN")
        [] st = "S_KN" /\ last -> back("S_RQ")
        [] st = "S_ATT" /\ ~last -> [n EXCEPT !.hh = @ + 1, !.st = "S_LQ"]
        [] st = "S_ATT" /\ last -> back(IF b.tp THEN "S_GC" ELSE "S_O")
        [] st = "S_O" -> IF b.tp THEN [n EXCEPT !.gph = FALSE, !.st = "S_GA"] ELSE to("S_R1")
        [] st = "S_GLU" -> [n EXCEPT !.gcnt = 0, !.st = IF b.tp THEN "S_GM" ELSE "S_DN"]
        [] st = "S_DN" -> IF b.tp THEN [n EXCEPT !.gph = TRUE, !.st = "S_GA"] ELSE to("S_R2")
        [] st = "S_R2" /\ d.lyr + 1 < Len(b.layers) -> [n EXCEPT !.lyr = @ + 1, !.st = "S_N1"]
        [] st = "S_R2" /\ d.lyr + 1 = Len(b.layers) -> IF d.hen THEN to("S_NF") ELSE Done(n)
        \* A rank without a chunk has a logit no other's can lose to.
        [] st = "S_NF" /\ b.sh.hk0 > b.sh.hk1 -> [n EXCEPT !.best = -(2^(p.dw - 1)), !.st = "S_GH"]
        [] st = "S_HD" /\ d.hk < b.sh.hk1 -> [n EXCEPT !.hk = @ + 1]
        [] st = "S_HD" /\ d.hk = b.sh.hk1 -> IF b.tp THEN to("S_GH") ELSE Done(n)
        [] OTHER -> to(FullAfter[st])

\* The vector each gather is of, and where it goes on.
Gathers == [S_GC |-> 1, S_GA |-> 2, S_GM |-> 3, S_GH |-> 4]
Gathered(d) ==
  LET n == [d EXCEPT !.g_req = FALSE, !.ph = FALSE]
  IN  CASE d.st = "S_GC" -> [n EXCEPT !.st = "S_O"]
        [] d.st = "S_GA" -> [n EXCEPT !.st = IF d.gph THEN "S_R2" ELSE "S_R1"]
        [] d.st = "S_GM" -> [n EXCEPT !.st = "S_DN"]
        [] d.st = "S_GH" -> Done(n)

FullProduct(p, r, m) ==
  IF r.st = "S_GLU" /\ Last(r.si) # Nothing
  THEN <<silu_golden(Last(r.si)[1], p.silu) * Read(r.um, r.gcnt), m[1], m[2]>> ELSE Nothing
FullCleared(p, b, mem, r, goes) ==
  [FullLanded(p, b, [r EXCEPT !.kw = {}, !.vw = {}]) EXCEPT
     !.done = FALSE, !.starts = FALSE, !.load = Nothing,
     !.km = Stored(@, r.kw), !.vm = Stored(@, r.vw),
     !.ra = Shifted(r.ra, Nothing), !.ro = Shifted(r.ro, Nothing),
     !.si = Shifted(r.si, Nothing), !.rq = Shifted(r.rq, FullProduct(p, r, layer_consts(p, b, r).m)),
     !.query = IF r.load # Nothing THEN Append(@, r.load[1]) ELSE @,
     !.blk = Block(r.blk, r.starts, goes, full_expect_n(p, b, r), FullAnswer(p, b, mem, r, r.blk.next))]

full_state(p, b, mem, r, in, n, d) ==
  LET st == r.st
      c == layer_consts(p, b, r)
      i == [d EXCEPT !.fj = @ + 1]
      issues == r.fj < n
      \* A stream: one operand in an edge, and out when all have come back.
      streams(s) == IF r.ocnt = n THEN FullLeaves(p, b, s) ELSE s
  IN  CASE st = "S_IDLE" ->
             IF in.start
             THEN [d EXCEPT !.tok_r = in.tok, !.pos_r = in.pos, !.hen = in.head_en, !.busy = TRUE,
                            !.lyr = 0, !.hh = 0, !.hk = b.sh.hk0, !.ed = 0, !.ev1 = FALSE,
                            !.ocnt = 0, !.ph = FALSE, !.lane_r = in.tok % p.N,
                            !.st = IF in.emb_en THEN "S_EMB" ELSE "S_N1"]
             ELSE d
        [] st = "S_EMB" ->
             LET s == [d EXCEPT !.ed = IF @ < p.D THEN @ + 1 ELSE @, !.ev1 = r.ed < p.D,
                                !.w_data = Fetched(mem.w, wbase(p, b, r) + r.ed, p.N),
                                !.c_data = Fetched(mem.c, cbase(p, b, r), 3),
                                !.rq = IF r.ev1 THEN Shifted(r.rq, <<r.w_data[r.lane_r + 1],
                                                                     r.c_data[2], r.c_data[3]>>)
                                       ELSE @]
             IN  streams(s)
        [] st \in qwen_adds ->
             streams(IF issues THEN [i EXCEPT !.ra = Shifted(r.ra, <<Read(r.xm, r.fj), Read(r.am, r.fj)>>)]
                               ELSE d)
        [] st \in {"S_RQ", "S_RK"} ->
             LET q == st = "S_RQ"
                 pair == <<Read(IF q THEN r.qlo ELSE r.klo, r.fj), Read(IF q THEN r.qhi ELSE r.khi, r.fj),
                           r.fj % p.h2, r.pos_r>>
             IN  streams(IF issues THEN [i EXCEPT !.ro = Shifted(r.ro, pair)] ELSE d)
        [] st = "S_LQ" ->
             IF r.fj < p.hd THEN [i EXCEPT !.load = <<Halved(p, r.qlo, r.qhi, r.hh, r.fj)>>]
             ELSE FullLeaves(p, b, d)
        [] st = "S_GLU" ->
             streams(IF issues THEN [i EXCEPT !.si = Shifted(r.si, <<Scaled(Read(r.gm, r.fj), c.gsh)>>)]
                               ELSE d)
        \* Ask once, then wait for the network.
        [] st \in DOMAIN Gathers ->
             CASE ~r.ph -> [d EXCEPT !.ph = TRUE, !.g_req = TRUE, !.g_vec = Gathers[st]]
               [] r.ph /\ in.g_done -> Gathered(d)
               [] OTHER -> d
        [] OTHER ->
             CASE ~r.ph -> [d EXCEPT !.ph = TRUE, !.ocnt = 0, !.starts = TRUE,
                                     !.hbase = IF st = "S_HD" THEN r.hk * head_chunk(p) ELSE @]
               [] BlockOver(r, n) -> FullLeaves(p, b, d)
               [] OTHER -> d
qwen_full(p, b, mem, r, in) ==
  full_state(p, b, mem, r, in, full_expect_n(p, b, r), FullCleared(p, b, mem, r, in.goes))
=============================================================================
