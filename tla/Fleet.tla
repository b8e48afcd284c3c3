-------------------------------- MODULE Fleet --------------------------------
(***************************************************************************)
(* Full-model sequencers that run a position together (qwen_full.py's      *)
(* testbench, tp.py's network, gals.py's stages): one; ranks, which gather *)
(* each other's slices; stages, which hand the hidden state on.  Between   *)
(* gathers and hand-overs they share nothing, so their clocks are taken    *)
(* one after another: one that waits is at rest until all do.              *)
(*                                                                         *)
(* First, where a model goes on several boards (cluster.py): plan gives    *)
(* each of a chain of boards some layers, tp_plan gives each rank a share  *)
(* of every matrix.  A board is its capacity in bytes, its lanes, and the  *)
(* time of a core cycle and of a byte of weights; seconds are whole here,  *)
(* so that two rates compare exactly.                                      *)
(***************************************************************************)
EXTENDS QwenFull

shape_bytes(m) ==
  LET rows == m.H * m.hd + 2 * m.KV * m.hd + 2 * m.D + 2 * m.F
      w == 2 * m.D * (m.H + m.KV) * m.hd + 3 * m.D * m.F
  IN  [layer |-> w + rows * 8 + 2 * m.KV * m.hd * m.L * 2, layer_weights |-> w,
       tied |-> m.V * m.D + 2 * m.V * 8]

---------------------------------------------------------------------------
\* Core cycles.

proj_cycles(rows, deep, lanes) == CeilDiv(rows, lanes) * (deep + 5) + lanes + 16

\* What a rank computes up to each of a layer's four gathers.
tp_segments(m, lanes, sh, n) ==
  LET la == AtMost(lanes, m.hd)
      norm == (m.D + 5) + (2 * m.D + 28)
      onehead == (m.hd + 1) + CeilDiv(n, la) * m.hd + 3 * n + (m.hd \div la) * n + m.hd + 43
      heads == sh.H + sh.KV
  IN  <<norm + proj_cycles(sh.H * m.hd, m.D, lanes) + 2 * proj_cycles(sh.KV * m.hd, m.D, lanes)
          + ((sh.H * m.hd) \div 2 + 7) + ((sh.KV * m.hd) \div 2 + 7) + sh.H * onehead + 1
          + (IF m.qkn THEN heads * (2 * m.hd + 28) ELSE 0),
        proj_cycles(sh.D, m.H * m.hd, lanes) + 1,
        norm + 2 * proj_cycles(sh.F, m.D, lanes) + sh.F + 23 + 1,
        proj_cycles(sh.D, m.F, lanes) + 1>>
tp_head_cycles(m, lanes, hk) ==
  2 * m.D + 28 + 1 +
  Total([k \in 1..(hk[2] - hk[1] + 1) |->
           proj_cycles(AtMost(head_chunk(m), m.V - (hk[1] + k - 1) * head_chunk(m)), m.D, lanes)])

\* One board asks for no gather.
layer_cycles(m, lanes, n) == Total(tp_segments(m, lanes, whole(m), n)) - 4
head_cycles(m, lanes) == tp_head_cycles(m, lanes, <<0, nlast(m)>>) - 1
stage_cycles(m, lanes, n_layers, n, emb, head) ==
  n_layers * layer_cycles(m, lanes, n) + (IF emb THEN m.D + 12 ELSE 0)
  + (IF head THEN head_cycles(m, lanes) ELSE 0)
\* No faster than the board's DDR has the weights there.
stage_seconds(bd, m, n_layers, n, emb, head) ==
  Max({stage_cycles(m, bd.lanes, n_layers, n, emb, head) * bd.cycle,
       (n_layers * shape_bytes(m).layer_weights + (IF head THEN m.V * m.D ELSE 0)) * bd.byte})

---------------------------------------------------------------------------
\* Stages.  Boards go by their place in the chain; limit has the layers each
\* can hold and t the time each takes for one.

SumOver(S, f) == MapThenSumSet(LAMBDA i : f[i], S)

usable(bds, m) == SelectSeq([i \in DOMAIN bds |-> i], LAMBDA i : bds[i].cap >= shape_bytes(m).layer)

\* The first and the last usable board hold the table.
limits(bds, m) ==
  LET u == usable(bds, m)
      room(j) == bds[u[j]].cap - (IF j \in {1, Len(u)} THEN shape_bytes(m).tied ELSE 0)
  IN  Listed([j \in DOMAIN u |-> Max({0, room(j) \div shape_bytes(m).layer})])

\* The fastest first, each as full as it gets.
FastestFirst(limit, t, NL) ==
  LET order == SortSeq([j \in DOMAIN limit |-> j], LAMBDA i, j : t[i] < t[j] \/ (t[i] = t[j] /\ i < j))
  IN  FoldLeft(LAMBDA count, j : [count EXCEPT ![j] = AtMost(limit[j], NL - Total(count))],
               Chain(Len(limit), 0), order)

\* Layers in proportion to speed.  A board whose share is over what it holds
\* is full and out; what is left goes to the largest fractions of a layer.
WaterFilled(limit, speed, NL) ==
  LET filled[free \in SUBSET DOMAIN limit] ==
        LET count == [j \in DOMAIN limit |-> IF j \in free THEN 0 ELSE limit[j]]
            left == NL - Total(count)
            tot == SumOver(free, speed)
            capped == {j \in free : left * speed[j] >= limit[j] * tot}
            base == [j \in free |-> (left * speed[j]) \div tot]
            part(j) == (left * speed[j]) % tot
            over == left - SumOver(free, base)
            ahead(j) == {i \in free : part(i) > part(j) \/ (part(i) = part(j) /\ i < j)}
        IN  CASE left = 0 \/ free = {} -> count
              [] left > 0 /\ free # {} /\ capped # {} -> filled[free \ capped]
              [] left > 0 /\ free # {} /\ capped = {} ->
                   [j \in DOMAIN count |->
                      IF j \in free THEN base[j] + (IF Cardinality(ahead(j)) < over THEN 1 ELSE 0)
                      ELSE count[j]]
  IN  filled[DOMAIN limit]

\* A board's speed is 1 / t; the product of the others' times is that to scale.
counts(bds, m, mode, ctx) ==
  LET limit == limits(bds, m)
      u == usable(bds, m)
      t == Listed([j \in DOMAIN u |-> stage_seconds(bds[u[j]], m, 1, ctx, FALSE, FALSE)])
      speed == Listed([j \in DOMAIN u |-> FoldSeq(LAMBDA i, x : i * x, 1, [t EXCEPT ![j] = 1])])
  IN  IF mode = "fast" THEN FastestFirst(limit, t, m.NL)
      ELSE Listed(WaterFilled(limit, speed, m.NL))

\* The stages in order, their layers counted from 1; none where the boards
\* hold too few.
plan(bds, m, mode, ctx) ==
  LET count == counts(bds, m, mode, ctx)
      u == usable(bds, m)
      chain == SelectSeq([j \in DOMAIN u |-> j], LAMBDA j : count[j] > 0)
      before(k) == Total([i \in 1..(k - 1) |-> count[chain[i]]])
  IN  IF u = <<>> \/ Total(limits(bds, m)) < m.NL THEN <<>>
      ELSE Listed([k \in DOMAIN chain |->
             [bd |-> u[chain[k]], emb |-> k = 1, head |-> k = Len(chain),
              layers |-> [l \in 1..count[chain[k]] |-> before(k) + l]]])

---------------------------------------------------------------------------
\* Shares.  A plan in units: KV heads, f and d in multiples of every rank's
\* lanes, and chunks of the head, in runs.

units(bds) ==
  Min({n \in 1..FoldSeq(LAMBDA bd, x : bd.lanes * x, 1, bds) : \A i \in DOMAIN bds : n % bds[i].lanes = 0})
Splittable(bds, m) ==
  LET T == Len(bds)
  IN  /\ m.D % units(bds) = 0 /\ m.F % units(bds) = 0
      /\ m.D \div units(bds) >= T /\ m.F \div units(bds) >= T /\ m.KV >= T
      /\ \A i \in DOMAIN bds : m.hd % bds[i].lanes = 0

\* The first and the last chunk of each rank, last < first for none.
chunk_runs(c) ==
  LET to(i) == Total(SubSeq(c, 1, i))
  IN  Listed([i \in DOMAIN c |-> <<to(i - 1), to(i) - 1>>])

\* A layer's time is, gather by gather, the slowest rank's; the head's too.
layer_s(bds, m, s, ctx) ==
  LET unit == units(bds)
      of(i) == tp_segments(m, bds[i].lanes,
                           [H |-> grp(m) * s.kv[i], KV |-> s.kv[i], F |-> s.f[i] * unit, D |-> s.d[i] * unit], ctx)
      seg == Listed([i \in DOMAIN bds |-> of(i)])
  IN  Total([k \in 1..4 |-> Max({seg[i][k] * bds[i].cycle : i \in DOMAIN bds})])
head_s(bds, m, s) ==
  Max({tp_head_cycles(m, bds[i].lanes, chunk_runs(s.c)[i]) * bds[i].cycle : i \in DOMAIN bds})
cost(bds, m, s, of, ctx) == IF of = "c" THEN head_s(bds, m, s) ELSE layer_s(bds, m, s, ctx)

\* In proportion to lanes over the time of a cycle, at least lo each: rounded
\* down, then a unit at a time from the one furthest over, to the one most under.
apportion(bds, total, lo) ==
  LET rate == Listed([i \in DOMAIN bds |->
                 bds[i].lanes * FoldSeq(LAMBDA bd, x : bd.cycle * x, 1, [bds EXCEPT ![i].cycle = 1])])
      all == Total(rate)
      over(c, i) == c[i] * all - total * rate[i]
      \* The first of the largest.
      most(S, f(_)) == CHOOSE i \in S : \A k \in S : f(k) < f(i) \/ (f(k) = f(i) /\ k >= i)
      shrunk(c) == [c EXCEPT ![most({i \in DOMAIN c : c[i] > lo}, LAMBDA i : over(c, i))] = @ - 1]
      grown(c) == [c EXCEPT ![most(DOMAIN c, LAMBDA i : -over(c, i))] = @ + 1]
      floors == Listed([i \in DOMAIN bds |-> Max({lo, (total * rate[i]) \div all})])
      off == Total(floors) - total
      times(n, next(_)) == FoldLeft(LAMBDA now, k : next(now), floors, [k \in 1..n |-> k])
  IN  IF off > 0 THEN times(off, shrunk) ELSE times(-off, grown)

\* A unit from one rank to another while that is faster, of one kind after
\* another.
improve(bds, m, s, kinds, ctx) ==
  LET pairs == SetToSortSeq({ab \in (DOMAIN bds) \X (DOMAIN bds) : ab[1] # ab[2]},
                            LAMBDA x, y : x[1] < y[1] \/ (x[1] = y[1] /\ x[2] < y[2]))
      lo(kind) == IF kind = "c" THEN 0 ELSE 1
      settled(now, kind) ==
        LET price(c) == cost(bds, m, [now EXCEPT ![kind] = c], kind, ctx)
            moved(c, ab) == [c EXCEPT ![ab[1]] = @ - 1, ![ab[2]] = @ + 1]
            tried(c, ab) == IF c[ab[1]] > lo(kind) /\ price(moved(c, ab)) < price(c)
                            THEN moved(c, ab) ELSE c
            rest[c \in [DOMAIN bds -> Nat]] ==
              LET better == FoldLeft(tried, c, pairs) IN IF better = c THEN c ELSE rest[better]
        IN  [now EXCEPT ![kind] = rest[@]]
  IN  FoldLeft(settled, s, kinds)

tp_plan(bds, m, ctx) ==
  LET unit == units(bds)
      start == [kv |-> apportion(bds, m.KV, 1), f |-> apportion(bds, m.F \div unit, 1),
                d |-> apportion(bds, m.D \div unit, 1), c |-> apportion(bds, chunks(m), 0)]
      kinds == <<"kv", "f", "d", "kv", "f", "d", "kv", "f", "d", "c">>
      s == improve(bds, m, start, kinds, ctx)
      scaled(x) == Listed([i \in DOMAIN x |-> x[i] * unit])
  IN  [kv |-> s.kv, f |-> scaled(s.f), d |-> scaled(s.d), hk |-> chunk_runs(s.c)]

-----------------------------------------------------------------------------
(* The builds and images of a fleet, and its step.                         *)

Fleets == {"full", "ranks", "stages"}

\* The builds of a kind, as planned for a context halfway; and the images of
\* a checkpoint's weights for each.
Builds(u, p) ==
  LET every == [l \in 1..p.NL |-> l]
      part == IF p.mode = "even" THEN even_part(p, Len(p.boards))
              ELSE tp_plan(p.boards, p, p.L \div 2)
  IN  CASE u = "full" -> <<Layout(p, whole(p), every, TRUE, FALSE)>>
        [] u = "ranks" -> Listed([i \in DOMAIN p.boards |->
                             Layout(p, tp_share(p, part, i), every, TRUE, TRUE)])
        \* Only the first and the last stage need the table.
        [] u = "stages" ->
             LET ss == plan(p.boards, p, p.mode, p.L \div 2)
             IN  Listed([k \in DOMAIN ss |->
                   Layout(p, whole(p), ss[k].layers, ss[k].emb \/ ss[k].head, FALSE)])
Images(p, W) == Listed([i \in DOMAIN p.builds |-> write_images(p, p.builds[i], W)])

\* gd is the network's answer to each rank, gtok and gbest what it picked.
fleet_reset(p) ==
  [core |-> Listed([i \in DOMAIN p.builds |-> full_reset(p, p.builds[i])]),
   gd |-> Chain(Len(p.builds), FALSE), turn |-> 1, busy |-> FALSE, done |-> FALSE,
   hen |-> FALSE, next_tok |-> 0, best |-> 0, tok |-> 0, pos |-> 0]

\* An edge of one core: the network's answer to a rank is up until it drops
\* its request.
Became(f, i, c) == [f EXCEPT !.core[i] = c, !.gd[i] = @ /\ c.g_req, !.turn = i]
Clock(p, f, mem, i, in) == Became(f, i, qwen_full(p, p.builds[i], mem[i], f.core[i], in))
Calm(f, i) == [start |-> FALSE, head_en |-> FALSE, emb_en |-> FALSE, tok |-> 0, pos |-> 0,
               goes |-> FALSE, g_done |-> f.gd[i]]
Starting(f, i, first) ==
  [Calm(f, i) EXCEPT !.start = TRUE, !.head_en = f.hen, !.emb_en = first, !.tok = f.tok, !.pos = f.pos]

Slice(p, vec, sh) ==
  CASE vec = 1 -> sh.coff + 1..sh.coff + sh.H * p.hd
    [] vec = 2 -> sh.aoff + 1..sh.aoff + sh.D
    [] vec = 3 -> sh.moff + 1..sh.moff + sh.F
GatherPort == <<"cm", "am", "mm">>

\* Each element of a gather goes from the rank whose slice has it to the
\* others, into the vector each of them asks for; the first rank names it.
Copied(p, f) ==
  LET vec == f.core[1].g_vec
      owner(e) == CHOOSE s \in DOMAIN f.core : e \in Slice(p, vec, p.builds[s].sh)
      all == UNION {Slice(p, vec, p.builds[s].sh) : s \in DOMAIN f.core}
      filled(d) ==
        LET port == GatherPort[f.core[d].g_vec]
        IN  [f.core[d] EXCEPT ![port] =
               Listed([e \in DOMAIN @ |->
                  IF e \in all THEN f.core[owner(e)][GatherPort[f.core[owner(e)].g_vec]][e] ELSE @[e]])]
  IN  [f EXCEPT !.core = Listed([d \in DOMAIN f.core |-> filled(d)])]

\* The largest logit; the ranks' chunks ascend, so a tie keeps the lower.
Picked(f) ==
  LET pick[i \in DOMAIN f.core] ==
        IF i = 1 THEN 1
        ELSE IF f.core[i].best > f.core[pick[i - 1]].best THEN i ELSE pick[i - 1]
      best == f.core[pick[Len(f.core)]]
  IN  [f EXCEPT !.next_tok = best.next_tok, !.best = best.best]

\* The network serves when every rank asks and none has an old answer.
Serves(p, f) ==
  [IF f.core[1].g_vec = 4 THEN Picked(f) ELSE Copied(p, f) EXCEPT !.gd = Chain(Len(f.core), TRUE)]

\* The core that had the token, and the hidden state its successor starts from.
Handed(p, f, mem) ==
  LET i == f.turn + 1
  IN  Clock(p, [f EXCEPT !.core[i].xm = f.core[f.turn].xm], mem, i, Starting(f, i, FALSE))
Ended(f) ==
  LET c == Last(f.core)
      ended == [f EXCEPT !.busy = FALSE, !.done = TRUE]
  IN  IF c.g_vec = 4 \/ ~f.hen THEN ended ELSE [ended EXCEPT !.next_tok = c.next_tok, !.best = c.best]

fleet(u, p, f, mem, in) ==
  LET cores == DOMAIN f.core
      asks(i) == f.core[i].g_req /\ ~f.gd[i]
      active == {i \in cores : f.core[i].busy /\ ~asks(i)}
      \* The rank that goes on first is any of them.
      now == IF f.turn \in active THEN f.turn
             ELSE IF in.goes THEN Min(active) ELSE Max(active)
      accepted == [f EXCEPT !.busy = TRUE, !.hen = in.head_en, !.tok = in.tok, !.pos = in.pos]
      \* The host starts every rank, or the first stage.
      started[i \in 0..Len(f.core)] ==
        IF i = 0 THEN accepted
        ELSE IF u = "stages" /\ i > 1 THEN started[i - 1]
        ELSE Clock(p, started[i - 1], mem, i, Starting(accepted, i, TRUE))
  IN  CASE ~f.busy -> IF in.start THEN [started[Len(f.core)] EXCEPT !.turn = 1, !.done = FALSE]
                                  ELSE [f EXCEPT !.done = FALSE]
        [] f.busy /\ active # {} -> Clock(p, f, mem, now, [Calm(f, now) EXCEPT !.goes = in.goes])
        [] f.busy /\ active = {} /\ \A i \in cores : asks(i) -> Serves(p, f)
        [] f.busy /\ active = {} /\ u = "stages" /\ f.turn < Len(f.core) -> Handed(p, f, mem)
        [] f.busy /\ active = {} /\ ~(\E i \in cores : f.core[i].busy)
             /\ ~(u = "stages" /\ f.turn < Len(f.core)) -> Ended(f)
        \* Some ask and the others have ended: it stays so.
        [] OTHER -> f

\* What a position leaves: the hidden state on every board that ends with
\* it, and with the head on the token and its logit.
FleetEnds(u, f) ==
  LET ends == IF u = "stages" THEN {Len(f.core)} ELSE DOMAIN f.core
  IN  <<{f.core[i].xm : i \in ends}, IF f.hen THEN <<f.next_tok, f.best>> ELSE <<>>>>
=============================================================================
