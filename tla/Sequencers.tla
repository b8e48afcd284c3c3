----------------------------- MODULE Sequencers -----------------------------
(***************************************************************************)
(* The blocks that walk a matrix through the multiply-accumulate unit: the *)
(* sequencer, the weight memory, the projections and the layers made of    *)
(* them.  A job j says what a run works on, its memories included; reads   *)
(* are registered, a cycle behind their address.  For each block: the      *)
(* registers after reset, those after a clock edge, and the outputs a run  *)
(* must give, with their indices.                                          *)
(***************************************************************************)
EXTENDS Pipelines

---------------------------------------------------------------------------
\* The sequencer.  It waits out the unit's own latency and the memory's.

matvec_reset == [state |-> "idle", row |-> 0, col |-> 0, drain |-> 0, a_addr |-> 0,
                 w_addr |-> 0, col_base |-> 0, issue |-> FALSE, vdly |-> FALSE,
                 mac_clear |-> FALSE, col_valid |-> FALSE, col_index |-> 0, busy |-> FALSE]

mac_valid_AtIssue(r) == r.issue  \* mutant: the memory's read is not waited for
mac_valid(r) == r.vdly
drain_n(p) == p.mac.pipeline_stages + p.mem_latency

matvec(p, r, in) ==
  LET d == [r EXCEPT !.vdly = r.issue, !.issue = FALSE, !.mac_clear = FALSE,
                     !.col_valid = FALSE]
  IN  CASE r.state = "idle" ->
             IF in.start /\ in.depth # 0 /\ in.cols # 0
             THEN [d EXCEPT !.state = "run", !.row = 0, !.col = 0, !.busy = TRUE,
                            !.a_addr = 0, !.w_addr = 0, !.col_base = 0, !.issue = TRUE]
             ELSE d
        [] r.state = "run" ->
             IF r.row + 1 = in.depth
             THEN [d EXCEPT !.state = "drain", !.drain = drain_n(p)]
             ELSE [d EXCEPT !.row = r.row + 1, !.a_addr = r.row + 1,
                            !.w_addr = r.w_addr + 1, !.issue = TRUE]
        [] r.state = "drain" ->
             IF r.drain = 0
             THEN [d EXCEPT !.state = "emit", !.col_valid = TRUE, !.col_index = r.col]
             ELSE [d EXCEPT !.drain = r.drain - 1]
        [] r.state = "emit" ->
             LET c == [d EXCEPT !.mac_clear = TRUE]
                 base == r.col_base + in.depth
             IN  IF r.col + 1 = in.cols
                 THEN [c EXCEPT !.state = "idle", !.busy = FALSE]
                 ELSE [c EXCEPT !.state = "run", !.col = r.col + 1, !.row = 0, !.a_addr = 0,
                                !.col_base = base, !.w_addr = base, !.issue = TRUE]

\* The sequencer and the unit on memories that answer a cycle later.
walk_reset(p) == [mv |-> matvec_reset, mc |-> mac_reset(p.mac), a_data |-> 0, w_data |-> 0]

walk(p, r, in) ==
  [mv |-> matvec(p, r.mv, in),
   mc |-> mac(p.mac, r.mc, [clear |-> r.mv.mac_clear, a |-> r.a_data, b |-> r.w_data,
                            valid_in |-> mac_valid(r.mv)]),
   a_data |-> in.a_data, w_data |-> in.w_data]

walked(p, r, j, start) ==
  walk(p, r, [start |-> start, depth |-> j.depth, cols |-> j.cols,
              a_data |-> Read(j.x, r.mv.a_addr), w_data |-> Read(j.w, r.mv.w_addr)])

\* The columns of a product, in order.
Column(x, w, d, c) == Total([i \in 1..d |-> x[i] * w[c * d + i]])
Columns(x, w, d, n) == [c \in 1..n |-> Column(x, w, d, c - 1)]

---------------------------------------------------------------------------
\* The weight memory: words are pushed in order and counted up to its
\* capacity; the read port is registered.

wmem_reset(p) == [load_count |-> 0, mem |-> Chain(p.capacity, Beyond), rd_data |-> 0]

wmem(p, r, in) ==
  LET takes == in.load_valid /\ r.load_count # p.capacity
  IN  [rd_data |-> Read(r.mem, in.rd_addr),
       load_count |-> CASE in.load_start -> 0
                        [] ~in.load_start /\ takes -> r.load_count + 1
                        [] OTHER -> r.load_count,
       mem |-> IF takes /\ ~in.load_start THEN Write(r.mem, r.load_count, in.load_data)
                                          ELSE r.mem]

tile_reset(p) == [wm |-> wmem_reset(p), wk |-> walk_reset(p.matvec)]

\* The memory feeding the sequencer: its read register is the weight port.
tile(p, r, j, in) ==
  LET mem == wmem(p, r.wm, in @@ [rd_addr |-> r.wk.mv.w_addr])
  IN  [wm |-> mem,
       wk |-> walk(p.matvec, r.wk, [start |-> in.start, depth |-> j.depth, cols |-> j.cols,
                                    a_data |-> Read(j.x, r.wk.mv.a_addr),
                                    w_data |-> mem.rd_data])]

---------------------------------------------------------------------------
\* A requantizer behind the unit, and each result's index beside it.

engine_reset(p) ==
  [wk |-> walk_reset(p.matvec), rq |-> requant_reset(p.requant),
   idx_pipe |-> Chain(p.requant.pipeline_stages, 0),
   mv_start |-> FALSE, rq_vin |-> FALSE, rq_acc |-> 0, rq_idx |-> 0, outst |-> 0, ran |-> FALSE]

\* What is out in the requantizer, and a walk that began and is over.
Outstanding_EntersFirst(n, enters, leaves) ==  \* mutant: one in and one out count as one in
  CASE enters -> n + 1 [] ~enters /\ leaves -> n - 1 [] OTHER -> n
Outstanding(n, enters, leaves) ==
  CASE enters /\ ~leaves -> n + 1
    [] leaves /\ ~enters -> n - 1
    [] OTHER -> n
Over_WalkOnly(e) == e.ran /\ ~e.wk.mv.busy  \* mutant: what is in the requantizer is forgotten
Over(e) == e.ran /\ ~e.wk.mv.busy /\ e.outst = 0 /\ ~e.wk.mv.col_valid
ResultIndex(e) == Last(e.idx_pipe)

\* in.send is <<sum, index>> for the requantizer, or nothing; in.enters is
\* what counts as having gone in.
engine(p, e, in) ==
  [wk |-> walk(p.matvec, e.wk, in @@ [start |-> e.mv_start]),
   rq |-> requant(p.requant, e.rq, [acc_in |-> e.rq_acc, scale |-> in.scale,
                                    shift |-> in.shift, valid_in |-> e.rq_vin]),
   idx_pipe |-> Shifted(e.idx_pipe, e.rq_idx),
   mv_start |-> in.start_walk,
   rq_vin |-> in.send # <<>>,
   rq_acc |-> IF in.send = <<>> THEN e.rq_acc ELSE in.send[1],
   rq_idx |-> IF in.send = <<>> THEN e.rq_idx ELSE in.send[2],
   outst |-> Outstanding(e.outst, in.enters, e.rq.valid_out),
   ran |-> ~in.fresh /\ (e.ran \/ e.wk.mv.busy)]

FinishedColumn(e) == <<e.wk.mc.acc, e.wk.mv.col_index>>

\* What a block answers with: a value, its index, and a flag.
quiet == [o_valid |-> FALSE, o_index |-> 0, o_data |-> 0]
Answer(o, valid, index, data) ==
  IF valid THEN [o_valid |-> TRUE, o_index |-> index, o_data |-> data]
           ELSE [o EXCEPT !.o_valid = FALSE]

---------------------------------------------------------------------------
\* The projection.

proj_reset(p) == [e |-> engine_reset(p), busy |-> FALSE, out |-> quiet]

proj(p, r, j, in) ==
  LET e == r.e
      begins == ~r.busy /\ in.start
  IN  [e |-> engine(p, e,
              [depth |-> j.depth, cols |-> j.cols, scale |-> j.scale, shift |-> j.shift,
               a_data |-> Read(j.x, e.wk.mv.a_addr), w_data |-> Read(j.w, e.wk.mv.w_addr),
               send |-> IF e.wk.mv.col_valid THEN FinishedColumn(e) ELSE <<>>,
               enters |-> e.rq_vin, start_walk |-> begins, fresh |-> begins]),
       busy |-> begins \/ (r.busy /\ ~(Over(e) /\ ~e.rq_vin)),
       out |-> Answer(r.out, e.rq.valid_out, ResultIndex(e), e.rq.q_out)]

Requantized(s, scale, sh, dw) ==
  [i \in DOMAIN s |-> requant_golden(s[i], scale, sh, dw)[1]]
proj_golden(p, j) ==
  Requantized(Columns(j.x, j.w, j.depth, j.cols), j.scale, j.shift, p.requant.out_width)

---------------------------------------------------------------------------
\* The projection over lanes: a group of columns at once, their sums into a
\* shadow bank, which drains through one requantizer as the next group runs.

flush(p) == 1 + p.mac.pipeline_stages
NoColumn == [c_addr |-> 0, dsel |-> 0, dva |-> FALSE, didx |-> 0,
             dselb |-> 0, dvb |-> FALSE, didxb |-> 0, c_data |-> [bias |-> 0, scale |-> 0, shift |-> 0],
             rq_scale |-> 0, rq_shift |-> 0]

projn_reset(p) ==
  [issuing |-> FALSE, r |-> 0, g0 |-> 0, wbase |-> 0, v1 |-> FALSE, mclr |-> FALSE,
   lastp |-> Chain(flush(p) + 1, FALSE), gp |-> Chain(flush(p) + 1, 0),
   lane |-> Chain(p.lanes, mac_reset(p.mac)), shadow |-> Chain(p.lanes, 0),
   cap0 |-> 0, dj |-> 0, dn |-> 0, pend |-> FALSE, col |-> NoColumn,
   rq_vin |-> FALSE, rq_acc |-> 0, rq_idx |-> 0, rq |-> requant_reset(p.requant),
   idx_pipe |-> Chain(p.requant.pipeline_stages, 0), outst |-> 0,
   a_data |-> 0, w_data |-> Chain(p.lanes, 0), busy |-> FALSE, out |-> quiet]

\* A weight word: lane i's own weight at its own place in it.
Word(p, j, addr) ==
  LET c == (addr \div j.depth) * p.lanes
  IN  [i \in 1..p.lanes |-> IF c + i - 1 < j.cols
                            THEN j.w[(c + i - 1) * j.depth + (addr % j.depth) + 1] ELSE 0]
LaneWeight(word, i) == word[i]

\* With a word of parameters for each column, the sum waits two edges for it.
Parameters(p, r, j) ==
  LET c == r.col
      issues == r.dj # r.dn
  IN  IF ~p.per_column THEN c
      ELSE [c_addr |-> IF issues THEN r.cap0 + r.dj ELSE c.c_addr,
            dsel |-> IF issues THEN r.dj ELSE c.dsel, dva |-> issues,
            didx |-> IF issues THEN r.cap0 + r.dj ELSE c.didx,
            dselb |-> c.dsel, dvb |-> c.dva, didxb |-> c.didx,
            c_data |-> Read(j.cols_of, c.c_addr),
            rq_scale |-> IF c.dvb THEN c.c_data.scale ELSE c.rq_scale,
            rq_shift |-> IF c.dvb THEN c.c_data.shift ELSE c.rq_shift]

\* The column that goes to the requantizer at this edge, if one does.
Drained(p, r) ==
  CASE p.per_column /\ r.col.dvb ->
         <<Wrap(r.shadow[r.col.dselb + 1] + r.col.c_data.bias, p.mac.acc_width), r.col.didxb>>
    [] ~p.per_column /\ r.dj # r.dn -> <<r.shadow[r.dj + 1], r.cap0 + r.dj>>
    [] OTHER -> <<>>

\* The bank is free only once its last column has left the drain.
BankFree(r) == r.dj = r.dn /\ ~r.col.dva /\ ~r.col.dvb

projn(p, r, j, in) ==
  LET ends == r.issuing /\ r.r = j.depth - 1
      first == Last(r.gp)
      ready == Last(r.lastp) \/ r.pend
      takes == ready /\ BankFree(r)
      more == takes /\ r.g0 + p.lanes < j.cols
      begins == ~r.busy /\ in.start
      sends == Drained(p, r)
      idle == /\ ~r.issuing /\ ~r.v1 /\ (\A i \in DOMAIN r.lastp : ~r.lastp[i]) /\ ~r.pend
              /\ BankFree(r) /\ r.outst = 0 /\ ~r.rq_vin /\ ~r.mclr /\ r.g0 + p.lanes >= j.cols
  IN  [issuing |-> begins \/ more \/ (r.issuing /\ ~ends),
       r |-> IF begins \/ ends THEN 0 ELSE IF r.issuing THEN r.r + 1 ELSE r.r,
       g0 |-> IF begins THEN 0 ELSE IF more THEN r.g0 + p.lanes ELSE r.g0,
       wbase |-> IF begins THEN 0 ELSE IF more THEN r.wbase + j.depth ELSE r.wbase,
       v1 |-> r.issuing, lastp |-> Shifted(r.lastp, ends), gp |-> Shifted(r.gp, r.g0),
       lane |-> [i \in DOMAIN r.lane |->
                   mac(p.mac, r.lane[i], [clear |-> r.mclr, a |-> r.a_data,
                                          b |-> LaneWeight(r.w_data, i), valid_in |-> r.v1])],
       shadow |-> IF takes THEN [i \in DOMAIN r.lane |-> r.lane[i].acc] ELSE r.shadow,
       mclr |-> takes, pend |-> ~begins /\ ready /\ ~takes,
       cap0 |-> IF takes THEN first ELSE r.cap0,
       dj |-> CASE begins -> 0
                [] ~begins /\ r.dj # r.dn -> r.dj + 1
                [] ~begins /\ takes -> 0
                [] OTHER -> r.dj,
       dn |-> CASE begins -> 0
                [] ~begins /\ takes -> AtMost(j.cols - first, p.lanes)
                [] OTHER -> r.dn,
       col |-> Parameters(p, r, j),
       rq_vin |-> sends # <<>>,
       rq_acc |-> IF sends = <<>> THEN r.rq_acc ELSE sends[1],
       rq_idx |-> IF sends = <<>> THEN r.rq_idx ELSE sends[2],
       rq |-> requant(p.requant, r.rq,
                [acc_in |-> r.rq_acc, scale |-> IF p.per_column THEN r.col.rq_scale ELSE j.scale,
                 shift |-> IF p.per_column THEN r.col.rq_shift ELSE j.shift,
                 valid_in |-> r.rq_vin]),
       idx_pipe |-> Shifted(r.idx_pipe, r.rq_idx),
       outst |-> Outstanding(r.outst, r.rq_vin, r.rq.valid_out),
       a_data |-> Read(j.x, r.r), w_data |-> Word(p, j, r.wbase + r.r),
       busy |-> begins \/ (r.busy /\ ~idle),
       out |-> Answer(r.out, r.rq.valid_out, Last(r.idx_pipe), r.rq.q_out)]

projn_golden(p, j) ==
  LET sums == Columns(j.x, j.w, j.depth, j.cols)
  IN  IF ~p.per_column THEN Requantized(sums, j.scale, j.shift, p.requant.out_width)
      ELSE [c \in DOMAIN sums |->
              requant_golden(sums[c] + j.cols_of[c].bias, j.cols_of[c].scale,
                             j.cols_of[c].shift, p.requant.out_width)[1]]

---------------------------------------------------------------------------
\* The layer of two matmuls: the first one's outputs, rectified, are the
\* second one's inputs, in the other bank.

mlp_reset(p) == [e |-> engine_reset(p), act |-> Chain(2, Chain(p.bank, Beyond)), wptr |-> 0,
                 bank |-> 0, st |-> "idle", mv_depth |-> 0, mv_cols |-> 0, w_base |-> 0,
                 cols1_r |-> 0, rq_scale |-> 0, rq_shift |-> 0, busy |-> FALSE, out |-> quiet]

SecondDepth(r, j) == r.cols1_r
Rectified(v) == AtLeast(v, 0)

mlp(p, r, j, in) ==
  LET e == r.e
      colv == e.wk.mv.col_valid
      vout == e.rq.valid_out
      begins == r.st = "idle" /\ in.start
      second == r.st = "first" /\ Over(e)
      ends == r.st = "second" /\ Over(e)
      loads == in.load_valid /\ ~r.busy
      first == r.st = "first"
  IN  [e |-> engine(p, e,
              [depth |-> r.mv_depth, cols |-> r.mv_cols, scale |-> r.rq_scale, shift |-> r.rq_shift,
               a_data |-> Read(r.act[r.bank + 1], e.wk.mv.a_addr),
               w_data |-> Read(j.w, r.w_base + e.wk.mv.w_addr),
               send |-> IF colv THEN FinishedColumn(e) ELSE <<>>, enters |-> colv,
               start_walk |-> begins \/ second, fresh |-> begins \/ second \/ ends]),
       act |-> <<IF loads THEN Write(r.act[1], r.wptr, in.load_data) ELSE r.act[1],
                 IF first /\ vout THEN Write(r.act[2], ResultIndex(e), Rectified(e.rq.q_out))
                                  ELSE r.act[2]>>,
       wptr |-> IF ends THEN 0 ELSE IF loads THEN r.wptr + 1 ELSE r.wptr,
       bank |-> IF begins THEN 0 ELSE IF second THEN 1 ELSE r.bank,
       st |-> CASE begins -> "first" [] second -> "second" [] ends -> "idle" [] OTHER -> r.st,
       mv_depth |-> IF begins THEN j.depth1 ELSE IF second THEN SecondDepth(r, j) ELSE r.mv_depth,
       mv_cols |-> IF begins THEN j.cols1 ELSE IF second THEN j.cols2 ELSE r.mv_cols,
       w_base |-> IF begins THEN 0 ELSE IF second THEN r.w_base + j.depth1 * j.cols1 ELSE r.w_base,
       cols1_r |-> IF begins THEN j.cols1 ELSE r.cols1_r,
       rq_scale |-> IF ~colv THEN r.rq_scale ELSE IF first THEN j.scale1 ELSE j.scale2,
       rq_shift |-> IF ~colv THEN r.rq_shift ELSE IF first THEN j.shift1 ELSE j.shift2,
       busy |-> begins \/ (r.busy /\ ~ends),
       out |-> Answer(r.out, r.st = "second" /\ vout, ResultIndex(e), e.rq.q_out)]

mlp_golden(p, j) ==
  LET dw == p.requant.out_width
      h == Requantized(Columns(j.x, j.w, j.depth1, j.cols1), j.scale1, j.shift1, dw)
      w2 == SubSeq(j.w, j.depth1 * j.cols1 + 1, Len(j.w))
  IN  Requantized(Columns([i \in DOMAIN h |-> Rectified(h[i])], w2, j.cols1, j.cols2),
                  j.scale2, j.shift2, dw)

---------------------------------------------------------------------------
\* The gated layer: gate through SiLU, up through the requantizer, their
\* product through it, and down through it again.

gmlp_reset(p) ==
  [e |-> engine_reset(p), xbuf |-> Chain(p.bank, Beyond), gbuf |-> Chain(p.bank, Beyond),
   ubuf |-> Chain(p.bank, Beyond), hbuf |-> Chain(p.bank, Beyond), lptr |-> 0, st |-> "idle",
   mv_depth |-> 0, mv_cols |-> 0, w_base |-> 0, base_u |-> 0,
   rnd |-> 0, gq1 |-> 0, gv1 |-> FALSE, si |-> silu_reset(p.silu), si_x |-> 0, si_v |-> FALSE,
   gwp |-> 0, gcnt |-> 0, hissue |-> FALSE, hv1 |-> FALSE, hj |-> 0, hi1 |-> 0, hg |-> 0, hu |-> 0,
   busy |-> FALSE, out |-> quiet]

UpBase(r) == r.base_u
Phase(st, up, product, down) == CASE st = "up" -> up [] st = "product" -> product [] OTHER -> down

gmlp(p, r, j, in) ==
  LET e == r.e
      colv == e.wk.mv.col_valid
      vout == e.rq.valid_out
      loads == in.load_valid /\ ~r.busy
      begins == r.st = "idle" /\ in.start
      up == r.st = "gate" /\ r.gcnt = j.cols1
      product == r.st = "up" /\ Over(e) /\ ~e.rq_vin
      down == r.st = "product" /\ ~r.hissue /\ ~r.hv1 /\ e.outst = 0 /\ ~e.rq_vin
      ends == r.st = "down" /\ Over(e) /\ ~e.rq_vin
      lands(st, buf) == IF vout /\ r.st = st THEN Write(buf, ResultIndex(e), e.rq.q_out) ELSE buf
  IN  [e |-> engine(p, e,
              [depth |-> r.mv_depth, cols |-> r.mv_cols,
               scale |-> Phase(r.st, j.scale_u, j.scale_h, j.scale_d),
               shift |-> Phase(r.st, j.shift_u, j.shift_h, j.shift_d),
               a_data |-> Read(IF r.st = "down" THEN r.hbuf ELSE r.xbuf, e.wk.mv.a_addr),
               w_data |-> Read(j.w, r.w_base + e.wk.mv.w_addr),
               send |-> CASE r.hv1 -> <<Wrap(r.hg * r.hu, p.requant.acc_width), r.hi1>>
                          [] ~r.hv1 /\ colv /\ r.st \in {"up", "down"} -> FinishedColumn(e)
                          [] OTHER -> <<>>,
               enters |-> e.rq_vin,
               start_walk |-> begins \/ up \/ down, fresh |-> begins \/ up \/ down]),
       xbuf |-> IF loads THEN Write(r.xbuf, r.lptr, in.load_data) ELSE r.xbuf,
       lptr |-> IF ends THEN 0 ELSE IF loads THEN r.lptr + 1 ELSE r.lptr,
       gbuf |-> IF r.si.valid_out THEN Write(r.gbuf, r.gwp, r.si.y) ELSE r.gbuf,
       ubuf |-> lands("up", r.ubuf), hbuf |-> lands("product", r.hbuf),
       st |-> CASE begins -> "gate" [] up -> "up" [] product -> "product" [] down -> "down"
                [] ends -> "idle" [] OTHER -> r.st,
       mv_depth |-> IF begins THEN j.depth1 ELSE IF down THEN j.cols1 ELSE r.mv_depth,
       mv_cols |-> IF begins THEN j.cols1 ELSE IF down THEN j.cols2 ELSE r.mv_cols,
       w_base |-> CASE begins -> 0 [] up -> UpBase(r) [] down -> 2 * r.base_u [] OTHER -> r.w_base,
       base_u |-> IF begins THEN j.depth1 * j.cols1 ELSE r.base_u,
       rnd |-> IF begins THEN Half(j.shift_g) ELSE r.rnd,
       gv1 |-> r.st = "gate" /\ colv,
       gq1 |-> IF colv THEN e.wk.mc.acc + r.rnd ELSE r.gq1,
       si_v |-> r.gv1,
       si_x |-> IF r.gv1 THEN Clamp(Sra(r.gq1, j.shift_g), p.gate_width) ELSE r.si_x,
       si |-> silu(p.silu, r.si, [x |-> r.si_x, valid_in |-> r.si_v]),
       gwp |-> IF begins THEN 0 ELSE IF r.si.valid_out THEN r.gwp + 1 ELSE r.gwp,
       gcnt |-> IF begins THEN 0 ELSE IF r.si.valid_out THEN r.gcnt + 1 ELSE r.gcnt,
       hissue |-> product \/ (r.hissue /\ r.hj # j.cols1 - 1),
       hj |-> IF product THEN 0 ELSE IF r.hissue THEN r.hj + 1 ELSE r.hj,
       hv1 |-> r.hissue,
       hi1 |-> IF r.hissue THEN r.hj ELSE r.hi1,
       hg |-> IF r.hissue THEN Read(r.gbuf, r.hj) ELSE r.hg,
       hu |-> IF r.hissue THEN Read(r.ubuf, r.hj) ELSE r.hu,
       busy |-> begins \/ (r.busy /\ ~ends),
       out |-> Answer(r.out, vout /\ r.st \notin {"up", "product"}, ResultIndex(e), e.rq.q_out)]

gmlp_golden(p, j) ==
  LET dw == p.requant.out_width
      n == j.depth1 * j.cols1
      part(k) == SubSeq(j.w, k * n + 1, Len(j.w))
      gate == Columns(j.x, part(0), j.depth1, j.cols1)
      gs == [c \in DOMAIN gate |->
               silu_golden(Clamp(_round_shift(gate[c], j.shift_g), p.gate_width), p.silu)]
      u == Requantized(Columns(j.x, part(1), j.depth1, j.cols1), j.scale_u, j.shift_u, dw)
      h == Requantized([c \in DOMAIN gs |-> gs[c] * u[c]], j.scale_h, j.shift_h, dw)
  IN  Requantized(Columns(h, part(2), j.cols1, j.cols2), j.scale_d, j.shift_d, dw)
=============================================================================
