----------------------------- MODULE Attention ------------------------------
(***************************************************************************)
(* The blocks of an attention layer that make passes over a row: softmax,  *)
(* the head on one lane and on several, and the norm before them.  Written *)
(* as the sequencers are: registers after reset, registers after a clock   *)
(* edge on job j, and the outputs a run must give.                         *)
(***************************************************************************)
EXTENDS Sequencers

---------------------------------------------------------------------------
\* Softmax: the maximum, the exponentials and their sum, one reciprocal,
\* a normalising multiply.  A read is two edges from its issue to its datum.

softmax_reset(p) ==
  [ph |-> "idle", iss |-> 0, col |-> 0, mx |-> 0, sum |-> 0, rm |-> 0, rk |-> 0, s_addr |-> 0,
   v1 |-> FALSE, v2 |-> FALSE, buf_mem |-> Chain(p.capacity, Beyond), bq |-> 0,
   sub_r |-> 0, e_vin |-> FALSE, eu |-> expu_reset(p.exp),
   r_vin |-> FALSE, ru |-> recip_reset(p.recip),
   prod_r |-> 0, idx_r |-> 0, ov1 |-> FALSE, busy |-> FALSE, out |-> quiet]

\* What the exponential is taken of: a score less the maximum, clamped
\* where the exponential is empty anyway.
Argument(p, score, mx) == Wrap(AtLeast(score - mx, -(2^(p.score_width - 1))), p.score_width)
Weight(p, prod, k) == AtMost(Sra(prod, p.recip.shift_bias - k - p.weight_frac), 2^p.weight_frac)

\* A pass begins with address 0 issued, so the next one to issue is 1.
Pass(d, phase) == [d EXCEPT !.ph = phase, !.iss = 1, !.col = 0, !.s_addr = 0, !.v1 = TRUE]
Issue(d, n) == IF d.iss # n THEN [d EXCEPT !.s_addr = d.iss, !.iss = d.iss + 1, !.v1 = TRUE] ELSE d

softmax(p, r, in) ==
  LET n == in.n
      d == [r EXCEPT !.e_vin = FALSE, !.r_vin = FALSE, !.v1 = FALSE, !.v2 = r.v1, !.ov1 = FALSE,
                     !.out = Answer(r.out, FALSE, 0, 0), !.bq = Read(r.buf_mem, r.s_addr),
                     !.sub_r = Argument(p, in.s_data, r.mx),
                     !.eu = expu(p.exp, r.eu, [x |-> r.sub_r, valid_in |-> r.e_vin]),
                     !.ru = recip(p.recip, r.ru, [x |-> r.sum, valid_in |-> r.r_vin])]
  IN  CASE r.ph = "idle" ->
             IF in.start /\ n # 0
             THEN [Pass(d, "max") EXCEPT !.busy = TRUE,
                                         !.mx = -(2^(p.score_in_width - 1))]
             ELSE d
        [] r.ph = "max" ->
             IF r.col = n THEN [Pass(d, "exp") EXCEPT !.sum = 0]
             ELSE IF r.v2 THEN [Issue(d, n) EXCEPT !.mx = Max({r.mx, in.s_data}), !.col = r.col + 1]
             ELSE Issue(d, n)
        [] r.ph = "exp" ->
             LET i == [Issue(d, n) EXCEPT !.e_vin = r.v2]
                 y == r.eu.y
                 c == IF ~r.eu.valid_out THEN i
                      ELSE [i EXCEPT !.buf_mem = Write(r.buf_mem, r.col, y), !.col = r.col + 1,
                                     !.sum = Low(r.sum + y, p.recip.in_width)]
             IN  IF r.col = n THEN [c EXCEPT !.ph = "recip", !.r_vin = TRUE] ELSE c
        [] r.ph = "recip" ->
             IF r.ru.valid_out THEN [Pass(d, "out") EXCEPT !.rm = r.ru.y, !.rk = r.ru.k] ELSE d
        [] r.ph = "out" ->
             LET i == [Issue(d, n) EXCEPT !.out = Answer(r.out, r.ov1, r.idx_r,
                                                          Weight(p, r.prod_r, r.rk))]
                 m == IF ~r.v2 THEN i
                      ELSE [i EXCEPT !.prod_r = r.bq * r.rm, !.idx_r = r.col, !.ov1 = TRUE,
                                     !.col = r.col + 1]
             IN  IF r.col = n /\ ~r.ov1 /\ ~r.v2 THEN [m EXCEPT !.ph = "idle", !.busy = FALSE] ELSE m

\* The block on its score memory, whose read is registered.
scores_reset(p) == [sm |-> softmax_reset(p), s_data |-> 0]
scores(p, r, j, in) ==
  [sm |-> softmax(p, r.sm, [start |-> in.start, n |-> j.n, s_data |-> r.s_data]),
   s_data |-> Read(j.x, r.sm.s_addr)]

softmax_golden(s, p) ==
  LET mx == Largest(s)
      ex == [i \in DOMAIN s |->
               exp_golden(AtLeast(s[i] - mx, -(2^(p.score_width - 1))), p.exp)]
      tot == AtMost(Total(ex), 2^p.recip.in_width - 1)
      mk == recip_golden(AtLeast(tot, 1), p.recip)
  IN  [i \in DOMAIN s |->
         AtMost(recip_apply(ex[i] * 2^p.weight_frac, mk[1], mk[2], p.recip), 2^p.weight_frac)]

---------------------------------------------------------------------------
\* The head on one lane.  The value cache is a registered read behind a
\* registered address, and the weight waits for it.

\* A sum rounded, shifted and clamped into the softmax's format.
Score(p, j, t) == Clamp(_round_shift(t * 2^p.score_guard, j.shift_s), p.score_width)

NoTerm == [first |-> FALSE, last |-> FALSE, d |-> 0, valid |-> FALSE]

attn_reset(p) ==
  [qbuf |-> Chain(p.head_dim, Beyond), sbuf |-> Chain(p.capacity, Beyond),
   pbuf |-> Chain(p.capacity, Beyond), lptr |-> 0, n_r |-> 0, st |-> "idle",
   mv_start |-> FALSE, wk |-> walk_reset(p.matvec), rnd_r |-> 0, sv1 |-> FALSE, st1 |-> 0,
   si1 |-> 0, scnt |-> 0, sm_start |-> FALSE, sm |-> softmax_reset(p.softmax), sm_sdata |-> 0,
   pcnt |-> 0, issuing |-> FALSE, dd |-> 0, jj |-> 0, vbase |-> 0, v_addr |-> 0, v_data |-> 0,
   pidx |-> 0, p_r |-> 0, t0 |-> NoTerm, t1 |-> NoTerm, t2 |-> NoTerm, prod2 |-> 0, accb |-> 0,
   rq_vin |-> FALSE, rq_acc |-> 0, rq_idx |-> 0, rq |-> requant_reset(p.requant),
   idx_pipe |-> Chain(p.requant.pipeline_stages, 0), ocnt |-> 0, busy |-> FALSE, out |-> quiet]

\* The stage whose term is formed: after the weight's read and the value's.
Formed(r) == [term |-> r.t1, weight |-> r.p_r]

attn(p, r, j, in) ==
  LET colv == r.wk.mv.col_valid
      loads == in.load_valid /\ ~r.busy
      begins == r.st = "idle" /\ in.start
      soft == r.st = "score" /\ r.scnt = r.n_r
      sums == r.st = "soft" /\ r.pcnt = r.n_r
      ends == r.st = "out" /\ r.ocnt = p.head_dim
      w == r.sm.out
      lastj == r.jj = r.n_r - 1
      sum3 == Wrap(r.accb + r.prod2, p.wsum_width)
      sends == r.t2.valid /\ r.t2.last
      f == Formed(r)
  IN  [qbuf |-> IF loads THEN Write(r.qbuf, r.lptr, in.load_data) ELSE r.qbuf,
       lptr |-> IF ends THEN 0 ELSE IF loads THEN r.lptr + 1 ELSE r.lptr,
       n_r |-> IF begins THEN j.n ELSE r.n_r,
       st |-> CASE begins -> "score" [] soft -> "soft" [] sums -> "out" [] ends -> "idle"
                [] OTHER -> r.st,
       mv_start |-> begins, sm_start |-> soft,
       wk |-> walk(p.matvec, r.wk,
                [start |-> r.mv_start, depth |-> p.head_dim, cols |-> r.n_r,
                 a_data |-> Read(r.qbuf, r.wk.mv.a_addr), w_data |-> Read(j.k, r.wk.mv.w_addr)]),
       rnd_r |-> IF begins THEN Half(j.shift_s) ELSE r.rnd_r,
       sv1 |-> colv,
       st1 |-> IF colv THEN r.wk.mc.acc * 2^p.score_guard + r.rnd_r ELSE r.st1,
       si1 |-> IF colv THEN r.wk.mv.col_index ELSE r.si1,
       sbuf |-> IF r.sv1 THEN Write(r.sbuf, r.si1, Clamp(Sra(r.st1, j.shift_s), p.score_width))
                         ELSE r.sbuf,
       scnt |-> IF begins THEN 0 ELSE IF r.sv1 THEN r.scnt + 1 ELSE r.scnt,
       sm |-> softmax(p.softmax, r.sm, [start |-> r.sm_start, n |-> r.n_r, s_data |-> r.sm_sdata]),
       sm_sdata |-> Read(r.sbuf, r.sm.s_addr),
       pbuf |-> IF w.o_valid THEN Write(r.pbuf, w.o_index, w.o_data) ELSE r.pbuf,
       pcnt |-> IF begins THEN 0 ELSE IF w.o_valid THEN r.pcnt + 1 ELSE r.pcnt,
       issuing |-> sums \/ (r.issuing /\ ~(lastj /\ r.dd = p.head_dim - 1)),
       dd |-> IF sums THEN 0
              ELSE IF r.issuing /\ lastj /\ r.dd # p.head_dim - 1 THEN r.dd + 1 ELSE r.dd,
       jj |-> IF sums \/ (r.issuing /\ lastj) THEN 0 ELSE IF r.issuing THEN r.jj + 1 ELSE r.jj,
       vbase |-> IF sums \/ (r.issuing /\ lastj) THEN 0
                 ELSE IF r.issuing THEN r.vbase + p.head_dim ELSE r.vbase,
       v_addr |-> IF r.issuing THEN r.vbase + r.dd ELSE r.v_addr,
       v_data |-> Read(j.v, r.v_addr),
       pidx |-> IF r.issuing THEN r.jj ELSE r.pidx, p_r |-> Read(r.pbuf, r.pidx),
       t0 |-> IF r.issuing THEN [first |-> r.jj = 0, last |-> lastj, d |-> r.dd, valid |-> TRUE]
                           ELSE [r.t0 EXCEPT !.valid = FALSE],
       t1 |-> r.t0, t2 |-> f.term,
       prod2 |-> IF f.term.valid THEN f.weight * r.v_data ELSE r.prod2,
       accb |-> IF sums THEN 0
                ELSE IF r.t2.valid THEN (IF r.t2.last THEN 0 ELSE sum3) ELSE r.accb,
       rq_vin |-> sends,
       rq_acc |-> IF sends THEN sum3 ELSE r.rq_acc,
       rq_idx |-> IF sends THEN r.t2.d ELSE r.rq_idx,
       rq |-> requant(p.requant, r.rq, [acc_in |-> r.rq_acc, scale |-> j.scale,
                                        shift |-> j.shift, valid_in |-> r.rq_vin]),
       idx_pipe |-> Shifted(r.idx_pipe, r.rq_idx),
       ocnt |-> IF begins THEN 0 ELSE IF r.rq.valid_out THEN r.ocnt + 1 ELSE r.ocnt,
       busy |-> begins \/ (r.busy /\ ~ends),
       out |-> Answer(r.out, r.rq.valid_out, Last(r.idx_pipe), r.rq.q_out)]

attn_golden(p, j) ==
  LET hd == p.head_dim
      t == Columns(j.q, j.k, hd, j.n)
      w == softmax_golden([i \in DOMAIN t |-> Score(p, j, t[i])], p.softmax)
      a == [d \in 1..hd |-> Total([i \in 1..j.n |-> w[i] * j.v[(i - 1) * hd + d]])]
  IN  Requantized(a, j.scale, j.shift, p.data_width)

---------------------------------------------------------------------------
\* The head on several lanes: a lane for each of a group of positions in
\* the scores, for each of a group of dimensions in the weighted sum.

groups(p) == p.head_dim \div p.lanes
stages(p) == 1 + p.mac.pipeline_stages

attnn_reset(p) ==
  [qbuf |-> Chain(p.head_dim, Beyond), sbuf |-> Chain(p.capacity, Beyond),
   pbuf |-> Chain(p.capacity, Beyond), lptr |-> 0, n_r |-> 0, st |-> "idle",
   issuing |-> FALSE, r |-> 0, g0 |-> 0, kbase |-> 0, a_data |-> 0, k_data |-> Chain(p.lanes, 0),
   v1 |-> FALSE, lastp |-> Chain(stages(p) + 1, FALSE), gp |-> Chain(stages(p) + 1, 0),
   mclr |-> FALSE, lane |-> Chain(p.lanes, mac_reset(p.mac)), shadow |-> Chain(p.lanes, 0),
   cap0 |-> 0, dj |-> 0, dn |-> 0, pend |-> FALSE,
   rnd_r |-> 0, sv1 |-> FALSE, st1 |-> 0, si1 |-> 0, scnt |-> 0,
   sm_start |-> FALSE, sm_ran |-> FALSE, sm |-> softmax_reset(p.softmax), sm_sdata |-> 0, pcnt |-> 0,
   wiss |-> FALSE, jj |-> 0, dg |-> 0, vaddr |-> 0, v_data |-> Chain(p.lanes, 0), p_r |-> 0,
   u1 |-> FALSE, f1 |-> FALSE, uA |-> FALSE, fA |-> FALSE,
   lastw |-> Chain(4, FALSE), dgp |-> Chain(4, 0), prod |-> Chain(p.lanes, 0),
   accw |-> Chain(p.lanes, 0), shadow2 |-> Chain(p.lanes, 0),
   capd |-> 0, dj2 |-> 0, dn2 |-> 0, pend2 |-> FALSE,
   rq_vin |-> FALSE, rq_acc |-> 0, rq_idx |-> 0, rq |-> requant_reset(p.requant),
   idx_pipe |-> Chain(p.requant.pipeline_stages, 0), ocnt |-> 0, busy |-> FALSE, out |-> quiet]

\* Key words hold a dimension of a group of positions, value words a group
\* of dimensions of a position.
KeyWord(p, j, addr) ==
  [i \in 1..p.lanes |->
     LET at == ((addr \div p.head_dim) * p.lanes + i - 1) * p.head_dim + (addr % p.head_dim)
     IN  IF at < Len(j.k) THEN j.k[at + 1] ELSE 0]
ValueWord(p, j, addr) == [i \in 1..p.lanes |-> Read(j.v, addr * p.lanes + i - 1)]
KeyLane(word, i) == word[i]

\* Scores: issue a group, take its sums when the drain is free, drain them.
ScorePass(p, r, j, begins) ==
  LET hd == p.head_dim
      ends == r.issuing /\ r.r = hd - 1
      ready == Last(r.lastp) \/ r.pend
      takes == ready /\ r.dj = r.dn
      more == takes /\ r.g0 + p.lanes < r.n_r
      drains == r.dj # r.dn
  IN  [issuing |-> begins \/ more \/ (r.issuing /\ ~ends),
       r |-> IF begins \/ ends THEN 0 ELSE IF r.issuing THEN r.r + 1 ELSE r.r,
       g0 |-> IF begins THEN 0 ELSE IF more THEN r.g0 + p.lanes ELSE r.g0,
       kbase |-> IF begins THEN 0 ELSE IF more THEN r.kbase + hd ELSE r.kbase,
       a_data |-> Read(r.qbuf, r.r), k_data |-> KeyWord(p, j, r.kbase + r.r),
       v1 |-> r.issuing, lastp |-> Shifted(r.lastp, ends), gp |-> Shifted(r.gp, r.g0),
       mclr |-> begins \/ takes,
       lane |-> [i \in DOMAIN r.lane |->
                   mac(p.mac, r.lane[i], [clear |-> r.mclr, a |-> r.a_data,
                                          b |-> KeyLane(r.k_data, i), valid_in |-> r.v1])],
       shadow |-> IF takes THEN [i \in DOMAIN r.lane |-> r.lane[i].acc] ELSE r.shadow,
       cap0 |-> IF takes THEN Last(r.gp) ELSE r.cap0,
       pend |-> ~begins /\ ready /\ ~takes,
       dj |-> CASE begins \/ takes -> 0 [] ~begins /\ drains -> r.dj + 1 [] OTHER -> r.dj,
       dn |-> CASE begins -> 0 [] ~begins /\ takes -> AtMost(r.n_r - Last(r.gp), p.lanes)
                [] OTHER -> r.dn,
       rnd_r |-> IF begins THEN Half(j.shift_s) ELSE r.rnd_r,
       sv1 |-> drains,
       st1 |-> IF drains THEN r.shadow[r.dj + 1] * 2^p.score_guard + r.rnd_r ELSE r.st1,
       si1 |-> IF drains THEN r.cap0 + r.dj ELSE r.si1,
       sbuf |-> IF r.sv1 THEN Write(r.sbuf, r.si1, Clamp(Sra(r.st1, j.shift_s), p.score_width))
                         ELSE r.sbuf,
       scnt |-> IF begins THEN 0 ELSE IF r.sv1 THEN r.scnt + 1 ELSE r.scnt]

\* The weighted sum: a group's products, its sums, and their drain.
SumPass(p, r, j, begins) ==
  LET lastj == r.jj = r.n_r - 1
      ready == Last(r.lastw) \/ r.pend2
      takes == ready /\ r.dj2 = r.dn2
      more == takes /\ r.dg + 1 < groups(p)
      drains == r.dj2 # r.dn2
      steps == r.wiss /\ ~lastj
  IN  [wiss |-> begins \/ more \/ steps,
       jj |-> IF begins \/ more THEN 0 ELSE IF steps THEN r.jj + 1 ELSE r.jj,
       dg |-> IF begins THEN 0 ELSE IF more THEN r.dg + 1 ELSE r.dg,
       vaddr |-> CASE begins -> 0 [] more -> r.dg + 1 [] steps -> r.vaddr + groups(p)
                   [] OTHER -> r.vaddr,
       v_data |-> ValueWord(p, j, r.vaddr), p_r |-> Read(r.pbuf, r.jj),
       u1 |-> r.wiss, f1 |-> r.wiss /\ r.jj = 0, uA |-> r.u1, fA |-> r.f1,
       lastw |-> Shifted(r.lastw, r.wiss /\ lastj), dgp |-> Shifted(r.dgp, r.dg),
       prod |-> IF r.u1 THEN [i \in DOMAIN r.prod |-> r.p_r * r.v_data[i]] ELSE r.prod,
       accw |-> IF ~r.uA THEN r.accw
                ELSE [i \in DOMAIN r.prod |->
                        IF r.fA THEN r.prod[i] ELSE Wrap(r.accw[i] + r.prod[i], p.wsum_width)],
       shadow2 |-> IF takes THEN r.accw ELSE r.shadow2,
       capd |-> IF takes THEN Last(r.dgp) ELSE r.capd,
       pend2 |-> ~begins /\ ready /\ ~takes,
       dj2 |-> CASE begins \/ takes -> 0 [] ~begins /\ drains -> r.dj2 + 1 [] OTHER -> r.dj2,
       dn2 |-> CASE begins -> 0 [] ~begins /\ takes -> p.lanes [] OTHER -> r.dn2,
       rq_vin |-> drains,
       rq_acc |-> IF drains THEN r.shadow2[r.dj2 + 1] ELSE r.rq_acc,
       rq_idx |-> IF drains THEN r.capd * p.lanes + r.dj2 ELSE r.rq_idx]

attnn(p, r, j, in) ==
  LET begins == r.st = "idle" /\ in.start
      soft == r.st = "score" /\ r.scnt = r.n_r /\ ~r.sv1 /\ r.dj = r.dn
      sums == r.st = "soft" /\ r.sm_ran /\ ~r.sm.busy /\ r.pcnt = r.n_r
      ends == r.st = "sum" /\ r.ocnt = p.head_dim
      w == r.sm.out
  IN  ScorePass(p, r, j, begins) @@ SumPass(p, r, j, sums) @@
      [qbuf |-> IF in.load_valid THEN Write(r.qbuf, r.lptr % p.head_dim, in.load_data) ELSE r.qbuf,
       lptr |-> IF ends THEN 0 ELSE IF in.load_valid THEN r.lptr + 1 ELSE r.lptr,
       n_r |-> IF begins THEN j.n ELSE r.n_r,
       st |-> CASE begins -> "score" [] soft -> "soft" [] sums -> "sum" [] ends -> "idle"
                [] OTHER -> r.st,
       sm_start |-> soft,
       sm_ran |-> ~soft /\ (r.sm_ran \/ (r.st = "soft" /\ r.sm.busy)),
       sm |-> softmax(p.softmax, r.sm, [start |-> r.sm_start, n |-> r.n_r, s_data |-> r.sm_sdata]),
       sm_sdata |-> Read(r.sbuf, r.sm.s_addr),
       pbuf |-> IF w.o_valid THEN Write(r.pbuf, w.o_index, w.o_data) ELSE r.pbuf,
       pcnt |-> IF begins THEN 0 ELSE IF w.o_valid THEN r.pcnt + 1 ELSE r.pcnt,
       rq |-> requant(p.requant, r.rq, [acc_in |-> r.rq_acc, scale |-> j.scale,
                                        shift |-> j.shift, valid_in |-> r.rq_vin]),
       idx_pipe |-> Shifted(r.idx_pipe, r.rq_idx),
       ocnt |-> IF begins THEN 0 ELSE IF r.rq.valid_out THEN r.ocnt + 1 ELSE r.ocnt,
       busy |-> begins \/ (r.busy /\ ~ends),
       out |-> Answer(r.out, r.rq.valid_out, Last(r.idx_pipe), r.rq.q_out)]

---------------------------------------------------------------------------
\* The norm: a sum of squares, one inverse square root, a scaled product
\* for each element through the requantizer.

Element(v, l, i) == [valid |-> v, last |-> l, i |-> i]
NoElement == Element(FALSE, FALSE, 0)

rmsnorm_reset(p) ==
  [ssq |-> 0, rs_m |-> 0, rs_e |-> 0, st |-> "idle", issuing |-> FALSE, ii |-> 0,
   addr |-> 0, x_data |-> 0, g_data |-> 0, at |-> Chain(6, NoElement),
   sqr |-> 0, pr |-> 0, parts |-> Chain(4, 0), halves |-> Chain(2, 0), pm |-> 0,
   rs_vin |-> FALSE, rs_go |-> FALSE, rs |-> rsqrt_reset(p.rsqrt),
   rq_vin |-> FALSE, rq_acc |-> 0, rq_idx |-> 0, rq |-> requant_reset(p.requant),
   idx_pipe |-> Chain(p.requant.pipeline_stages, 0), ocnt |-> 0, busy |-> FALSE, out |-> quiet]

FirstSum(j) == j.eps

rmsnorm(p, r, j, in) ==
  LET D == p.d_model
      dw == p.data_width
      cut == (p.rsqrt.out_width + 1) \div 2
      begins == r.st = "idle" /\ in.start
      again == r.st = "root" /\ r.rs.valid_out
      squared == r.st = "squares" /\ r.at[3].valid
      sends == r.st = "scale" /\ r.at[6].valid
      answers == r.st = "scale" /\ r.rq.valid_out
      ends == r.st = "scale" /\ r.ocnt = D
      lasti == r.ii = D - 1
      factors == <<Low(r.pr, dw), Sra(r.pr, dw), Low(r.rs_m, cut), Sra(r.rs_m, cut)>>
  IN  [issuing |-> begins \/ again \/ (r.issuing /\ ~lasti),
       ii |-> IF begins \/ again \/ (r.issuing /\ lasti) THEN 0
              ELSE IF r.issuing THEN r.ii + 1 ELSE r.ii,
       addr |-> IF r.issuing THEN r.ii ELSE r.addr,
       x_data |-> Read(j.x, r.addr), g_data |-> Read(j.g, r.addr),
       \* The first three carry valid, last and index; the sixth is an
       \* element only in the second pass.
       at |-> [k \in 1..6 |->
                 CASE k = 1 -> IF r.issuing THEN Element(TRUE, lasti, r.ii)
                                            ELSE [r.at[1] EXCEPT !.valid = FALSE]
                   [] k \in 2..5 -> r.at[k - 1]
                   [] k = 6 -> [r.at[5] EXCEPT !.valid = @ /\ r.st = "scale"]],
       sqr |-> IF r.at[2].valid THEN r.x_data * r.x_data ELSE r.sqr,
       pr |-> IF r.at[2].valid THEN r.x_data * r.g_data ELSE r.pr,
       parts |-> IF ~r.at[3].valid THEN r.parts
                 ELSE <<factors[1] * factors[3], factors[1] * factors[4],
                        factors[2] * factors[3], factors[2] * factors[4]>>,
       halves |-> IF ~r.at[4].valid THEN r.halves
                  ELSE <<r.parts[1] + r.parts[2] * 2^cut, r.parts[3] + r.parts[4] * 2^cut>>,
       pm |-> IF r.at[5].valid THEN r.halves[1] + r.halves[2] * 2^dw ELSE r.pm,
       ssq |-> IF begins THEN FirstSum(j)
               ELSE IF squared THEN Low(r.ssq + r.sqr, p.rsqrt.in_width) ELSE r.ssq,
       rs_go |-> squared /\ r.at[3].last, rs_vin |-> r.st = "root" /\ r.rs_go,
       rs |-> rsqrt(p.rsqrt, r.rs, [x |-> r.ssq, valid_in |-> r.rs_vin]),
       rs_m |-> IF again THEN r.rs.y ELSE r.rs_m, rs_e |-> IF again THEN r.rs.e ELSE r.rs_e,
       st |-> CASE begins -> "squares" [] squared /\ r.at[3].last -> "root"
                [] again -> "scale" [] ends -> "idle" [] OTHER -> r.st,
       rq_vin |-> sends,
       rq_acc |-> IF sends THEN Wrap(Sra(r.pm, r.rs_e + p.norm_shift), p.acc_width) ELSE r.rq_acc,
       rq_idx |-> IF sends THEN r.at[6].i ELSE r.rq_idx,
       rq |-> requant(p.requant, r.rq, [acc_in |-> r.rq_acc, scale |-> j.scale,
                                        shift |-> j.shift, valid_in |-> r.rq_vin]),
       idx_pipe |-> Shifted(r.idx_pipe, r.rq_idx),
       ocnt |-> IF begins THEN 0 ELSE IF answers THEN r.ocnt + 1 ELSE r.ocnt,
       busy |-> begins \/ (r.busy /\ ~ends),
       out |-> Answer(r.out, answers, ResultIndex(r), r.rq.q_out)]

rmsnorm_golden(p, j) ==
  LET me == rsqrt_golden(j.eps + Total([i \in DOMAIN j.x |-> j.x[i] * j.x[i]]), p.rsqrt)
  IN  Requantized([i \in DOMAIN j.x |->
                     Sra(j.x[i] * j.g[i] * me[1], me[2] + p.norm_shift)],
                  j.scale, j.shift, p.data_width)
=============================================================================
