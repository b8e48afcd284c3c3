---------------------------- MODULE MCBlockBench ----------------------------
EXTENDS BlockBench

\* The code's sizes, scaled: every structure a width decides is still there.
TheSizes == [exp_frac |-> 4, score_frac |-> 2, table_width |-> 5, table_bits |-> 2,
             scale_width |-> 4, score_guard |-> 1, headroom |-> 2, turn_bits |-> 3,
             bank |-> 4, tile |-> 8, one_multiply |-> 4, acc_slice |-> 10, wide_add |-> 14,
             whole_acc |-> 10, most_terms |-> 4096, row |-> 256]

\* round(sin(2 pi k / 8) * 2^frac): the table of eight entries a turn.
sines(frac) ==
  LET one == 2^frac
      diagonal == CHOOSE m \in (one \div 2)..one : (2 * m - 1) * (2 * m - 1) <= 2 * one * one
                                                    /\ 2 * one * one < (2 * m + 1) * (2 * m + 1)
  IN  <<0, diagonal, one, diagonal, 0, -diagonal, -one, -diagonal>>

\* One description on each side of every width that changes a structure.
narrow == [weight_bits |-> 4, activation_bits |-> 4, d_model |-> 4, d_ff |-> 3, n_head |-> 1,
           seq_len |-> 4, freqs |-> <<20, 6>>, sines |-> sines(10), lanes |-> 2, per_column |-> FALSE]
wide == [narrow EXCEPT !.activation_bits = 5, !.sines = sines(11), !.per_column = TRUE]
TheModels == {narrow, wide}
TheEndpoints == {[link |-> 1, option |-> o] : o \in 0..3}

\* A character model; a model of two layers, two query heads over one
\* key/value head.  The constants keep values inside their width.
chars == [narrow EXCEPT !.seq_len = 3] @@
  [vocab |-> 5, shift_s |-> 2,
   k |-> [emb |-> <<5, 6, 3>>, n1 |-> <<13, 4>>, q |-> <<13, 6>>, k |-> <<11, 6>>, v |-> <<13, 6>>,
          ctx |-> <<9, 7>>, a |-> <<13, 6>>, r1 |-> <<7, 6, 3>>, n2 |-> <<13, 4>>, h |-> <<13, 6>>,
          m |-> <<13, 6>>, r2 |-> <<7, 6, 3>>, lg |-> <<13, 6>>]]
layer == [n1 |-> <<13, 4>>, q |-> <<13, 6>>, k |-> <<11, 6>>, v |-> <<13, 6>>, ctx |-> <<9, 7>>,
          a |-> <<13, 6>>, r1 |-> <<7, 6, 3>>, n2 |-> <<13, 4>>, g |-> <<13, 6>>, u |-> <<13, 6>>,
          m |-> <<9, 7>>, dn |-> <<13, 6>>, r2 |-> <<7, 6, 3>>]
tiny_qwen == [narrow EXCEPT !.seq_len = 3, !.n_head = 2] @@
  [vocab |-> 5, head_dim |-> 4, n_kv_head |-> 1, n_layer |-> 2, shift_s |-> <<2, 3>>,
   gshift |-> <<2, 1>>, nf |-> <<13, 4>>, lg |-> <<13, 6>>, k |-> <<layer, layer>>]
\* On its board, a letter a token and eight edges a bit.
on_board == tiny_qwen @@ [chars |-> <<32, 97, 99, 101, 116>>, div |-> 8]

\* Whole models of two layers whose head is two chunks: a Qwen2.5's one
\* key/value head on two of three boards, the second too small; a Qwen3's two
\* on two boards, evenly and with a slow first one, which gets a quarter of
\* the MLP and no chunk.
full_layer == [n1 |-> <<13, 4>>, n2 |-> <<11, 4>>, qn |-> <<13, 4>>, kn |-> <<11, 4>>, ctx |-> <<9, 7>>,
               r1 |-> <<7, 6, 3>>, r2 |-> <<5, 4, 3>>, shs |-> 2, gsh |-> 2, m |-> <<9, 7>>]
board == [cap |-> 4000, lanes |-> 2, cycle |-> 1, byte |-> 0]
whole_qwen2 == [narrow EXCEPT !.n_head = 2, !.d_ff = 8, !.per_column = TRUE] @@
  [vocab |-> 12, head_dim |-> 4, n_kv_head |-> 1, n_layer |-> 2, nf |-> <<13, 4>>, qkn |-> FALSE,
   lc |-> <<full_layer, [full_layer EXCEPT !.shs = 3, !.gsh = -1]>>,
   boards |-> <<[board EXCEPT !.cap = 900], [board EXCEPT !.cap = 100], board>>, mode |-> "balanced"]
whole_qwen3 == [whole_qwen2 EXCEPT !.n_kv_head = 2, !.qkn = TRUE,
                                   !.boards = <<board, board>>, !.mode = "even"]
uneven == [whole_qwen3 EXCEPT !.n_layer = 1, !.mode = "balanced",
                              !.boards = <<[board EXCEPT !.cycle = 4], board>>]
TheCheckpoints == {<<"decoder", chars>>, <<"qwen", tiny_qwen>>, <<"board", on_board>>, <<"full", whole_qwen2>>,
                   <<"stages", whole_qwen2>>, <<"ranks", whole_qwen3>>, <<"ranks", uneven>>}

\* Under a LET, which TLC's coverage does not unfold use by use.
TheBench == LET made == Tables IN made

---------------------------------------------------------------------------
\* The planner on every chain of three boards that hold from no layer to two
\* and the table, at two speeds; and on every pair or three of two widths.

planned == [D |-> 8, F |-> 16, H |-> 4, KV |-> 4, hd |-> 4, NL |-> 3, V |-> 40, qkn |-> TRUE, L |-> 4]
bytes == shape_bytes(planned)
Caps == {bytes.layer - 1, bytes.layer, bytes.layer + bytes.tied, 2 * bytes.layer + bytes.tied}
Triples(caps, lanes) ==
  [1..3 -> [cap : caps, lanes : lanes, cycle : {1, 2}, byte : {0}]]
Plans == {<<bds, plan(bds, planned, mode, 2)>> : bds \in Triples(Caps, {2}), mode \in {"balanced", "fast"}}
Occupied(s) == Len(s.layers) * bytes.layer + IF s.emb \/ s.head THEN bytes.tied ELSE 0

\* Each layer is on one board, in order, and no board has more than it was
\* planned for; where the boards hold enough there is a plan.
ASSUME PlansWhole ==
  \A bp \in Plans :
    LET limit == limits(bp[1], planned)
        where(bd) == CHOOSE j \in DOMAIN limit : usable(bp[1], planned)[j] = bd
    IN  /\ FlattenSeq([k \in DOMAIN bp[2] |-> bp[2][k].layers])
             = IF Total(limit) < planned.NL THEN <<>> ELSE [l \in 1..planned.NL |-> l]
        /\ \A k \in DOMAIN bp[2] : Len(bp[2][k].layers) <= limit[where(bp[2][k].bd)]

\* Yet a stage may not fit its board: room for the table is left on the first
\* and the last board, and these may get no layer.
ASSUME PlansOverfill == \E bp \in Plans : \E k \in DOMAIN bp[2] : Occupied(bp[2][k]) > bp[1][bp[2][k].bd].cap

\* Every head, every column and every chunk has one rank, and every rank has
\* some of each matrix.
ASSUME SharesWhole ==
  \A bds \in {SubSeq(t, 1, n) : t \in Triples({1}, {2, 4}), n \in 2..3} : Splittable(bds, planned) =>
    LET s == tp_plan(bds, planned, 2)
        first(i) == IF i = 1 THEN 0 ELSE s.hk[i - 1][2] + 1
    IN  /\ Total(s.kv) = planned.KV /\ Total(s.f) = planned.F /\ Total(s.d) = planned.D
        /\ \A i \in DOMAIN bds : /\ s.kv[i] > 0 /\ s.f[i] > 0 /\ s.d[i] > 0
                                 /\ s.f[i] % bds[i].lanes = 0 /\ s.d[i] % bds[i].lanes = 0
                                 /\ s.hk[i][1] = first(i) /\ s.hk[i][2] >= first(i) - 1
        /\ s.hk[Len(bds)][2] = nlast(planned)
=============================================================================
