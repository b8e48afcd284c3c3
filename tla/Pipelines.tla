------------------------------ MODULE Pipelines ------------------------------
(***************************************************************************)
(* The blocks that take an operand every cycle and answer a fixed number   *)
(* of cycles later.  For each: the registers after reset, the registers    *)
(* after a clock edge with the ports at in, and the value the answer must  *)
(* have, as the reference model in Python computes it.                     *)
(***************************************************************************)
EXTENDS BlockSpecs

---------------------------------------------------------------------------
\* The multiply-accumulate unit.

mac_reset(p) == [lo |-> 0, hi |-> 0, prod |-> 0, vpipe |-> FALSE, vpipe2 |-> FALSE,
                 acc |-> 0, valid_out |-> FALSE]

\* A multiply past one stage is two half-width products, added a stage later.
Split(p) == p.pipeline_stages = 3
Arrived_Early(p, r) == r.vpipe  \* mutant: the flag of the one-stage multiply
Arrived(p, r) == IF Split(p) THEN r.vpipe2 ELSE r.vpipe

mac(p, r, in) ==
  LET dw == p.data_width
      h == dw \div 2
      split == Split(p)
      arrived == Arrived(p, r)
  IN  [lo |-> IF split THEN in.a * Bits(in.b, h - 1, 0) ELSE 0,
       hi |-> IF split THEN in.a * Sra(in.b, h) ELSE 0,
       prod |-> Wrap(IF split THEN r.lo + r.hi * 2^h ELSE in.a * in.b, 2 * dw),
       vpipe |-> in.valid_in, vpipe2 |-> split /\ r.vpipe,
       acc |-> CASE in.clear -> 0
                 [] ~in.clear /\ arrived -> Wrap(r.acc + r.prod, p.acc_width)
                 [] OTHER -> r.acc,
       valid_out |-> ~in.clear /\ arrived]

---------------------------------------------------------------------------
\* The requantizer: products of slices, a tree of adders over them, the
\* rounding add, the shift, the clamp.  The structure follows the widths.

Slices(w, n) == [i \in 1..n |-> <<((i - 1) * w) \div n, (i * w) \div n - 1>>]
Width(p) == p.acc_width + p.scale_width

\* Every product of a slice of the accumulator, the top one signed, and one
\* of the scale, at its weight.
Products(p, acc, scale) ==
  LET A == Slices(p.acc_width, p.acc_slices)
      S == Slices(p.scale_width, p.scale_splits)
      Part(i) == IF i = p.acc_slices THEN Sra(acc, A[i][1]) ELSE Bits(acc, A[i][2], A[i][1])
  IN  [t \in 1..(p.acc_slices * p.scale_splits) |->
         LET i == ((t - 1) \div p.scale_splits) + 1
             j == ((t - 1) % p.scale_splits) + 1
         IN  Wrap(Part(i) * Bits(scale, S[j][2], S[j][1]) * 2^(A[i][1] + S[j][1]), Width(p))]

\* An adder's registers: the sum, or the halves with the carry and then the
\* sum.  An odd term goes past the adders through as many registers.
Adder(p) == IF p.per_add = 1 THEN <<0>> ELSE <<<<0, 0, 0>>, 0>>
Past(p) == Chain(p.per_add, 0)

Adds(p, regs, x, y) ==
  LET w == Width(p)
      half == w \div 2
      high == Sra(regs[1][2], half) + Sra(regs[1][3], half) + Sra(regs[1][1], half)
  IN  IF p.per_add = 1 THEN <<Wrap(x + y, w)>>
      ELSE <<<<Low(x, half) + Low(y, half), x, y>>,
             Wrap(high * 2^half + Low(regs[1][1], half), w)>>

\* A level of the tree, over what the level before it holds.
Level(p, regs, from) ==
  [i \in DOMAIN regs |->
     IF 2 * i <= Len(from) THEN Adds(p, regs[i], from[2 * i - 1], from[2 * i])
                           ELSE Shifted(regs[i], Last(from))]
Ends(level) == [i \in DOMAIN level |-> Last(level[i])]

Levels(p) == CeilLog2(p.acc_slices * p.scale_splits)
TreeDepth(p) == Levels(p) * p.per_add

requant_reset(p) ==
  [pp |-> Chain(p.acc_slices * p.scale_splits, 0),
   tree |-> [k \in 1..Levels(p) |->
               LET before == CeilDiv(p.acc_slices * p.scale_splits, 2^(k - 1))
               IN  [i \in 1..CeilDiv(before, 2) |->
                      IF 2 * i <= before THEN Adder(p) ELSE Past(p)]],
   summed |-> Adder(p), shifted |-> 0,
   hf |-> Chain(1 + TreeDepth(p), 0), sh |-> Chain(1 + TreeDepth(p) + p.per_add, 0),
   v |-> Chain(p.pipeline_stages - 1, FALSE),
   q_out |-> 0, sat |-> FALSE, valid_out |-> FALSE]

\* The rounding constant and the shift travel with the product.
requant(p, r, in) ==
  LET from == [k \in 1..(Levels(p) + 1) |-> IF k = 1 THEN r.pp ELSE Ends(r.tree[k - 1])]
      q == Clamp(r.shifted, p.out_width)
  IN  [pp |-> Products(p, in.acc_in, in.scale),
       tree |-> [k \in 1..Levels(p) |-> Level(p, r.tree[k], from[k])],
       summed |-> Adds(p, r.summed, from[Levels(p) + 1][1], Last(r.hf)),
       shifted |-> Sra(Last(r.summed), Last(r.sh)),
       hf |-> Shifted(r.hf, Wrap(Half(in.shift), Width(p))),
       sh |-> Shifted(r.sh, in.shift),
       v |-> Shifted(r.v, in.valid_in),
       q_out |-> q, sat |-> q # r.shifted, valid_out |-> Last(r.v)]

requant_golden(acc, scale, sh, out_width) ==
  LET v == _round_shift(acc * scale, sh)
  IN  <<Clamp(v, out_width), Clamp(v, out_width) # v>>

---------------------------------------------------------------------------
\* The exponential of a number that is not positive: 2 to the x log2(e).

LOG2E_Q16 == 94548

\* round(2^(i/n) * 2^frac), the n entries of the table between 1 and 2.
exp_lut ==
  LET n == 2^Sizes.score_frac
      one == 2^Sizes.exp_frac
  IN  [i \in 1..n |-> CHOOSE m \in one .. 2 * one :
         /\ (2 * m - 1)^n <= (2 * one)^n * 2^(i - 1)
         /\ (2 * one)^n * 2^(i - 1) < (2 * m + 1)^n]

expu_reset(p) == [t |-> 0, m |-> 0, sh |-> 0, vpipe |-> FALSE, vpipe2 |-> FALSE,
                  y |-> 0, valid_out |-> FALSE]

\* The fraction finds the table entry, the whole part shifts it right; a
\* shift past the format empties it.
expu(p, r, in) ==
  [t |-> Sra(in.x * LOG2E_Q16, 16),
   m |-> Read(exp_lut, Low(r.t, p.in_frac)),
   sh |-> Low(AtMost(-Sra(r.t, p.in_frac), p.out_frac + 1), AtLeast(bit_length(p.in_width + 18), 4)),
   y |-> Sra(r.m, r.sh),
   vpipe |-> in.valid_in, vpipe2 |-> r.vpipe, valid_out |-> r.vpipe2]

exp_golden(x, p) ==
  LET t == Sra(x * LOG2E_Q16, 16)
      n == Sra(t, p.in_frac)
  IN  IF -n > p.out_frac THEN 0
      ELSE Sra(Read(exp_lut, t - n * 2^p.in_frac), -n)

---------------------------------------------------------------------------
\* The reciprocal: a mantissa from a table and the shift that goes with it.

\* round(2^width / (1 + i/n)), at most a full word.
recip_lut ==
  LET n == 2^Sizes.table_bits
      one == 2^Sizes.table_width
  IN  [i \in 1..n |-> AtMost((2 * one * n + n + i - 1) \div (2 * (n + i - 1)), one - 1)]

recip_reset(p) == [xn |-> 0, k1 |-> 0, vpipe |-> FALSE, m |-> 0, k2 |-> 0,
                   vpipe2 |-> FALSE, y |-> 0, k |-> 0, valid_out |-> FALSE]

\* Leading zeros are shifted out, and the bits below the first one look up.
recip(p, r, in) ==
  LET lzc == p.in_width - bit_length(in.x)
  IN  [xn |-> Low(in.x * 2^lzc, p.in_width), k1 |-> lzc, vpipe |-> in.valid_in,
       m |-> Read(recip_lut, Bits(r.xn, p.in_width - 2, p.in_width - 1 - p.lut_bits)),
       k2 |-> r.k1, vpipe2 |-> r.vpipe,
       y |-> r.m, k |-> r.k2, valid_out |-> r.vpipe2]

recip_golden(x, p) ==
  LET k == p.in_width - bit_length(x)
  IN  IF x <= 0 THEN <<2^p.out_width - 1, 0>>
      ELSE <<Read(recip_lut, Low(Sra(x * 2^k, p.in_width - 1 - p.lut_bits), p.lut_bits)), k>>

recip_apply(num, m, k, p) == Sra(num * m, p.shift_bias - k)

---------------------------------------------------------------------------
\* The inverse square root: normalised by an even shift, half the exponent.

rsqrt_lut ==
  LET lo == 2^(Sizes.table_bits - 2)
      one == 2^Sizes.table_width
  IN  [i \in 1..2^Sizes.table_bits |->
         IF i - 1 < lo THEN one - 1
         ELSE AtMost(CHOOSE m \in 1..one : /\ (2 * m - 1)^2 * (i - 1) <= 4 * one^2 * lo
                                           /\ 4 * one^2 * lo < (2 * m + 1)^2 * (i - 1),
                     one - 1)]

rsqrt_reset(p) == [xn |-> 0, e1 |-> 0, vpipe |-> FALSE, m |-> 0, e2 |-> 0,
                   vpipe2 |-> FALSE, y |-> 0, e |-> 0, valid_out |-> FALSE]

rsqrt(p, r, in) ==
  LET e == AtLeast(bit_length(in.x) - 1, 0) \div 2
  IN  [xn |-> Low(in.x * 2^(p.in_width - 2 - 2 * e), p.in_width), e1 |-> e,
       vpipe |-> in.valid_in,
       m |-> Read(rsqrt_lut, Bits(r.xn, p.in_width - 1, p.in_width - p.lut_bits)),
       e2 |-> r.e1, vpipe2 |-> r.vpipe,
       y |-> r.m, e |-> r.e2, valid_out |-> r.vpipe2]

rsqrt_golden(x, p) ==
  LET e == (bit_length(x) - 1) \div 2
      xn == x * 2^(p.in_width - 2 - 2 * e)
  IN  IF x <= 0 THEN <<2^p.out_width - 1, 0>>
      ELSE <<Read(rsqrt_lut, Low(Sra(xn, p.in_width - p.lut_bits), p.lut_bits)), e>>

---------------------------------------------------------------------------
\* SiLU, x times its sigmoid: 1 / (1 + e) for x >= 0 and e / (1 + e) below,
\* with e the exponential of -|x|.  x, its sign and e keep beside the value.

silu_reset(p) ==
  LET es == p.exp.pipeline_stages
      rs == p.recip.pipeline_stages
  IN  [na |-> 0, v0 |-> FALSE, neg0 |-> FALSE, x0 |-> 0, ex |-> expu_reset(p.exp),
       xe |-> Chain(es, 0), nege |-> Chain(es, FALSE),
       vd |-> FALSE, dd |-> 0, ed |-> 0, xd |-> 0, negd |-> FALSE,
       rc |-> recip_reset(p.recip),
       e_r |-> Chain(rs, 0), x_r |-> Chain(rs, 0), neg_r |-> Chain(rs, FALSE),
       v1 |-> FALSE, k1 |-> 0, x1 |-> 0, prod |-> 0,
       v2 |-> FALSE, x2 |-> 0, sig |-> 0, y |-> 0, valid_out |-> FALSE]

Numerator_SignAhead(r, one) ==  \* mutant: the sign does not wait for the reciprocal
  IF r.negd THEN Last(r.e_r) ELSE one
Numerator(r, one) == IF Last(r.neg_r) THEN Last(r.e_r) ELSE one

silu(p, r, in) ==
  LET one == 2^p.weight_frac
      most == 2^(p.width - 1) - 1
  IN  [v0 |-> in.valid_in, x0 |-> in.x, neg0 |-> in.x < 0,
       na |-> -AtMost(Absolute(in.x), most),
       ex |-> expu(p.exp, r.ex, [x |-> r.na, valid_in |-> r.v0]),
       xe |-> Shifted(r.xe, r.x0), nege |-> Shifted(r.nege, r.neg0),
       vd |-> r.ex.valid_out, dd |-> one + r.ex.y, ed |-> r.ex.y,
       xd |-> Last(r.xe), negd |-> Last(r.nege),
       rc |-> recip(p.recip, r.rc, [x |-> r.dd, valid_in |-> r.vd]),
       e_r |-> Shifted(r.e_r, r.ed), x_r |-> Shifted(r.x_r, r.xd),
       neg_r |-> Shifted(r.neg_r, r.negd),
       v1 |-> r.rc.valid_out, k1 |-> r.rc.k, x1 |-> Last(r.x_r),
       prod |-> Numerator(r, one) * r.rc.y,
       v2 |-> r.v1, x2 |-> r.x1,
       sig |-> AtMost(Sra(r.prod, p.recip.shift_bias - p.weight_frac - r.k1), one),
       y |-> Wrap(Sra(r.x2 * r.sig, p.weight_frac), p.width), valid_out |-> r.v2]

silu_golden(x, p) ==
  LET one == 2^p.weight_frac
      e == exp_golden(-AtMost(Absolute(x), 2^(p.width - 1) - 1), p.exp)
      mk == recip_golden(one + e, p.recip)
      num == IF x >= 0 THEN one ELSE e
      sig == AtMost(recip_apply(num * one, mk[1], mk[2], p.recip), one)
  IN  Sra(x * sig, p.weight_frac)

---------------------------------------------------------------------------
\* Rotary position embedding: a pair turns by its position times its
\* frequency, an angle in turns of phase_bits, modulo one turn.

\* The nearest entry to a phase, and the sine and cosine there.
Entry(p, phase) == Bits(phase + 2^(p.phase_bits - p.lut_bits - 1),
                        p.phase_bits - 1, p.phase_bits - p.lut_bits)
Sine(p, k) == Read(p.sines, k)
Cosine(p, k) == Sine(p, Low(k + 2^(p.lut_bits - 2), p.lut_bits))

rope_reset(p) ==
  [ph0 |-> 0, a0 |-> 0, b0 |-> 0, v0 |-> FALSE, s1 |-> 0, c1 |-> 0, a1 |-> 0, b1 |-> 0,
   v1 |-> FALSE, halves |-> Chain(4, <<0, 0>>), v2a |-> FALSE,
   products |-> Chain(4, 0), v2 |-> FALSE, y1 |-> 0, y2 |-> 0, valid_out |-> FALSE]

\* x cos, y sin, y cos, x sin; past one multiply each in two halves first.
Factors(r) == <<<<r.a1, r.c1>>, <<r.b1, r.s1>>, <<r.b1, r.c1>>, <<r.a1, r.s1>>>>
Sums(q) == <<q[1] - q[2], q[3] + q[4]>>

rope(p, r, in) ==
  LET split == p.data_width > Sizes.one_multiply
      h == p.coef_width \div 2
      k == Entry(p, r.ph0)
      f == Factors(r)
      Rounded(v) == Clamp(Sra(v + 2^(p.coef_frac - 1), p.coef_frac), p.data_width)
  IN  [ph0 |-> Low(in.pos * p.freqs[in.idx + 1], p.phase_bits),
       a0 |-> in.x1, b0 |-> in.x2, v0 |-> in.valid_in,
       s1 |-> Sine(p, k), c1 |-> Cosine(p, k), a1 |-> r.a0, b1 |-> r.b0, v1 |-> r.v0,
       halves |-> [i \in 1..4 |-> IF split THEN <<f[i][1] * Sra(f[i][2], h), f[i][1] * Low(f[i][2], h)>>
                                           ELSE <<0, 0>>],
       v2a |-> split /\ r.v1,
       products |-> [i \in 1..4 |-> IF split THEN r.halves[i][1] * 2^h + r.halves[i][2]
                                             ELSE f[i][1] * f[i][2]],
       v2 |-> IF split THEN r.v2a ELSE r.v1,
       y1 |-> Rounded(Sums(r.products)[1]), y2 |-> Rounded(Sums(r.products)[2]),
       valid_out |-> r.v2]

rope_golden(x1, x2, i, pos, p) ==
  LET phase == Low(pos * p.freqs[i + 1], p.phase_bits)
      k == Low(Sra(phase + 2^(p.phase_bits - p.lut_bits - 1), p.phase_bits - p.lut_bits), p.lut_bits)
      s == p.sines[k + 1]
      c == p.sines[((k + 2^(p.lut_bits - 2)) % 2^p.lut_bits) + 1]
  IN  <<Clamp(_round_shift(x1 * c - x2 * s, p.coef_frac), p.data_width),
        Clamp(_round_shift(x2 * c + x1 * s, p.coef_frac), p.data_width)>>

---------------------------------------------------------------------------
\* Residual add: two operands at their own scales, rounded, shifted, clamped.
\* The scales and the shift are held for a stream.

resadd_reset(p) == [pa |-> 0, pb |-> 0, rnd_r |-> 0, v1 |-> FALSE, v |-> 0, v2 |-> FALSE,
                    y |-> 0, valid_out |-> FALSE]

resadd(p, r, in) ==
  [pa |-> in.a * in.scale_a, pb |-> in.b * in.scale_b, v1 |-> in.valid_in,
   rnd_r |-> Wrap(Half(in.shift), p.sum_width),
   v |-> Wrap(r.pa + r.pb + r.rnd_r, p.sum_width), v2 |-> r.v1,
   y |-> Clamp(Sra(r.v, in.shift), p.data_width), valid_out |-> r.v2]

resadd_golden(a, b, sa, sb, sh, dw) == Clamp(_round_shift(a * sa + b * sb, sh), dw)
---------------------------------------------------------------------------
\* The fabric endpoint's CRC32, one word of bytes a cycle, in its two forms:
\* the byte at a time ripple and one XOR of selected bits for every bit of
\* the next state.  A word is the set of its bits that are 1.


Xor(a, b) == (a \ b) \union (b \ a)
AllXor(sets) == FoldSet(LAMBDA i, acc : Xor(sets[i], acc), {}, DOMAIN sets)
Right(s, n) == {b - n : b \in {c \in s : c >= n}}
Byte(word, i) == Right({b \in word : b \div 8 = i}, 8 * i)

\* 0xEDB88320, and 32 ones.
POLY == {5, 8, 9, 15, 19, 20, 21, 23, 24, 26, 27, 29, 30, 31}
ONES == 0..31

\* Eight times: out goes the low bit, and in comes the polynomial if it was 1.
bit_step(s) == IF 0 \in s THEN Xor(Right(s, 1), POLY) ELSE Right(s, 1)
byte_step(s) ==
  LET out[k \in 0..8] == IF k = 0 THEN s ELSE bit_step(out[k - 1]) IN out[8]
word_step(w, s, data) ==
  LET after[i \in 0..w] == IF i = 0 THEN s ELSE byte_step(Xor(after[i - 1], Byte(data, i - 1)))
  IN  after[w]

\* What each state bit, and each data bit, alone becomes.
crc_matrix(w) == [a |-> [j \in 0..31 |-> word_step(w, {j}, {})],
                  b |-> [k \in 0..(8 * w - 1) |-> word_step(w, {}, {k})]]
matrix_step(m, s, data) ==
  {i \in 0..31 : (Cardinality({j \in s : i \in m.a[j]}) +
                  Cardinality({k \in data : i \in m.b[k]})) % 2 = 1}

\* The widths a link rate is offered, each with its clock in kHz; all as a
\* ripple first, then all in the flat form.
ETH_RATES == <<1, 10, 25, 100>>
ETH_DATAPATHS == <<<<<<1, 125000>>, <<2, 62500>>>>, <<<<8, 156250>>, <<16, 78125>>>>,
                   <<<<16, 195312>>, <<32, 97656>>>>, <<<<64, 195312>>, <<128, 97656>>>>>>
CRC_ARCHS == <<"serial", "matrix">>

endpoint_options(link) ==
  LET enough == {i \in DOMAIN ETH_RATES : ETH_RATES[i] >= link}
      base == ETH_DATAPATHS[IF enough = {} THEN Len(ETH_RATES) ELSE Min(enough)]
  IN  [i \in 1..(2 * Len(base)) |->
         LET k == ((i - 1) % Len(base)) + 1
         IN  [bytes_per_cycle |-> base[k][1], clock |-> base[k][2],
              architecture |-> CRC_ARCHS[(i - 1) \div Len(base) + 1]]]

derive_endpoint_spec(link, option) ==
  LET options == endpoint_options(link)
      o == options[AtMost(option + 1, Len(options))]
  IN  [bytes_per_cycle |-> o.bytes_per_cycle, clock |-> o.clock, architecture |-> o.architecture,
       pipeline_stages |-> 1, matrix |-> crc_matrix(o.bytes_per_cycle)]

crc_reset(p) == [state |-> ONES, crc_out |-> {}, valid_out |-> FALSE]

Inverted(s) == Xor(s, ONES)
crc(p, r, in) ==
  LET nxt == IF p.architecture = "matrix" THEN matrix_step(p.matrix, r.state, in.data)
                                          ELSE word_step(p.bytes_per_cycle, r.state, in.data)
  IN  CASE in.clear -> [r EXCEPT !.state = ONES, !.valid_out = FALSE]
        [] ~in.clear /\ in.valid_in -> [state |-> nxt, crc_out |-> Inverted(nxt), valid_out |-> TRUE]
        [] OTHER -> [r EXCEPT !.valid_out = FALSE]

\* zlib's way with the bytes of a frame: one table entry for each byte.
crc_table == [b \in 0..7 |-> byte_step({b})]
crc32_bytes(s, bytes) ==
  LET low(t) == {b \in t : b < 8}
      after[i \in 0..Len(bytes)] ==
        IF i = 0 THEN s
        ELSE LET x == Xor(low(after[i - 1]), bytes[i])
             IN  Xor(Right(after[i - 1], 8), AllXor([b \in x |-> crc_table[b]]))
  IN  after[Len(bytes)]
=============================================================================
