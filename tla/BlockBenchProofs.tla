--------------------------- MODULE BlockBenchProofs ---------------------------
(***************************************************************************)
(* The pipelined blocks on their bench, for every model and endpoint whose *)
(* description satisfies the assumptions of BlockBench: any widths, any    *)
(* number of weights, any samples, gaps, clears and resets.                *)
(*                                                                         *)
(* Two invariants.  LineInv: the flags in a block's registers are those of *)
(* the line of what has entered it, place by place; so a sample is flagged *)
(* after the latency its description states (FixedLatency).  DataInv: the  *)
(* registers a sample has reached hold what the reference model would have *)
(* at that point, whatever is before and behind it; so what the block      *)
(* answers is the reference model's (BitExact).  The second needs, for     *)
(* each block, why its integer steps compute the reference model's value:  *)
(* that no register is too narrow, that a shift right divides, that a      *)
(* split product or a tree of partial sums is the whole one, and that the  *)
(* endpoint's matrix is zlib's table, a word at a time.                    *)
(***************************************************************************)
EXTENDS BlockBench, PipelineProofs


-----------------------------------------------------------------------------
(* What has entered a pipeline, and its flags.                             *)

\* What a place of the line may hold: no sample, or one.
Slots(u, p) == {<<>>} \union {<<x>> : x \in Ports(u, p)}

-----------------------------------------------------------------------------
(* The flags a sample carries through each pipeline, in their order.       *)

Flags(u, p, s) ==
  CASE u = "mac" -> IF Split(p) THEN <<s.vpipe, s.vpipe2, s.valid_out>> ELSE <<s.vpipe, s.valid_out>>
    [] u = "requant" -> [i \in 1..p.pipeline_stages |->
                           IF i = p.pipeline_stages THEN s.valid_out ELSE s.v[i]]
    [] u \in {"expu", "recip", "rsqrt"} -> <<s.vpipe, s.vpipe2, s.valid_out>>
    [] u = "silu" -> <<s.v0, s.ex.vpipe, s.ex.vpipe2, s.ex.valid_out, s.vd,
                       s.rc.vpipe, s.rc.vpipe2, s.rc.valid_out, s.v1, s.v2, s.valid_out>>
    [] u = "rope" -> IF p.data_width > Sizes.one_multiply
                     THEN <<s.v0, s.v1, s.v2a, s.v2, s.valid_out>>
                     ELSE <<s.v0, s.v1, s.v2, s.valid_out>>
    [] u = "resadd" -> <<s.v1, s.v2, s.valid_out>>
    [] u = "crc" -> <<s.valid_out>>

\* A unit's registers after an edge, and what its answer ports show.
AfterEdge(u, p, s, in) ==
  CASE u = "mac" -> mac(p, s, in)     [] u = "requant" -> requant(p, s, in)
    [] u = "expu" -> expu(p, s, in)   [] u = "recip" -> recip(p, s, in)
    [] u = "rsqrt" -> rsqrt(p, s, in) [] u = "silu" -> silu(p, s, in)
    [] u = "rope" -> rope(p, s, in)   [] u = "resadd" -> resadd(p, s, in)
    [] u = "crc" -> crc(p, s, in)

\* Every flag moves on, the first is the sample's, and a clear empties the last.
FlagsAfter(u, p, s, in) ==
  \A i \in 1..Latency(u, p) :
    Flags(u, p, AfterEdge(u, p, s, in))[i] =
      IF in.clear /\ i = Latency(u, p) THEN FALSE
      ELSE IF i = 1 THEN in.valid_in ELSE Flags(u, p, s)[i - 1]

LEMMA TableFlags ==
  ASSUME NEW u \in {"expu", "recip", "rsqrt"}, NEW p, NEW s, NEW in, p.pipeline_stages = 3, in.clear = FALSE
  PROVE  FlagsAfter(u, p, s, in)
<1>1. Latency(u, p) = 3 BY DEF Latency
<1> DEFINE q == AfterEdge(u, p, s, in)
<1>2. q.vpipe = in.valid_in /\ q.vpipe2 = s.vpipe /\ q.valid_out = s.vpipe2
  <2>1. CASE u = "expu" BY <2>1 DEF AfterEdge, expu
  <2>2. CASE u = "recip" BY <2>2 DEF AfterEdge, recip
  <2>3. CASE u = "rsqrt" BY <2>3 DEF AfterEdge, rsqrt
  <2> QED BY <2>1, <2>2, <2>3
<1>3. Flags(u, p, q) = <<q.vpipe, q.vpipe2, q.valid_out>>
  /\ Flags(u, p, s) = <<s.vpipe, s.vpipe2, s.valid_out>>
  BY DEF Flags
<1> HIDE DEF q
<1> DEFINE a == in.valid_in
           b == s.vpipe
           c == s.vpipe2
           d == s.valid_out
<1>4. Flags(u, p, q) = <<a, b, c>> /\ Flags(u, p, s) = <<b, c, d>> BY <1>2, <1>3
<1> HIDE DEF a, b, c, d
<1>5. \A i \in 1..3 : Flags(u, p, q)[i] = IF i = 1 THEN a ELSE Flags(u, p, s)[i - 1] BY <1>4
<1> QED BY <1>1, <1>5 DEF FlagsAfter, q, a

LEMMA MacFlags ==
  ASSUME NEW p, NEW s, NEW in, p.pipeline_stages \in {2, 3}, in.clear \in BOOLEAN,
         \A i \in 1..p.pipeline_stages : Flags("mac", p, s)[i] \in BOOLEAN, in.valid_in \in BOOLEAN
  PROVE  FlagsAfter("mac", p, s, in)
<1> DEFINE q == mac(p, s, in)
           a == in.valid_in
           k == in.clear
           b == s.vpipe
           c == s.vpipe2
           d == s.valid_out
           no == FALSE
<1>1. Latency("mac", p) = p.pipeline_stages /\ AfterEdge("mac", p, s, in) = q BY DEF Latency, AfterEdge
<1>2. CASE p.pipeline_stages = 2
  <2>1. ~Split(p) BY <1>2 DEF Split
  <2>2. Flags("mac", p, s) = <<b, d>> BY <2>1 DEF Flags
  <2>3. Flags("mac", p, q) = <<q.vpipe, q.valid_out>> BY <2>1 DEF Flags
  <2>4. q.vpipe = a /\ q.valid_out = (~k /\ b) BY <2>1 DEF mac, Arrived
  <2> HIDE DEF q, a, b, d, k
  <2>5. b \in BOOLEAN
    <3>1. 1 \in 1..p.pipeline_stages BY <1>2
    <3> QED BY <3>1, <2>2
  <2>6. k \in BOOLEAN /\ a \in BOOLEAN BY DEF k, a
  <2> DEFINE z == ~k /\ b
  <2>9. z = IF k THEN no ELSE b BY <2>5, <2>6
  <2>7. Flags("mac", p, q) = <<a, z>> BY <2>3, <2>4
  <2> HIDE DEF z, no
  <2>8. \A i \in 1..2 : Flags("mac", p, q)[i] = IF k /\ i = 2 THEN no ELSE IF i = 1 THEN a ELSE Flags("mac", p, s)[i - 1]
    <3>1. CASE k BY <3>1, <2>2, <2>7, <2>9
    <3>2. CASE ~k BY <3>2, <2>2, <2>7, <2>9
    <3> QED BY <3>1, <3>2
  <2> QED BY <1>1, <1>2, <2>8 DEF FlagsAfter, a, k, no
<1>3. CASE p.pipeline_stages = 3
  <2>1. Split(p) BY <1>3 DEF Split
  <2>2. Flags("mac", p, s) = <<b, c, d>> BY <2>1 DEF Flags
  <2>3. Flags("mac", p, q) = <<q.vpipe, q.vpipe2, q.valid_out>> BY <2>1 DEF Flags
  <2>4. q.vpipe = a /\ q.vpipe2 = (Split(p) /\ b) /\ q.valid_out = (~k /\ c) BY <2>1 DEF mac, Arrived
  <2> HIDE DEF q, a, b, c, d, k
  <2>5. b \in BOOLEAN /\ c \in BOOLEAN
    <3>1. 1 \in 1..p.pipeline_stages /\ 2 \in 1..p.pipeline_stages BY <1>3
    <3> QED BY <3>1, <2>2
  <2>6. k \in BOOLEAN /\ a \in BOOLEAN BY DEF k, a
  <2>7. q.vpipe2 = b BY <2>1, <2>4, <2>5
  <2> DEFINE z == ~k /\ c
  <2>10. z = IF k THEN no ELSE c BY <2>5, <2>6
  <2>9. Flags("mac", p, q) = <<a, b, z>> BY <2>3, <2>4, <2>7
  <2> HIDE DEF z, no
  <2>8. \A i \in 1..3 : Flags("mac", p, q)[i] = IF k /\ i = 3 THEN no ELSE IF i = 1 THEN a ELSE Flags("mac", p, s)[i - 1]
    <3>1. CASE k BY <3>1, <2>2, <2>9, <2>10
    <3>2. CASE ~k BY <3>2, <2>2, <2>9, <2>10
    <3> QED BY <3>1, <3>2
  <2> QED BY <1>1, <1>3, <2>8 DEF FlagsAfter, a, k, no
<1> QED BY <1>2, <1>3

LEMMA SiluFlags ==
  ASSUME NEW p, NEW s, NEW in, p.exp.pipeline_stages = 3, p.recip.pipeline_stages = 3, in.clear = FALSE
  PROVE  FlagsAfter("silu", p, s, in)
<1> DEFINE q == silu(p, s, in)
           a == in.valid_in
<1>1. Latency("silu", p) = 11 /\ AfterEdge("silu", p, s, in) = q BY DEF Latency, AfterEdge
<1>2. /\ q.v0 = a /\ q.vd = s.ex.valid_out /\ q.v1 = s.rc.valid_out /\ q.v2 = s.v1 /\ q.valid_out = s.v2
      /\ q.ex = expu(p.exp, s.ex, [x |-> s.na, valid_in |-> s.v0])
      /\ q.rc = recip(p.recip, s.rc, [x |-> s.dd, valid_in |-> s.vd])
  BY DEF silu
<1>3. q.ex.vpipe = s.v0 /\ q.ex.vpipe2 = s.ex.vpipe /\ q.ex.valid_out = s.ex.vpipe2 BY <1>2 DEF expu
<1>4. q.rc.vpipe = s.vd /\ q.rc.vpipe2 = s.rc.vpipe /\ q.rc.valid_out = s.rc.vpipe2 BY <1>2 DEF recip
<1>5. /\ Flags("silu", p, q) = <<q.v0, q.ex.vpipe, q.ex.vpipe2, q.ex.valid_out, q.vd,
                                 q.rc.vpipe, q.rc.vpipe2, q.rc.valid_out, q.v1, q.v2, q.valid_out>>
      /\ Flags("silu", p, s) = <<s.v0, s.ex.vpipe, s.ex.vpipe2, s.ex.valid_out, s.vd,
                                 s.rc.vpipe, s.rc.vpipe2, s.rc.valid_out, s.v1, s.v2, s.valid_out>>
  BY DEF Flags
<1> DEFINE b1 == s.v0
           b2 == s.ex.vpipe
           b3 == s.ex.vpipe2
           b4 == s.ex.valid_out
           b5 == s.vd
           b6 == s.rc.vpipe
           b7 == s.rc.vpipe2
           b8 == s.rc.valid_out
           b9 == s.v1
           b10 == s.v2
           b11 == s.valid_out
<1>6. /\ Flags("silu", p, q) = <<a, b1, b2, b3, b4, b5, b6, b7, b8, b9, b10>>
      /\ Flags("silu", p, s) = <<b1, b2, b3, b4, b5, b6, b7, b8, b9, b10, b11>>
  BY <1>2, <1>3, <1>4, <1>5
<1> HIDE DEF q, a, b1, b2, b3, b4, b5, b6, b7, b8, b9, b10, b11
<1>7. \A i \in 1..11 : Flags("silu", p, q)[i] = IF i = 1 THEN a ELSE Flags("silu", p, s)[i - 1]
  BY <1>6
<1> QED BY <1>1, <1>7 DEF FlagsAfter, a

LEMMA RopeFlags ==
  ASSUME NEW p, NEW s, NEW in, in.clear = FALSE, in.valid_in \in BOOLEAN,
         \A i \in 1..Latency("rope", p) : Flags("rope", p, s)[i] \in BOOLEAN
  PROVE  FlagsAfter("rope", p, s, in)
<1> DEFINE q == rope(p, s, in)
           a == in.valid_in
           b == s.v0
           c == s.v1
           h == s.v2a
           d == s.v2
           e == s.valid_out
<1>1. AfterEdge("rope", p, s, in) = q BY DEF AfterEdge
<1>2. CASE p.data_width > Sizes.one_multiply
  <2>0. Latency("rope", p) = 5 BY <1>2 DEF Latency
  <2>1. /\ Flags("rope", p, q) = <<q.v0, q.v1, q.v2a, q.v2, q.valid_out>>
        /\ Flags("rope", p, s) = <<b, c, h, d, e>>
    BY <1>2 DEF Flags
  <2>2. q.v0 = a /\ q.v1 = b /\ q.v2 = h /\ q.valid_out = d BY <1>2 DEF rope
  <2>3. q.v2a = (p.data_width > Sizes.one_multiply /\ c) BY DEF rope
  <2> HIDE DEF q, a, b, c, d, e, h
  <2>4. c \in BOOLEAN
    <3>1. 2 \in 1..Latency("rope", p) BY <2>0
    <3> QED BY <3>1, <2>1
  <2>5. q.v2a = c BY <1>2, <2>3, <2>4
  <2>6. Flags("rope", p, q) = <<a, b, c, h, d>> BY <2>1, <2>2, <2>5
  <2>7. \A i \in 1..5 : Flags("rope", p, q)[i] = IF i = 1 THEN a ELSE Flags("rope", p, s)[i - 1] BY <2>1, <2>6
  <2> QED BY <1>1, <2>0, <2>7 DEF FlagsAfter, a
<1>3. CASE ~(p.data_width > Sizes.one_multiply)
  <2>0. Latency("rope", p) = 4 BY <1>3 DEF Latency
  <2>1. /\ Flags("rope", p, q) = <<q.v0, q.v1, q.v2, q.valid_out>>
        /\ Flags("rope", p, s) = <<b, c, d, e>>
    BY <1>3 DEF Flags
  <2>2. q.v0 = a /\ q.v1 = b /\ q.v2 = c /\ q.valid_out = d BY <1>3 DEF rope
  <2> HIDE DEF q, a, b, c, d, e, h
  <2>6. Flags("rope", p, q) = <<a, b, c, d>> BY <2>1, <2>2
  <2>7. \A i \in 1..4 : Flags("rope", p, q)[i] = IF i = 1 THEN a ELSE Flags("rope", p, s)[i - 1] BY <2>1, <2>6
  <2> QED BY <1>1, <2>0, <2>7 DEF FlagsAfter, a
<1> QED BY <1>2, <1>3

LEMMA ResaddFlags ==
  ASSUME NEW p, NEW s, NEW in, in.clear = FALSE
  PROVE  FlagsAfter("resadd", p, s, in)
<1> DEFINE q == resadd(p, s, in)
           a == in.valid_in
           b == s.v1
           c == s.v2
           d == s.valid_out
<1>1. Latency("resadd", p) = 3 /\ AfterEdge("resadd", p, s, in) = q BY DEF Latency, AfterEdge
<1>2. q.v1 = a /\ q.v2 = b /\ q.valid_out = c BY DEF resadd
<1>3. Flags("resadd", p, q) = <<q.v1, q.v2, q.valid_out>> /\ Flags("resadd", p, s) = <<b, c, d>> BY DEF Flags
<1> HIDE DEF q, a, b, c, d
<1>4. Flags("resadd", p, q) = <<a, b, c>> BY <1>2, <1>3
<1>5. \A i \in 1..3 : Flags("resadd", p, q)[i] = IF i = 1 THEN a ELSE Flags("resadd", p, s)[i - 1] BY <1>3, <1>4
<1> QED BY <1>1, <1>5 DEF FlagsAfter, a

LEMMA CrcFlags ==
  ASSUME NEW p, NEW s, NEW in, p.pipeline_stages = 1, in.clear \in BOOLEAN, in.valid_in \in BOOLEAN,
         DOMAIN s = {"state", "crc_out", "valid_out"}
  PROVE  FlagsAfter("crc", p, s, in)
<1> DEFINE q == crc(p, s, in)
<1>1. Latency("crc", p) = 1 /\ AfterEdge("crc", p, s, in) = q BY DEF Latency, AfterEdge
<1>2. q.valid_out = (~in.clear /\ in.valid_in)
  <2>1. CASE in.clear BY <2>1 DEF crc
  <2>2. CASE ~in.clear /\ in.valid_in BY <2>2 DEF crc
  <2>3. CASE ~in.clear /\ ~in.valid_in BY <2>3 DEF crc
  <2> QED BY <2>1, <2>2, <2>3
<1>3. Flags("crc", p, q) = <<q.valid_out>> BY DEF Flags
<1> DEFINE v == q.valid_out
           no == FALSE
           a == in.valid_in
<1>5. v = IF in.clear THEN no ELSE a BY <1>2
<1>6. Flags("crc", p, q) = <<v>> BY <1>3
<1> HIDE DEF q, v, a, no
<1>4. \A i \in 1..1 : Flags("crc", p, q)[i] = IF in.clear /\ i = 1 THEN no ELSE IF i = 1 THEN a ELSE Flags("crc", p, s)[i - 1]
  <2>1. CASE in.clear BY <2>1, <1>5, <1>6
  <2>2. CASE ~in.clear BY <2>2, <1>5, <1>6
  <2> QED BY <2>1, <2>2
<1> QED BY <1>1, <1>4 DEF FlagsAfter, a, no

-----------------------------------------------------------------------------
(* The exponential.                                                        *)

LEMMA ExpuSpec ==
  ASSUME NEW m \in Models
  PROVE  LET p == derive_exp_spec(m)
         IN  /\ p.pipeline_stages = 3 /\ p.in_frac = Sizes.score_frac /\ p.out_frac = Sizes.exp_frac
             /\ p.in_frac \in Nat /\ p.out_frac \in 1..22 /\ p.in_width \in Nat /\ p.in_width >= 5
<1> DEFINE fo == Sizes.exp_frac
           span == CeilDiv((fo + 2) * 10000, 14427)
           b == bit_length(span)
           p == derive_exp_spec(m)
<1>1. fo \in 1..22 /\ Sizes.score_frac \in Nat BY SizesAssumption
<1>2. p.in_width = 1 + AtLeast(b, 4) + Sizes.score_frac /\ p.pipeline_stages = 3
      /\ p.in_frac = Sizes.score_frac /\ p.out_frac = fo
  BY DEF derive_exp_spec
<1>3. span \in Nat
  <2> DEFINE a == (fo + 2) * 10000 + 14427 - 1
  <2>1. a \in Nat /\ span = a \div 14427 BY <1>1 DEF CeilDiv
  <2> HIDE DEF a, span
  <2> QED BY <2>1, QuotientNat
<1> HIDE DEF span
<1>4. b \in Nat BY <1>3, BitLength
<1> HIDE DEF b, p
<1>5. p.in_width \in Nat /\ p.in_width >= 5 BY <1>1, <1>2, <1>4 DEF AtLeast
<1> QED BY <1>1, <1>2, <1>5 DEF p

ExpuRight(p, s, i, x) ==
  CASE i = 1 -> s.t = Sra(x * LOG2E_Q16, 16)
    [] i = 2 -> Sra(s.m, s.sh) = exp_golden(x, p)
    [] i = 3 -> s.y = exp_golden(x, p)

\* The register of the shift holds a shift past the format.
LEMMA ShiftFits ==
  ASSUME NEW m \in Models, NEW k \in Nat
  PROVE  LET p == derive_exp_spec(m)
         IN  Low(AtMost(k, p.out_frac + 1), AtLeast(bit_length(p.in_width + 18), 4)) = AtMost(k, p.out_frac + 1)
<1> DEFINE p == derive_exp_spec(m)
           b == bit_length(p.in_width + 18)
           w == AtLeast(b, 4)
           a == AtMost(k, p.out_frac + 1)
<1>1. p.out_frac \in 1..22 /\ p.in_width \in Nat /\ p.in_width >= 5 BY ExpuSpec
<1> HIDE DEF p
<1>2. b \in Nat /\ p.in_width + 18 < 2^b BY <1>1, BitLength
<1> HIDE DEF b
<1>3. w \in Nat /\ b <= w BY <1>2 DEF AtLeast
<1> HIDE DEF w
<1>4. 2^b <= 2^w /\ 2^b \in Nat /\ 2^w \in Nat BY <1>2, <1>3, PowerMonotone, PowerNat
<1>5. a \in Nat /\ a <= p.out_frac + 1 BY <1>1 DEF AtMost
<1> HIDE DEF a
<1> DEFINE n == 2^w
           l == 2^b
<1>6. n \in Nat /\ l \in Nat /\ l <= n /\ p.in_width + 18 < l BY <1>2, <1>4
<1> HIDE DEF n, l
<1>7. 0 <= a /\ a < n /\ n \in Nat \ {0} /\ a \in Int /\ a = 0 * n + a BY <1>1, <1>5, <1>6
<1>8. a % n = a BY <1>7, QuotientOnly
<1> QED BY <1>8 DEF Low, a, n, w, b, p

\* The whole part and the fraction of x log2(e), and the entry it finds.
LEMMA ExpuParts ==
  ASSUME NEW m \in Models, NEW x \in Int, x <= 0
  PROVE  LET p == derive_exp_spec(m)
             t == Sra(x * LOG2E_Q16, 16)
             n == Sra(t, p.in_frac)
         IN  /\ n \in Int /\ n <= 0 /\ Low(t, p.in_frac) = t - n * 2^p.in_frac
             /\ Read(exp_lut, Low(t, p.in_frac)) \in 0..(2^(p.out_frac + 1) - 1)
<1> DEFINE p == derive_exp_spec(m)
           v == x * LOG2E_Q16
           t == Sra(v, 16)
           f == p.in_frac
           o == p.out_frac
           n == Sra(t, f)
           e == Read(exp_lut, Low(t, f))
           g == 2^f
<1>1. p.out_frac \in 1..22 /\ f \in Nat /\ f = Sizes.score_frac /\ o = Sizes.exp_frac BY ExpuSpec
<1>2. v \in Int /\ v <= 0 BY DEF LOG2E_Q16
<1> HIDE DEF v
<1>3. t \in Int /\ t <= 0
  <2> DEFINE q == 16
             c == 2^q
  <2>1. q \in Nat OBVIOUS
  <2> HIDE DEF q
  <2>2. Sra(v, q) \in Int /\ c \in Nat \ {0} /\ Low(v, q) \in 0..(c - 1) /\ v = Sra(v, q) * c + Low(v, q)
    BY <1>2, <2>1, Halves
  <2> DEFINE y == Sra(v, q)
             z == Low(v, q)
  <2>3. y \in Int /\ c \in Nat \ {0} /\ z \in 0..(c - 1) /\ v = y * c + z BY <2>2
  <2>4. t = y BY DEF q
  <2> HIDE DEF y, z, c
  <2>5. y <= 0 BY <1>2, <2>3
  <2> QED BY <2>3, <2>4, <2>5
<1> HIDE DEF t
<1>4. n \in Int /\ Low(t, f) \in 0..(g - 1) /\ g \in Nat \ {0} /\ t = n * g + Low(t, f)
  BY <1>1, <1>3, Halves
<1> DEFINE z == Low(t, f)
<1>5. z = t - n * g
  <2> HIDE DEF z, n, g
  <2>1. n \in Int /\ z \in Int /\ g \in Int /\ t = n * g + z BY <1>4 DEF z
  <2> DEFINE ng == n * g
  <2>2. ng \in Int /\ t = ng + z BY <2>1
  <2> HIDE DEF ng
  <2>3. z = t - ng BY <2>1, <2>2
  <2> QED BY <2>3 DEF ng
<1>6. n <= 0
  <2> HIDE DEF z, n, g
  <2>1. n \in Int /\ z \in 0..(g - 1) /\ g \in Nat \ {0} /\ t = n * g + z BY <1>4 DEF z
  <2> QED BY <2>1, <1>3
<1>8. e \in 0..(2^(o + 1) - 1)
  <2>1. DOMAIN exp_lut = 1..2^Sizes.score_frac BY DEF exp_lut
  <2>2. z + 1 \in DOMAIN exp_lut
    <3>1. DOMAIN exp_lut = 1..g BY <2>1, <1>1
    <3> HIDE DEF g, z
    <3>2. z \in 0..(g - 1) /\ g \in Nat BY <1>4 DEF z
    <3> QED BY <3>1, <3>2
  <2>3. exp_lut[z + 1] \in 0..(2^(Sizes.exp_frac + 1) - 1) BY <2>2, SizesAssumption
  <2> QED BY <2>2, <2>3, <1>1 DEF Read
<1> QED BY <1>4, <1>5, <1>6, <1>8 DEF t, v

\* The table entry the fraction of x log2(e) finds, shifted by its whole part,
\* is the exponential.
LEMMA ExpuValue ==
  ASSUME NEW m \in Models, NEW x \in Int, x <= 0
  PROVE  LET p == derive_exp_spec(m)
             t == Sra(x * LOG2E_Q16, 16)
         IN  Sra(Read(exp_lut, Low(t, p.in_frac)),
                 Low(AtMost(-Sra(t, p.in_frac), p.out_frac + 1), AtLeast(bit_length(p.in_width + 18), 4)))
               = exp_golden(x, p)
<1> DEFINE p == derive_exp_spec(m)
           t == Sra(x * LOG2E_Q16, 16)
           f == p.in_frac
           o == p.out_frac
           n == Sra(t, f)
           k == -n
           e == Read(exp_lut, Low(t, f))
<1>1. p.out_frac \in 1..22 BY ExpuSpec
<1>2. n \in Int /\ n <= 0 /\ Low(t, f) = t - n * 2^f /\ e \in 0..(2^(o + 1) - 1) BY ExpuParts
<1> HIDE DEF t
<1>3. k \in Nat BY <1>2
<1>8. e \in 0..(2^(o + 1) - 1) BY <1>2
<1>9. Low(AtMost(k, o + 1), AtLeast(bit_length(p.in_width + 18), 4)) = AtMost(k, o + 1)
  BY <1>3, ShiftFits
<1>10. exp_golden(x, p) = IF k > o THEN 0 ELSE Sra(e, k)
  BY <1>2 DEF exp_golden, t
<1>11. Sra(e, AtMost(k, o + 1)) = IF k > o THEN 0 ELSE Sra(e, k)
  <2> HIDE DEF e, k, o
  <2>0. o \in Nat BY <1>1 DEF o
  <2>1. CASE k > o
    <3>1. AtMost(k, o + 1) = o + 1 BY <2>0, <2>1, <1>3 DEF AtMost
    <3>2. e \in Int /\ o + 1 \in Nat /\ 2^(o + 1) \in Nat \ {0} /\ e >= 0 /\ e < 2^(o + 1)
      BY <1>8, <2>0, PowerPositive
    <3>3. Sra(e, o + 1) = e \div 2^(o + 1) BY <3>2, ShiftDivides
    <3> DEFINE c == 2^(o + 1)
    <3>4. c \in Nat \ {0} /\ -c <= e /\ e < c /\ ~(e < 0) BY <3>2
    <3> HIDE DEF c
    <3>5. e \div c = 0 BY <3>2, <3>4, SignLeft
    <3> QED BY <2>1, <3>1, <3>3, <3>5 DEF c
  <2>2. CASE ~(k > o)
    <3>1. AtMost(k, o + 1) = k BY <2>0, <2>2, <1>3 DEF AtMost
    <3> QED BY <2>2, <3>1
  <2> QED BY <2>1, <2>2
<1> QED BY <1>9, <1>10, <1>11 DEF t

LEMMA ExpuRange ==
  ASSUME NEW m \in Models, NEW x \in Int, x <= 0
  PROVE  LET p == derive_exp_spec(m) IN exp_golden(x, p) \in 0..(2^(p.out_frac + 1) - 1)
<1> DEFINE p == derive_exp_spec(m)
           t == Sra(x * LOG2E_Q16, 16)
           f == p.in_frac
           o == p.out_frac
           n == Sra(t, f)
           k == -n
           e == Read(exp_lut, Low(t, f))
           c == 2^(o + 1)
<1>1. o \in 1..22 BY ExpuSpec
<1>2. n \in Int /\ n <= 0 /\ Low(t, f) = t - n * 2^f /\ e \in 0..(c - 1) BY ExpuParts
<1> HIDE DEF t, n, e
<1>3. exp_golden(x, p) = IF k > o THEN 0 ELSE Sra(e, k) BY <1>2 DEF exp_golden, t, n, e
<1> HIDE DEF p
<1>4. o + 1 \in Nat /\ c \in Nat \ {0} BY <1>1, PowerPositive
<1>5. k \in Nat BY <1>2
<1> HIDE DEF c, k
<1>6. e \in Nat /\ e <= c - 1 BY <1>2, <1>4
<1> DEFINE d == 2^k
<1>7. d \in Nat \ {0} /\ Sra(e, k) = e \div d BY <1>5, <1>6, PowerPositive, ShiftDivides
<1> HIDE DEF d
<1>8. e \div d \in Nat /\ e % d \in 0..(d - 1) /\ e = (e \div d) * d + (e % d)
  <2>1. e \in Int /\ d \in Nat \ {0} BY <1>6, <1>7
  <2>2. e \div d \in Nat BY <1>6, <1>7, QuotientNat
  <2> QED BY <2>1, <2>2, Quotient
<1>9. e \div d <= e
  <2> DEFINE w == e \div d
  <2>1. w \in Nat /\ w * d <= e BY <1>6, <1>7, <1>8
  <2> HIDE DEF w
  <2>2. w <= w * d BY <2>1, <1>7
  <2>3. w <= e
    <3> DEFINE wd == w * d
    <3>1. wd \in Int /\ w \in Int /\ e \in Int /\ w <= wd /\ wd <= e BY <2>1, <2>2, <1>6, <1>7
    <3> HIDE DEF wd
    <3> QED BY <3>1
  <2> QED BY <2>3 DEF w
<1>10. exp_golden(x, p) \in 0..(c - 1) BY <1>3, <1>4, <1>6, <1>7, <1>8, <1>9
<1> QED BY <1>10 DEF c, p

LEMMA ExpuData ==
  ASSUME NEW m \in Models, NEW s, NEW in
  PROVE  LET p == derive_exp_spec(m)
             q == expu(p, s, in)
         IN  /\ ExpuRight(p, q, 1, in.x)
             /\ \A x \in Int : x <= 0 =>
                  \A i \in 1..2 : ExpuRight(p, s, i, x) => ExpuRight(p, q, i + 1, x)
<1> DEFINE p == derive_exp_spec(m)
           q == expu(p, s, in)
<1>1. ExpuRight(p, q, 1, in.x) BY DEF ExpuRight, expu
<1>2. ASSUME NEW x \in Int, x <= 0, ExpuRight(p, s, 1, x) PROVE ExpuRight(p, q, 2, x)
  <2> DEFINE t == Sra(x * LOG2E_Q16, 16)
  <2>1. s.t = t BY <1>2 DEF ExpuRight
  <2>2. q.m = Read(exp_lut, Low(s.t, p.in_frac))
        /\ q.sh = Low(AtMost(-Sra(s.t, p.in_frac), p.out_frac + 1), AtLeast(bit_length(p.in_width + 18), 4))
    BY DEF expu
  <2>3. Sra(q.m, q.sh) = exp_golden(x, p) BY <1>2, <2>1, <2>2, ExpuValue
  <2> QED BY <2>3 DEF ExpuRight
<1>3. ASSUME NEW x \in Int, x <= 0, ExpuRight(p, s, 2, x) PROVE ExpuRight(p, q, 3, x)
  <2>1. q.y = Sra(s.m, s.sh) BY DEF expu
  <2>2. Sra(s.m, s.sh) = exp_golden(x, p) BY <1>3 DEF ExpuRight
  <2> QED BY <2>1, <2>2 DEF ExpuRight
<1> HIDE DEF p, q
<1>4. \A i \in 1..2 : (i = 1 /\ i + 1 = 2) \/ (i = 2 /\ i + 1 = 3) OBVIOUS
<1>5. ASSUME NEW x \in Int, x <= 0, NEW i \in 1..2, ExpuRight(p, s, i, x) PROVE ExpuRight(p, q, i + 1, x)
  BY <1>2, <1>3, <1>4, <1>5
<1> QED BY <1>1, <1>5 DEF p, q

-----------------------------------------------------------------------------
(* The reciprocal.                                                         *)

LEMMA RecipSpec ==
  ASSUME NEW m \in Models
  PROVE  LET p == derive_recip_spec(m)
         IN  /\ p.pipeline_stages = 3 /\ p.in_width \in Nat /\ p.in_width >= Sizes.exp_frac + 2
             /\ p.lut_bits \in Nat /\ p.lut_bits <= p.in_width - 1
             /\ p.out_width \in Nat /\ p.shift_bias = p.out_width + p.in_width - 1
<1> DEFINE terms == AtMost(m.seq_len, Sizes.most_terms)
           f == Sizes.exp_frac
           one == 2^f
           iw == bit_length(terms * one)
           p == derive_recip_spec(m)
<1>1. f \in 1..22 /\ Sizes.table_bits <= f /\ Sizes.table_bits \in Nat /\ Sizes.table_width \in Nat
      /\ Sizes.most_terms \in Nat /\ Sizes.most_terms >= 2
  BY SizesAssumption
<1>2. m.seq_len \in Nat /\ m.seq_len >= 2 BY ModelsAssumption
<1>3. p.in_width = iw /\ p.pipeline_stages = 3 /\ p.lut_bits = Sizes.table_bits
      /\ p.out_width = Sizes.table_width /\ p.shift_bias = Sizes.table_width + iw - 1
  BY DEF derive_recip_spec
<1>4. terms \in Nat /\ terms >= 2 BY <1>1, <1>2 DEF AtMost
<1> HIDE DEF terms, p
<1>5. f + 1 \in Nat /\ f \in Nat BY <1>1
<1>6. 2^(f + 1) = 2 * one /\ one \in Nat BY <1>5, PowerStep, PowerNat
<1>7. terms * one \in Nat /\ terms * one >= 2 * one
  <2> HIDE DEF one
  <2> QED BY <1>4, <1>6
<1> DEFINE t == terms * one
<1>8. t \in Nat /\ t >= 2^(f + 1) BY <1>6, <1>7
<1> HIDE DEF t, f
<1>9. bit_length(t) > f + 1 /\ bit_length(t) \in Nat BY <1>5, <1>8, BitLengthBeyond, BitLength
<1>10. iw \in Nat /\ iw > f + 1 BY <1>9 DEF t
<1> HIDE DEF iw
<1> QED BY <1>1, <1>3, <1>5, <1>10 DEF p, f

RecipRight(p, s, i, x) ==
  CASE i = 1 -> s.k1 = p.in_width - bit_length(x) /\ s.xn = x * 2^(p.in_width - bit_length(x))
    [] i = 2 -> <<s.m, s.k2>> = recip_golden(x, p)
    [] i = 3 -> <<s.y, s.k>> = recip_golden(x, p)

LEMMA RecipData ==
  ASSUME NEW m \in Models, NEW s, NEW in
  PROVE  LET p == derive_recip_spec(m)
             q == recip(p, s, in)
         IN  \A x \in 1..(2^p.in_width - 1) :
               /\ in.x = x => RecipRight(p, q, 1, x)
               /\ \A i \in 1..2 : RecipRight(p, s, i, x) => RecipRight(p, q, i + 1, x)
<1> DEFINE p == derive_recip_spec(m)
           q == recip(p, s, in)
           iw == p.in_width
           lb == p.lut_bits
<1>1. iw \in Nat /\ lb \in Nat /\ lb <= iw - 1 /\ iw >= 1
  <2>1. Sizes.exp_frac \in 1..22 BY SizesAssumption
  <2> QED BY <2>1, RecipSpec
<1> SUFFICES ASSUME NEW x \in 1..(2^iw - 1)
             PROVE  /\ in.x = x => RecipRight(p, q, 1, x)
                    /\ \A i \in 1..2 : RecipRight(p, s, i, x) => RecipRight(p, q, i + 1, x)
  OBVIOUS
<1>2. x \in Nat /\ x > 0 /\ x < 2^iw
  <2> DEFINE c == 2^iw
  <2>1. c \in Nat /\ x \in 1..(c - 1) BY <1>1, PowerNat
  <2> HIDE DEF c
  <2>2. x \in Nat /\ x > 0 /\ x < c BY <2>1
  <2> QED BY <2>2 DEF c
<1> DEFINE k == iw - bit_length(x)
           xn == x * 2^k
<1>3. k \in Nat /\ xn \in 0..(2^iw - 1)
  <2>1. bit_length(x) \in Nat /\ bit_length(x) <= iw BY <1>1, <1>2, BitLength, BitLengthWithin
  <2>2. k \in Nat BY <1>1, <2>1
  <2>3. k <= iw - bit_length(x) BY <2>2
  <2> QED BY <1>1, <1>2, <2>2, <2>3, Normalised
<1>4. ASSUME in.x = x PROVE RecipRight(p, q, 1, x)
  <2>1. q.k1 = k /\ q.xn = Low(xn, iw) BY <1>4 DEF recip
  <2>2. Low(xn, iw) = xn BY <1>1, <1>3, LowSame
  <2> QED BY <2>1, <2>2 DEF RecipRight
<1>5. ASSUME RecipRight(p, s, 1, x) PROVE RecipRight(p, q, 2, x)
  <2>1. s.k1 = k /\ s.xn = xn BY <1>5 DEF RecipRight
  <2> DEFINE l == iw - 1 - lb
  <2>2. l \in Nat /\ (iw - 2) - l + 1 = lb BY <1>1
  <2>3. q.k2 = k /\ q.m = Read(recip_lut, Bits(xn, iw - 2, l)) BY <2>1 DEF recip
  <2>4. Bits(xn, iw - 2, l) = Low(xn \div 2^l, lb) BY <2>2 DEF Bits
  <2>5. xn \in Int BY <1>3
  <2> HIDE DEF l
  <2>6. Sra(xn, l) = xn \div 2^l BY <2>2, <2>5, ShiftDivides
  <2>7. recip_golden(x, p) = <<Read(recip_lut, Low(Sra(xn, l), lb)), k>>
    <3>1. ~(x <= 0) BY <1>2
    <3> QED BY <3>1 DEF recip_golden, l
  <2>8. <<q.m, q.k2>> = recip_golden(x, p) BY <2>3, <2>4, <2>6, <2>7
  <2> QED BY <2>8 DEF RecipRight
<1>6. ASSUME RecipRight(p, s, 2, x) PROVE RecipRight(p, q, 3, x)
  <2>1. <<s.m, s.k2>> = recip_golden(x, p) BY <1>6 DEF RecipRight
  <2>2. q.y = s.m /\ q.k = s.k2 BY DEF recip
  <2>3. <<q.y, q.k>> = recip_golden(x, p) BY <2>1, <2>2
  <2> QED BY <2>3 DEF RecipRight
<1> HIDE DEF p, q, iw
<1>7. \A i \in 1..2 : (i = 1 /\ i + 1 = 2) \/ (i = 2 /\ i + 1 = 3) OBVIOUS
<1> QED BY <1>4, <1>5, <1>6, <1>7

-----------------------------------------------------------------------------
(* The inverse square root.                                                *)

LEMMA DepthNat == ASSUME NEW m \in Models PROVE depth(m) \in Nat \ {0}
<1> DEFINE a == m.d_model
           b == m.d_ff
<1>1. a \in Nat \ {0} /\ b \in Nat \ {0} BY ModelsAssumption
<1>2. depth(m) = Max({a, b}) BY DEF depth
<1> HIDE DEF a, b
<1>3. Max({a, b}) \in {a, b}
  <2>1. a \in Int /\ b \in Int BY <1>1
  <2> QED BY <2>1, LargerOfTwo
<1> QED BY <1>1, <1>2, <1>3

LEMMA RsqrtSpec ==
  ASSUME NEW m \in Models
  PROVE  LET p == derive_rsqrt_spec(m)
         IN  /\ p.pipeline_stages = 3 /\ p.in_width \in Nat /\ p.lut_bits \in Nat /\ p.lut_bits <= p.in_width
             /\ \E h \in Nat : p.in_width = 2 * h
<1> DEFINE l == CeilLog2(depth(m))
           a == m.activation_bits
           w == 2 * a + l
           p == derive_rsqrt_spec(m)
<1>1. a \in Nat \ {0} /\ Sizes.table_bits <= 2 * a BY ModelsAssumption
<1>2. Sizes.table_bits \in Nat BY SizesAssumption
<1>3. l \in Nat BY DepthNat, LogarithmRoundedUp
<1>4. p.in_width = w + (w % 2) /\ p.lut_bits = Sizes.table_bits /\ p.pipeline_stages = 3 BY DEF derive_rsqrt_spec
<1> HIDE DEF l, a, p
<1>5. w \in Nat /\ Sizes.table_bits <= w BY <1>1, <1>2, <1>3
<1> HIDE DEF w
<1>6. w % 2 \in 0..1 /\ w \div 2 \in Nat /\ w = (w \div 2) * 2 + (w % 2) BY <1>5
<1> DEFINE h == (w \div 2) + (w % 2)
<1>7. h \in Nat /\ w + (w % 2) = 2 * h BY <1>6
<1>8. \E g \in Nat : p.in_width = 2 * g BY <1>4, <1>7
<1>9. p.in_width \in Nat /\ p.lut_bits <= p.in_width BY <1>2, <1>4, <1>5, <1>6
<1> QED BY <1>2, <1>4, <1>8, <1>9 DEF p

RsqrtRight(p, s, i, x) ==
  LET e == (bit_length(x) - 1) \div 2
  IN  CASE i = 1 -> s.e1 = e /\ s.xn = x * 2^(p.in_width - 2 - 2 * e)
        [] i = 2 -> <<s.m, s.e2>> = rsqrt_golden(x, p)
        [] i = 3 -> <<s.y, s.e>> = rsqrt_golden(x, p)

LEMMA RsqrtData ==
  ASSUME NEW m \in Models, NEW s, NEW in
  PROVE  LET p == derive_rsqrt_spec(m)
             q == rsqrt(p, s, in)
         IN  \A x \in 1..(2^p.in_width - 1) :
               /\ in.x = x => RsqrtRight(p, q, 1, x)
               /\ \A i \in 1..2 : RsqrtRight(p, s, i, x) => RsqrtRight(p, q, i + 1, x)
<1> DEFINE p == derive_rsqrt_spec(m)
           q == rsqrt(p, s, in)
           iw == p.in_width
           lb == p.lut_bits
<1>1. iw \in Nat /\ lb \in Nat /\ lb <= iw /\ \E h \in Nat : iw = 2 * h BY RsqrtSpec
<1> SUFFICES ASSUME NEW x \in 1..(2^iw - 1)
             PROVE  /\ in.x = x => RsqrtRight(p, q, 1, x)
                    /\ \A i \in 1..2 : RsqrtRight(p, s, i, x) => RsqrtRight(p, q, i + 1, x)
  OBVIOUS
<1>2. x \in Nat /\ x > 0 /\ x < 2^iw
  <2> DEFINE c == 2^iw
  <2>1. c \in Nat /\ x \in 1..(c - 1) BY <1>1, PowerNat
  <2> HIDE DEF c
  <2>2. x \in Nat /\ x > 0 /\ x < c BY <2>1
  <2> QED BY <2>2 DEF c
<1> DEFINE b == bit_length(x)
           e == (b - 1) \div 2
           n == iw - 2 - 2 * e
           xn == x * 2^n
<1>3. b \in Nat /\ b >= 1 /\ b <= iw
  <2>1. b \in Nat /\ b <= iw /\ x < 2^b BY <1>1, <1>2, BitLength, BitLengthWithin
  <2>2. b # 0
    <3>1. ASSUME b = 0 PROVE FALSE
      <4>1. 2^b = 1 BY <3>1, PowerOne
      <4> HIDE DEF b
      <4> QED BY <4>1, <2>1, <1>2
    <3> QED BY <3>1
  <2> HIDE DEF b
  <2> QED BY <2>1, <2>2
<1>4. e \in Nat /\ 2 * e <= b - 1 /\ 2 * e >= b - 2
  <2> HIDE DEF b
  <2> DEFINE c == b - 1
  <2>1. c \in Nat BY <1>3
  <2> HIDE DEF c
  <2>2. c \div 2 \in Nat /\ c % 2 \in 0..1 /\ c = (c \div 2) * 2 + (c % 2) BY <2>1
  <2>3. 2 * (c \div 2) <= c /\ 2 * (c \div 2) >= c - 1 BY <2>1, <2>2
  <2> QED BY <2>2, <2>3, <1>3 DEF c
<1> HIDE DEF e
<1>5. n \in Nat /\ n <= iw - b
  <2>1. PICK h \in Nat : iw = 2 * h BY <1>1
  <2> HIDE DEF b, iw
  <2>2. 2 * e <= 2 * h - 1 BY <1>3, <1>4, <2>1
  <2>3. e < h BY <2>2, <1>4, <2>1
  <2> QED BY <1>3, <1>4, <2>1, <2>3
<1>6. xn \in 0..(2^iw - 1) BY <1>1, <1>2, <1>5, Normalised
<1>7. ASSUME in.x = x PROVE RsqrtRight(p, q, 1, x)
  <2>1. AtLeast(b - 1, 0) = b - 1
    <3> HIDE DEF b
    <3> QED BY <1>3 DEF AtLeast
  <2>2. q.e1 = e BY <1>7, <2>1 DEF rsqrt, e
  <2>3. q.xn = Low(xn, iw) BY <1>7, <2>1 DEF rsqrt, e
  <2>4. Low(xn, iw) = xn BY <1>1, <1>6, LowSame
  <2> QED BY <2>2, <2>3, <2>4 DEF RsqrtRight, e
<1>8. ASSUME RsqrtRight(p, s, 1, x) PROVE RsqrtRight(p, q, 2, x)
  <2>1. s.e1 = e /\ s.xn = xn BY <1>8 DEF RsqrtRight, e
  <2> DEFINE l == iw - lb
  <2>2. l \in Nat /\ (iw - 1) - l + 1 = lb BY <1>1
  <2>3. q.e2 = e /\ q.m = Read(rsqrt_lut, Bits(xn, iw - 1, l)) BY <2>1 DEF rsqrt
  <2>4. Bits(xn, iw - 1, l) = Low(xn \div 2^l, lb) BY <2>2 DEF Bits
  <2>5. xn \in Int BY <1>6
  <2> HIDE DEF l
  <2>6. Sra(xn, l) = xn \div 2^l BY <2>2, <2>5, ShiftDivides
  <2>7. rsqrt_golden(x, p) = <<Read(rsqrt_lut, Low(Sra(xn, l), lb)), e>>
    <3>1. ~(x <= 0) BY <1>2
    <3> QED BY <3>1 DEF rsqrt_golden, l, e
  <2>8. <<q.m, q.e2>> = rsqrt_golden(x, p) BY <2>3, <2>4, <2>6, <2>7
  <2> QED BY <2>8 DEF RsqrtRight
<1>9. ASSUME RsqrtRight(p, s, 2, x) PROVE RsqrtRight(p, q, 3, x)
  <2>1. <<s.m, s.e2>> = rsqrt_golden(x, p) BY <1>9 DEF RsqrtRight
  <2>2. q.y = s.m /\ q.e = s.e2 BY DEF rsqrt
  <2>3. <<q.y, q.e>> = rsqrt_golden(x, p) BY <2>1, <2>2
  <2> QED BY <2>3 DEF RsqrtRight
<1> HIDE DEF p, q, iw
<1>10. \A i \in 1..2 : (i = 1 /\ i + 1 = 2) \/ (i = 2 /\ i + 1 = 3) OBVIOUS
<1> QED BY <1>7, <1>8, <1>9, <1>10

-----------------------------------------------------------------------------
(* The multiply-accumulate unit.                                           *)

LEMMA WidthsNat ==
  ASSUME NEW m \in Models
  PROVE  /\ data_width(m) \in Nat \ {0} /\ acc_width(m) \in Nat \ {0}
         /\ m.weight_bits <= data_width(m) /\ m.activation_bits <= data_width(m)
<1> DEFINE wb == m.weight_bits
           ab == m.activation_bits
           l == CeilLog2(depth(m))
           dw == data_width(m)
<1>1. wb \in Nat \ {0} /\ ab \in Nat \ {0} BY ModelsAssumption
<1>2. l \in Nat BY DepthNat, LogarithmRoundedUp
<1>3. Max({wb, ab}) \in {wb, ab} /\ wb <= Max({wb, ab}) /\ ab <= Max({wb, ab})
  <2> HIDE DEF wb, ab
  <2> QED BY <1>1, LargerOfTwo
<1>4. dw = Max({wb, ab}) BY DEF data_width
<1> HIDE DEF wb, ab, l, dw
<1>5. dw \in Nat \ {0} /\ wb <= dw /\ ab <= dw BY <1>1, <1>3, <1>4
<1> DEFINE x == wb + ab + l
           y == dw + Sizes.exp_frac + 1
<1>6. x \in Nat \ {0} /\ y \in Nat \ {0}
  <2>1. Sizes.exp_frac \in 1..22 BY SizesAssumption
  <2> QED BY <2>1, <1>1, <1>2, <1>5
<1>7. acc_width(m) = Max({x, y}) BY DEF acc_width, wb, ab, l, dw
<1> HIDE DEF x, y
<1>8. Max({x, y}) \in {x, y}
  <2>1. x \in Int /\ y \in Int BY <1>6
  <2> QED BY <2>1, LargerOfTwo
<1> QED BY <1>5, <1>6, <1>7, <1>8 DEF dw, wb, ab

LEMMA MacSpec ==
  ASSUME NEW m \in Models
  PROVE  LET p == derive_chiplet_spec(m)
         IN  p.data_width \in Nat \ {0} /\ p.acc_width \in Nat \ {0} /\ p.pipeline_stages \in {2, 3}
BY WidthsNat DEF derive_chiplet_spec

MacRight(p, s, i, x) ==
  CASE i = p.pipeline_stages -> TRUE
    [] i = p.pipeline_stages - 1 -> s.prod = x.a * x.b
    [] OTHER -> s.lo + s.hi * 2^(p.data_width \div 2) = x.a * x.b

LEMMA MacData ==
  ASSUME NEW m \in Models, NEW s, NEW in
  PROVE  LET p == derive_chiplet_spec(m)
             q == mac(p, s, in)
         IN  \A x \in [a : Signed(p.data_width), b : Signed(p.data_width)] :
               /\ in.a = x.a /\ in.b = x.b => MacRight(p, q, 1, x)
               /\ \A i \in 1..(p.pipeline_stages - 1) : MacRight(p, s, i, x) => MacRight(p, q, i + 1, x)
<1> DEFINE p == derive_chiplet_spec(m)
           q == mac(p, s, in)
           dw == p.data_width
           h == dw \div 2
<1>1. dw \in Nat \ {0} /\ p.pipeline_stages \in {2, 3} BY MacSpec
<1> SUFFICES ASSUME NEW x \in [a : Signed(dw), b : Signed(dw)]
             PROVE  /\ in.a = x.a /\ in.b = x.b => MacRight(p, q, 1, x)
                    /\ \A i \in 1..(p.pipeline_stages - 1) : MacRight(p, s, i, x) => MacRight(p, q, i + 1, x)
  OBVIOUS
<1> DEFINE a == x.a
           b == x.b
           n == p.pipeline_stages
<1>2. a \in Signed(dw) /\ b \in Signed(dw) OBVIOUS
<1> HIDE DEF dw
<1>3. a \in Int /\ b \in Int /\ a * b \in Signed(2 * dw) BY <1>1, <1>2, SignedWords, ProductFits
<1>4. Wrap(a * b, 2 * dw) = a * b
  <2>1. 2 * dw \in Nat \ {0} BY <1>1
  <2> QED BY <1>3, <2>1, WrapIn
<1>5. h \in Nat BY <1>1, QuotientNat
<1>6. CASE n = 2
  <2>1. ~Split(p) BY <1>6 DEF Split
  <2>2. q.prod = Wrap(in.a * in.b, 2 * dw) BY <2>1 DEF mac, dw
  <2>3. ASSUME in.a = x.a, in.b = x.b PROVE MacRight(p, q, 1, x)
    <3>1. q.prod = a * b BY <2>2, <2>3, <1>4
    <3> HIDE DEF p, q
    <3> QED BY <3>1, <1>6 DEF MacRight
  <2>4. MacRight(p, q, 2, x)
    <3> HIDE DEF p, q
    <3> QED BY <1>6 DEF MacRight
  <2>5. \A i \in 1..(n - 1) : i + 1 = 2 BY <1>6
  <2>6. ASSUME NEW i \in 1..(n - 1) PROVE MacRight(p, q, i + 1, x) BY <2>4, <2>5
  <2> QED BY <2>3, <2>6
<1>7. CASE n = 3
  <2>1. Split(p) BY <1>7 DEF Split
  <2>2. q.prod = Wrap(s.lo + s.hi * 2^h, 2 * dw) BY <2>1 DEF mac, dw
  <2>3. q.lo = in.a * Bits(in.b, h - 1, 0) /\ q.hi = in.a * Sra(in.b, h) BY <2>1 DEF mac, dw
  <2>4. ASSUME in.a = x.a, in.b = x.b PROVE MacRight(p, q, 1, x)
    <3>1. q.lo = a * Bits(b, h - 1, 0) /\ q.hi = a * Sra(b, h) BY <2>3, <2>4
    <3> HIDE DEF p, q, a, b, h
    <3>2. a * Bits(b, h - 1, 0) + (a * Sra(b, h)) * 2^h = a * b BY <1>3, <1>5, SplitProduct
    <3>3. q.lo + q.hi * 2^h = a * b BY <3>1, <3>2
    <3> QED BY <3>3, <1>7 DEF MacRight, dw, a, b, h
  <2>5. ASSUME MacRight(p, s, 1, x) PROVE MacRight(p, q, 2, x)
    <3>1. s.lo + s.hi * 2^h = a * b
      <4> HIDE DEF p, q
      <4> QED BY <1>7, <2>5 DEF MacRight, dw
    <3>2. q.prod = a * b BY <2>2, <3>1, <1>4
    <3> HIDE DEF p, q
    <3> QED BY <3>2, <1>7 DEF MacRight
  <2>6. MacRight(p, q, 3, x)
    <3> HIDE DEF p, q
    <3> QED BY <1>7 DEF MacRight
  <2>7. \A i \in 1..(n - 1) : (i = 1 /\ i + 1 = 2) \/ (i = 2 /\ i + 1 = 3) BY <1>7
  <2>8. ASSUME NEW i \in 1..(n - 1), MacRight(p, s, i, x) PROVE MacRight(p, q, i + 1, x)
    <3> HIDE DEF p, q, n
    <3> QED BY <2>5, <2>6, <2>7, <2>8
  <2> QED BY <2>4, <2>8
<1> QED BY <1>1, <1>6, <1>7

\* The product the accumulator takes is the one whose flag is next to last.
LEMMA MacArrives ==
  ASSUME NEW m \in Models, NEW s
  PROVE  LET p == derive_chiplet_spec(m)
         IN  Arrived(p, s) = Flags("mac", p, s)[p.pipeline_stages - 1]
<1> DEFINE p == derive_chiplet_spec(m)
           n == p.pipeline_stages
<1>1. n \in {2, 3} BY MacSpec
<1> HIDE DEF p
<1>2. CASE n = 2
  <2>1. ~Split(p) BY <1>2 DEF Split
  <2> QED BY <1>2, <2>1 DEF Arrived, Flags, p
<1>3. CASE n = 3
  <2>1. Split(p) BY <1>3 DEF Split
  <2> QED BY <1>3, <2>1 DEF Arrived, Flags, p
<1> QED BY <1>1, <1>2, <1>3

\* What has arrived at the end of the unit is summed.
LEMMA MacSums ==
  ASSUME NEW m \in Models, NEW s, NEW in
  PROVE  LET p == derive_chiplet_spec(m)
             q == mac(p, s, in)
             n == p.pipeline_stages
         IN  \A x : ~in.clear /\ Flags("mac", p, s)[n - 1] = TRUE /\ MacRight(p, s, n - 1, x)
                      => q.acc = Wrap(s.acc + x.a * x.b, p.acc_width)
<1> DEFINE p == derive_chiplet_spec(m)
           q == mac(p, s, in)
           n == p.pipeline_stages
<1>1. n \in {2, 3} BY MacSpec
<1>2. Arrived(p, s) = Flags("mac", p, s)[n - 1] BY MacArrives
<1>3. ASSUME ~in.clear, Arrived(p, s) = TRUE PROVE q.acc = Wrap(s.acc + s.prod, p.acc_width)
  BY <1>3 DEF mac
<1>4. ASSUME NEW x, MacRight(p, s, n - 1, x) PROVE s.prod = x.a * x.b
  <2> HIDE DEF p
  <2>1. n - 1 # n BY <1>1
  <2> QED BY <1>4, <2>1 DEF MacRight
<1> HIDE DEF p, q
<1>5. \A x : ~in.clear /\ Flags("mac", p, s)[n - 1] = TRUE /\ MacRight(p, s, n - 1, x)
               => q.acc = Wrap(s.acc + x.a * x.b, p.acc_width)
  BY <1>2, <1>3, <1>4
<1> QED BY <1>5 DEF p, q

\* A clear takes the sum, and an edge at which nothing arrives leaves it.
LEMMA MacWaits ==
  ASSUME NEW m \in Models, NEW s, NEW in
  PROVE  LET p == derive_chiplet_spec(m)
             q == mac(p, s, in)
         IN  /\ in.clear => q.acc = 0
             /\ ~in.clear /\ Flags("mac", p, s)[p.pipeline_stages - 1] = FALSE => q.acc = s.acc
<1> DEFINE p == derive_chiplet_spec(m)
           q == mac(p, s, in)
<1>1. Arrived(p, s) = Flags("mac", p, s)[p.pipeline_stages - 1] BY MacArrives
<1>2. in.clear => q.acc = 0 BY DEF mac
<1>3. ASSUME ~in.clear, Arrived(p, s) = FALSE PROVE q.acc = s.acc
  BY <1>3 DEF mac
<1> HIDE DEF p, q
<1> QED BY <1>1, <1>2, <1>3 DEF p, q

-----------------------------------------------------------------------------
(* The residual add.                                                       *)

LEMMA ResaddSpec ==
  ASSUME NEW m \in Models
  PROVE  LET p == derive_resadd_spec(m)
         IN  /\ p.data_width \in Nat \ {0} /\ p.scale_width \in Nat /\ p.scale_width >= 3
             /\ p.sum_width = p.data_width + p.scale_width + 2
<1>1. derive_requant_spec(m).scale_width = Sizes.scale_width BY DEF derive_requant_spec
<1>2. Sizes.scale_width \in Nat /\ Sizes.scale_width >= 3 BY SizesAssumption
<1> DEFINE p == derive_resadd_spec(m)
<1>3. p.data_width = data_width(m) /\ p.scale_width = Sizes.scale_width
      /\ p.sum_width = data_width(m) + Sizes.scale_width + 2
  BY <1>1 DEF derive_resadd_spec
<1> HIDE DEF p
<1> QED BY <1>2, <1>3, WidthsNat DEF p

\* The scales a stream is offered fit their ports, and its shift is a short one.
LEMMA ResaddHeld ==
  ASSUME NEW m \in Models
  PROVE  LET p == derive_resadd_spec(m)
         IN  \A h \in resadd_held(p) : /\ h.scale_a \in 0..(2^p.scale_width - 1)
                                       /\ h.scale_b \in 0..(2^p.scale_width - 1)
                                       /\ h.shift \in 0..5
                                       /\ DOMAIN h = {"scale_a", "scale_b", "shift"}
<1> DEFINE p == derive_resadd_spec(m)
           w == p.scale_width
           c == 2^w
           d == 2^(w - 1)
<1>1. w \in Nat /\ w >= 3 BY ResaddSpec
<1> HIDE DEF w
<1>2. c \in Nat /\ d \in Nat \ {0} /\ c = d + d BY <1>1, PowerHalf
<1>3. c >= 8
  <2> DEFINE three == 3
  <2>1. three \in Nat /\ three <= w BY <1>1
  <2>2. 2^three = 8 OBVIOUS
  <2> HIDE DEF three
  <2>3. 2^three <= 2^w BY <1>1, <2>1, PowerMonotone
  <2> QED BY <2>2, <2>3
<1>4. resadd_held(p) = {[scale_a |-> 5, scale_b |-> 3, shift |-> 3], [scale_a |-> 1, scale_b |-> 2, shift |-> 0],
                        [scale_a |-> c - 1, scale_b |-> d, shift |-> 5]}
  BY DEF resadd_held, w
<1> HIDE DEF c, d, p
<1>5. \A h \in resadd_held(p) : h.scale_a \in 0..(c - 1) /\ h.scale_b \in 0..(c - 1) /\ h.shift \in 0..5
  BY <1>2, <1>3, <1>4
<1>6. \A h \in resadd_held(p) : DOMAIN h = {"scale_a", "scale_b", "shift"} BY <1>4
<1> QED BY <1>5, <1>6 DEF p, c, w

ResaddRight(p, s, i, x, h) ==
  CASE i = 1 -> s.pa = x.a * h.scale_a /\ s.pb = x.b * h.scale_b /\ s.rnd_r = Half(h.shift)
    [] i = 2 -> s.v = x.a * h.scale_a + x.b * h.scale_b + Half(h.shift)
    [] i = 3 -> s.y = resadd_golden(x.a, x.b, h.scale_a, h.scale_b, h.shift, p.data_width)

LEMMA ResaddData ==
  ASSUME NEW m \in Models, NEW s, NEW in
  PROVE  LET p == derive_resadd_spec(m)
             q == resadd(p, s, in)
         IN  \A x \in [a : Signed(p.data_width), b : Signed(p.data_width)] : \A h \in resadd_held(p) :
               in.scale_a = h.scale_a /\ in.scale_b = h.scale_b /\ in.shift = h.shift =>
                 /\ in.a = x.a /\ in.b = x.b => ResaddRight(p, q, 1, x, h)
                 /\ \A i \in 1..2 : ResaddRight(p, s, i, x, h) => ResaddRight(p, q, i + 1, x, h)
<1> DEFINE p == derive_resadd_spec(m)
           q == resadd(p, s, in)
           dw == p.data_width
           cw == p.scale_width
           sw == p.sum_width
<1>1. dw \in Nat \ {0} /\ cw \in Nat /\ cw >= 3 /\ sw = dw + cw + 2 BY ResaddSpec
<1> SUFFICES ASSUME NEW x \in [a : Signed(dw), b : Signed(dw)], NEW h \in resadd_held(p),
                    in.scale_a = h.scale_a, in.scale_b = h.scale_b, in.shift = h.shift
             PROVE  /\ in.a = x.a /\ in.b = x.b => ResaddRight(p, q, 1, x, h)
                    /\ \A i \in 1..2 : ResaddRight(p, s, i, x, h) => ResaddRight(p, q, i + 1, x, h)
  OBVIOUS
<1> DEFINE a == x.a
           b == x.b
           sa == h.scale_a
           sb == h.scale_b
           sh == h.shift
           A == 2^(dw - 1)
           C == 2^cw
           H == Half(sh)
           v == a * sa + b * sb
           T == 2^(sw - 1)
           F == 2^(dw + cw)
<1>2. a \in Signed(dw) /\ b \in Signed(dw) OBVIOUS
<1>3. sa \in 0..(C - 1) /\ sb \in 0..(C - 1) /\ sh \in 0..5 BY ResaddHeld
<1> HIDE DEF dw, cw, sw, a, b, sa, sb, sh, H, p, q
<1>4. A \in Nat \ {0} /\ a \in Int /\ b \in Int /\ -A <= a /\ a < A /\ -A <= b /\ b < A BY <1>1, <1>2, SignedWords
<1>5. C \in Nat \ {0} BY <1>1, PowerPositive
<1>6. F = 2 * (A * C) /\ T = 2 * F
  <2>1. dw - 1 \in Nat /\ cw \in Nat /\ dw + cw \in Nat /\ ((dw - 1) + cw) + 1 = dw + cw
        /\ (dw - 1) + cw \in Nat /\ (dw + cw) + 1 = sw - 1
    BY <1>1
  <2>2. 2^((dw - 1) + cw) = A * C BY <2>1, PowerSum
  <2>3. 2^(((dw - 1) + cw) + 1) = 2 * 2^((dw - 1) + cw) BY <2>1, PowerStep
  <2>4. 2^((dw + cw) + 1) = 2 * F BY <2>1, PowerStep
  <2> QED BY <2>1, <2>2, <2>3, <2>4
<1>7. H \in Nat /\ H <= F
  <2>1. CASE sh = 0
    <3>1. F \in Nat BY <1>1, PowerNat
    <3> QED BY <2>1, <3>1 DEF H, Half
  <2>2. CASE sh # 0
    <3>1. sh - 1 \in Nat /\ dw + cw \in Nat /\ sh - 1 <= dw + cw BY <2>2, <1>1, <1>3
    <3>2. 2^(sh - 1) \in Nat /\ 2^(sh - 1) <= F BY <3>1, PowerNat, PowerMonotone
    <3> QED BY <2>2, <3>2 DEF H, Half
  <2> QED BY <2>1, <2>2
<1>8. a * sa \in Int /\ b * sb \in Int /\ v + H \in Signed(sw) /\ H \in Signed(sw)
  <2> HIDE DEF A, C, F
  <2>1. sa \in Int /\ 0 <= sa /\ sa < C /\ sb \in Int /\ 0 <= sb /\ sb < C BY <1>3, <1>5
  <2> DEFINE AC == A * C
             u == a * sa
             w == b * sb
  <2>2. u \in Int /\ -AC <= u /\ u < AC BY <1>4, <1>5, <2>1, ScaledFits
  <2>3. w \in Int /\ -AC <= w /\ w < AC BY <1>4, <1>5, <2>1, ScaledFits
  <2>4. AC \in Nat \ {0} /\ F = 2 * AC /\ v = u + w BY <1>4, <1>5, <1>6
  <2>5. sw \in Nat \ {0} BY <1>1
  <2>6. \A y : y \in Signed(sw) <=> y \in Int /\ -T <= y /\ y < T BY <2>5, SignedWords
  <2> HIDE DEF AC, u, w, v, T
  <2>7. v + H \in Int /\ -T <= v + H /\ v + H < T BY <2>2, <2>3, <2>4, <1>6, <1>7
  <2>8. -T <= H /\ H < T BY <2>4, <1>6, <1>7
  <2> QED BY <2>2, <2>3, <2>6, <2>7, <2>8, <1>7 DEF u, w
<1>9. sw \in Nat \ {0} BY <1>1
<1>10. ASSUME in.a = x.a, in.b = x.b PROVE ResaddRight(p, q, 1, x, h)
  <2>1. q.pa = a * sa /\ q.pb = b * sb /\ q.rnd_r = Wrap(H, sw)
    BY <1>10 DEF q, resadd, a, b, sa, sb, sh, H, sw
  <2>2. Wrap(H, sw) = H BY <1>8, <1>9, WrapIn
  <2> QED BY <2>1, <2>2 DEF ResaddRight, a, b, sa, sb, sh, H
<1>11. ASSUME ResaddRight(p, s, 1, x, h) PROVE ResaddRight(p, q, 2, x, h)
  <2>1. s.pa = a * sa /\ s.pb = b * sb /\ s.rnd_r = H BY <1>11 DEF ResaddRight, a, b, sa, sb, sh, H
  <2>2. q.v = Wrap(s.pa + s.pb + s.rnd_r, sw) BY DEF q, resadd, sw
  <2>3. q.v = Wrap(v + H, sw) BY <2>1, <2>2
  <2>4. q.v = v + H BY <2>3, <1>8, <1>9, WrapIn
  <2> QED BY <2>4 DEF ResaddRight, a, b, sa, sb, sh, H
<1>12. ASSUME ResaddRight(p, s, 2, x, h) PROVE ResaddRight(p, q, 3, x, h)
  <2>1. s.v = v + H BY <1>12 DEF ResaddRight, a, b, sa, sb, sh, H
  <2>2. q.y = Clamp(Sra(s.v, sh), dw) BY DEF q, resadd, sh, dw
  <2>3. resadd_golden(a, b, sa, sb, sh, dw) = Clamp(Sra(v + H, sh), dw) BY DEF resadd_golden, _round_shift, H
  <2>4. q.y = resadd_golden(a, b, sa, sb, sh, dw) BY <2>1, <2>2, <2>3
  <2> QED BY <2>4 DEF ResaddRight, a, b, sa, sb, sh, dw
<1>13. \A i \in 1..2 : (i = 1 /\ i + 1 = 2) \/ (i = 2 /\ i + 1 = 3) OBVIOUS
<1> QED BY <1>10, <1>11, <1>12, <1>13

-----------------------------------------------------------------------------
(* SiLU.                                                                   *)

LEMMA SiluSpec ==
  ASSUME NEW m \in Models
  PROVE  LET p == derive_silu_spec(m)
         IN  /\ p.exp = derive_exp_spec(m) /\ p.recip = derive_recip_spec(m)
             /\ p.width = p.exp.in_width /\ p.weight_frac = p.exp.out_frac
             /\ p.width \in Nat \ {0} /\ p.weight_frac \in 1..22 /\ p.recip.in_width >= p.weight_frac + 2
             /\ p.recip.in_width \in Nat
<1> DEFINE p == derive_silu_spec(m)
           e == derive_exp_spec(m)
           c == derive_recip_spec(m)
<1>1. p.exp = e /\ p.recip = c /\ p.width = e.in_width /\ p.weight_frac = e.out_frac BY DEF derive_silu_spec
<1>2. e.in_width \in Nat /\ e.in_width >= 5 /\ e.out_frac \in 1..22 /\ e.out_frac = Sizes.exp_frac BY ExpuSpec
<1>3. c.in_width \in Nat /\ c.in_width >= Sizes.exp_frac + 2 BY RecipSpec
<1> HIDE DEF p, e, c
<1> QED BY <1>1, <1>2, <1>3 DEF p, e, c

Denominator(x, p) == 2^p.weight_frac + exp_golden(Asked(x, p), p.exp)

Top(x, p) == IF x >= 0 THEN 2^p.weight_frac ELSE exp_golden(Asked(x, p), p.exp)

Sigmoid(x, p) ==
  LET mk == recip_golden(Denominator(x, p), p.recip)
  IN  AtMost(recip_apply(Top(x, p) * 2^p.weight_frac, mk[1], mk[2], p.recip), 2^p.weight_frac)

\* The sum under the fraction fits the reciprocal's port.
LEMMA DenominatorFits ==
  ASSUME NEW m \in Models, NEW x \in Signed(derive_silu_spec(m).width)
  PROVE  LET p == derive_silu_spec(m)
             one == 2^p.weight_frac
             e == exp_golden(Asked(x, p), p.exp)
         IN  /\ e \in Nat /\ one \in Nat \ {0}
             /\ Denominator(x, p) = one + e /\ Denominator(x, p) \in 1..(2^p.recip.in_width - 1)
<1> DEFINE p == derive_silu_spec(m)
           f == p.weight_frac
           one == 2^f
           a == Asked(x, p)
           e == exp_golden(a, p.exp)
           iw == p.recip.in_width
           full == 2^iw
<1>1. p.exp = derive_exp_spec(m) /\ f = p.exp.out_frac /\ p.width \in Nat \ {0} /\ f \in 1..22
      /\ iw \in Nat /\ iw >= f + 2
  BY SiluSpec
<1>2. a \in Int /\ a <= 0 BY <1>1, AskedRange
<1>3. e \in 0..(2^(f + 1) - 1)
  <2> HIDE DEF a
  <2>1. exp_golden(a, derive_exp_spec(m)) \in 0..(2^(derive_exp_spec(m).out_frac + 1) - 1) BY <1>2, ExpuRange
  <2> QED BY <1>1, <2>1
<1>4. Denominator(x, p) = one + e BY DEF Denominator
<1> HIDE DEF p, e, f, iw
<1>5. 2^(f + 1) = 2 * one /\ 2^((f + 1) + 1) = 2 * 2^(f + 1) /\ one \in Nat \ {0}
      /\ 2^((f + 1) + 1) <= full /\ full \in Nat
  <2>1. f \in Nat /\ f + 1 \in Nat /\ (f + 1) + 1 \in Nat /\ (f + 1) + 1 <= iw BY <1>1
  <2> QED BY <2>1, <1>1, PowerStep, PowerPositive, PowerMonotone, PowerNat
<1> DEFINE g == 2^(f + 1)
           k == 2^((f + 1) + 1)
<1>6. g = 2 * one /\ k = 2 * g /\ k <= full /\ e \in 0..(g - 1) /\ one \in Nat \ {0} /\ full \in Nat BY <1>3, <1>5
<1> HIDE DEF g, k, one, full
<1>7. e \in Nat /\ one + e \in 1..(full - 1) BY <1>6
<1> QED BY <1>4, <1>6, <1>7 DEF p, e, f, one, iw, full

\* The mantissa is a number, the shift no more than the zeros above the sum.
LEMMA RecipRange ==
  ASSUME NEW m \in Models, NEW d \in Nat, NEW f \in Nat,
         d \in 1..(2^derive_recip_spec(m).in_width - 1), d >= 2^f
  PROVE  LET p == derive_recip_spec(m)
             mk == recip_golden(d, p)
         IN  mk[1] \in Nat /\ mk[2] \in Nat /\ mk[2] <= p.in_width - f - 1
<1> DEFINE p == derive_recip_spec(m)
           iw == p.in_width
           lb == p.lut_bits
           b == bit_length(d)
           k == iw - b
           a == Low(Sra(d * 2^k, iw - 1 - lb), lb)
           n == 2^lb
           one == 2^Sizes.table_width
<1>1. iw \in Nat /\ lb \in Nat /\ lb = Sizes.table_bits /\ lb <= iw - 1
  <2>1. Sizes.exp_frac \in 1..22 BY SizesAssumption
  <2>2. lb = Sizes.table_bits BY DEF derive_recip_spec
  <2> QED BY <2>1, <2>2, RecipSpec
<1>2. d < 2^iw /\ d > 0
  <2> DEFINE c == 2^iw
  <2>1. c \in Nat /\ d \in 1..(c - 1) BY <1>1, PowerNat
  <2> HIDE DEF c
  <2>2. d < c /\ d > 0 BY <2>1
  <2> QED BY <2>2 DEF c
<1>3. b \in Nat /\ b <= iw /\ b > f BY <1>1, <1>2, BitLength, BitLengthWithin, BitLengthBeyond
<1> HIDE DEF b
<1>4. k \in Nat /\ k <= iw - f - 1 BY <1>1, <1>3
<1>5. recip_golden(d, p) = <<Read(recip_lut, a), k>>
  <2>1. ~(d <= 0) BY <1>2
  <2> QED BY <2>1 DEF recip_golden, b
<1>6. Read(recip_lut, a) \in Nat
  <2> HIDE DEF a
  <2>1. CASE a + 1 \notin DOMAIN recip_lut
    <3>1. Read(recip_lut, a) = 1 BY <2>1 DEF Read, Beyond
    <3> QED BY <3>1
  <2>2. CASE a + 1 \in DOMAIN recip_lut
    <3> DEFINE i == a + 1
               num == 2 * one * n + n + i - 1
               den == 2 * (n + i - 1)
    <3>1. recip_lut = [j \in 1..n |-> AtMost((2 * one * n + n + j - 1) \div (2 * (n + j - 1)), one - 1)]
      BY <1>1 DEF recip_lut
    <3> HIDE DEF i
    <3>2. i \in 1..n BY <2>2, <3>1 DEF i
    <3>3. recip_lut[i] = AtMost(num \div den, one - 1) BY <3>1, <3>2
    <3>4. one \in Nat \ {0} /\ n \in Nat \ {0} BY <1>1, PowerPositive, SizesAssumption
    <3> HIDE DEF one, n
    <3>5. num \in Nat /\ den \in Nat \ {0}
      <4>1. 2 * one * n \in Nat BY <3>4
      <4> QED BY <4>1, <3>2, <3>4
    <3> HIDE DEF num, den
    <3>6. num \div den \in Nat BY <3>5, QuotientNat
    <3>7. recip_lut[i] \in Nat BY <3>3, <3>4, <3>6 DEF AtMost
    <3> QED BY <2>2, <3>7 DEF Read, i
  <2> QED BY <2>1, <2>2
<1> HIDE DEF p, a, k
<1> QED BY <1>4, <1>5, <1>6 DEF p

-----------------------------------------------------------------------------
(* The requantizer's flags.                                                *)

LEMMA RequantSpec ==
  ASSUME NEW m \in Models
  PROVE  LET p == derive_requant_spec(m)
         IN  /\ p.acc_width \in Nat \ {0} /\ p.out_width \in Nat \ {0}
             /\ p.scale_width \in Nat /\ p.scale_splits \in Nat /\ p.scale_splits >= 3
             /\ p.scale_splits <= p.scale_width /\ p.acc_slices \in {1, 2} /\ p.per_add \in {1, 2}
             /\ p.acc_slices = 2 => p.acc_width > Sizes.acc_slice
             /\ Levels(p) \in Nat \ {0}
             /\ p.pipeline_stages = Levels(p) * p.per_add + p.per_add + 3
<1> DEFINE p == derive_requant_spec(m)
           aw == acc_width(m)
           mw == Sizes.scale_width
           z == aw - Sizes.whole_acc + 7
           y == AtLeast(z \div 8, 0)
           x == 3 + y
           sp == Min({mw, x})
           c == IF aw > Sizes.acc_slice THEN 2 ELSE 1
           t == sp * c
           pa == per_add(aw, mw)
           l == CeilLog2(t)
<1>1. aw \in Nat \ {0} /\ data_width(m) \in Nat \ {0} BY WidthsNat
<1>2. mw \in Nat /\ mw >= 3 /\ Sizes.whole_acc \in Nat BY SizesAssumption
<1>3. /\ p.acc_width = aw /\ p.out_width = data_width(m) /\ p.scale_width = mw /\ p.scale_splits = sp
      /\ p.acc_slices = t \div sp /\ p.per_add = pa
      /\ p.pipeline_stages = 1 + CeilLog2(t) * pa + pa + 2
  BY DEF derive_requant_spec, requant_terms, requant_stages
<1>4. pa \in {1, 2} BY DEF per_add
<1>5. c \in {1, 2} /\ (c = 2 => aw > Sizes.acc_slice) OBVIOUS
<1> HIDE DEF aw, mw, pa, c
<1>6. y \in Nat
  <2>1. z \in Int BY <1>1, <1>2
  <2> HIDE DEF z
  <2>2. z \div 8 \in Int BY <2>1
  <2> QED BY <2>2 DEF AtLeast
<1> HIDE DEF y
<1>7. x \in Nat /\ x >= 3 BY <1>6
<1> HIDE DEF x
<1>8. sp \in {mw, x} /\ sp <= mw BY <1>2, <1>7, SmallerOfTwo
<1>9. sp \in Nat /\ sp >= 3 BY <1>2, <1>7, <1>8
<1> HIDE DEF sp
<1>10. t \div sp = c /\ t \in Nat /\ t >= 3
  <2>1. t \in Int /\ c \in Int /\ sp \in Nat \ {0} /\ t = c * sp + 0 BY <1>5, <1>9
  <2>2. 0 <= 0 /\ 0 < sp BY <1>9
  <2> HIDE DEF t
  <2>3. t \div sp = c BY <2>1, <2>2, QuotientOnly
  <2>4. t >= 3 BY <2>1, <1>5, <1>9
  <2> QED BY <2>1, <2>3, <2>4
<1>11. p.acc_slices * p.scale_splits = t BY <1>3, <1>10, <1>5, <1>9
<1> HIDE DEF t
<1>12. Levels(p) = l BY <1>11 DEF Levels
<1>13. l \in Nat /\ t <= 2^l BY <1>10, LogarithmRoundedUp
<1>14. l # 0
  <2>1. ASSUME l = 0 PROVE FALSE
    <3>1. 2^l = 1 BY <2>1, PowerOne
    <3> HIDE DEF l
    <3> QED BY <3>1, <1>10, <1>13
  <2> QED BY <2>1
<1> HIDE DEF l
<1>15. p.pipeline_stages = l * pa + pa + 3 BY <1>3, <1>4, <1>13 DEF l
<1>16. p.acc_slices = c /\ p.acc_width = aw BY <1>3, <1>10
<1> HIDE DEF p
<1> QED BY <1>1, <1>2, <1>3, <1>4, <1>5, <1>8, <1>9, <1>12, <1>13, <1>14, <1>15, <1>16 DEF p

LEMMA RequantFlags ==
  ASSUME NEW p, NEW s, NEW in, p.pipeline_stages \in Nat, p.pipeline_stages >= 2, in.clear = FALSE,
         IsChain(s.v, p.pipeline_stages - 1)
  PROVE  /\ FlagsAfter("requant", p, s, in)
         /\ IsChain(requant(p, s, in).v, p.pipeline_stages - 1)
<1> DEFINE q == requant(p, s, in)
           n == p.pipeline_stages
           a == in.valid_in
           v == s.v
<1>1. Latency("requant", p) = n /\ AfterEdge("requant", p, s, in) = q BY DEF Latency, AfterEdge
<1>2. q.v = Shifted(v, a) /\ q.valid_out = Last(v) BY DEF requant
<1>3. n - 1 \in Nat \ {0} OBVIOUS
<1>4. /\ IsChain(Shifted(v, a), n - 1)
      /\ \A i \in 1..(n - 1) : Shifted(v, a)[i] = Entered(v, a, i)
      /\ Last(v) = v[n - 1]
  <2>1. IsChain(v, n - 1) OBVIOUS
  <2> HIDE DEF n, v, a
  <2> QED BY <1>3, <2>1, ChainMoves
<1>5. /\ Flags("requant", p, q) = [i \in 1..n |-> IF i = n THEN q.valid_out ELSE q.v[i]]
      /\ Flags("requant", p, s) = [i \in 1..n |-> IF i = n THEN s.valid_out ELSE s.v[i]]
  BY DEF Flags
<1>6. ASSUME NEW i \in 1..n
      PROVE  Flags("requant", p, q)[i] = IF i = 1 THEN a ELSE Flags("requant", p, s)[i - 1]
  <2> HIDE DEF q, a
  <2>1. CASE i = n
    <3>1. Flags("requant", p, q)[i] = v[n - 1] BY <2>1, <1>2, <1>4, <1>5
    <3>2. n - 1 \in 1..n /\ n - 1 # n /\ i # 1 BY <2>1
    <3>3. Flags("requant", p, s)[n - 1] = v[n - 1] BY <3>2, <1>5
    <3> QED BY <2>1, <3>1, <3>2, <3>3
  <2>2. CASE i # n /\ i = 1
    <3>1. i \in 1..(n - 1) BY <2>2
    <3>2. Flags("requant", p, q)[i] = Entered(v, a, i) BY <2>2, <3>1, <1>2, <1>4, <1>5
    <3> QED BY <2>2, <3>2 DEF Entered
  <2>3. CASE i # n /\ i # 1
    <3>1. i \in 1..(n - 1) /\ i - 1 \in 1..n /\ i - 1 # n BY <2>3
    <3>2. Flags("requant", p, q)[i] = Entered(v, a, i) BY <2>3, <3>1, <1>2, <1>4, <1>5
    <3>3. Flags("requant", p, s)[i - 1] = v[i - 1] BY <3>1, <1>5
    <3> QED BY <2>3, <3>2, <3>3 DEF Entered
  <2> QED BY <2>1, <2>2, <2>3
<1> HIDE DEF q, a
<1>7. FlagsAfter("requant", p, s, in)
  BY <1>1, <1>6 DEF FlagsAfter, a
<1> QED BY <1>2, <1>4, <1>7 DEF q

-----------------------------------------------------------------------------
(* A pipeline on the bench: its description, its ports, a reset.           *)

\* The registers a flag goes through are a row of the right length.
Shaped(u, p, s) == CASE u = "requant" -> IsChain(s.v, p.pipeline_stages - 1)
                     [] u = "crc" -> DOMAIN s = {"state", "crc_out", "valid_out"}
                     [] OTHER -> TRUE

\* The unit and the model of a pipeline, and its description.
LEMMA Pipes ==
  ASSUME NEW b \in Piped
  PROVE  /\ Bench.specs[b] = Derived(b[1], b[2])
         /\ b[1] \in Pipelined
         /\ b[1] # "crc" => b[2] \in Models
         /\ b[1] = "crc" => b[2] \in Endpoints
BY BenchAssumption DEF Piped, Pipelined

LEMMA CrcSpec ==
  ASSUME NEW m \in Endpoints PROVE Derived("crc", m).pipeline_stages = 1
BY DEF Derived, derive_endpoint_spec

LEMMA LatencyNat ==
  ASSUME NEW b \in Piped
  PROVE  LET u == b[1]
             p == Bench.specs[b]
         IN  Latency(u, p) \in Nat \ {0} /\ (u = "requant" => p.pipeline_stages >= 2)
<1> DEFINE u == b[1]
           m == b[2]
           p == Bench.specs[b]
<1>1. p = Derived(u, m) /\ u \in Pipelined /\ (u # "crc" => m \in Models) /\ (u = "crc" => m \in Endpoints)
  BY Pipes
<1> SUFFICES Latency(u, p) \in Nat \ {0} /\ (u = "requant" => p.pipeline_stages >= 2) OBVIOUS
<1> HIDE DEF u, m, p
<1>2. CASE u = "mac"
  <2>1. p.pipeline_stages \in {2, 3} BY <1>1, <1>2, MacSpec DEF Derived
  <2> QED BY <1>2, <2>1 DEF Latency
<1>3. CASE u = "requant"
  <2>1. p = derive_requant_spec(m) /\ m \in Models BY <1>1, <1>3 DEF Derived
  <2> DEFINE l == Levels(p)
  <2>2. l \in Nat \ {0} /\ p.per_add \in {1, 2} /\ p.pipeline_stages = l * p.per_add + p.per_add + 3
    BY <2>1, RequantSpec
  <2> HIDE DEF l
  <2>3. l * p.per_add \in Nat BY <2>2
  <2>4. p.pipeline_stages \in Nat /\ p.pipeline_stages >= 2 BY <2>2, <2>3
  <2> QED BY <1>3, <2>4 DEF Latency
<1>4. CASE u = "expu"
  <2>1. p.pipeline_stages = 3 BY <1>1, <1>4, ExpuSpec DEF Derived
  <2> QED BY <1>4, <2>1 DEF Latency
<1>5. CASE u = "recip"
  <2>1. p.pipeline_stages = 3 BY <1>1, <1>5, RecipSpec DEF Derived
  <2> QED BY <1>5, <2>1 DEF Latency
<1>6. CASE u = "rsqrt"
  <2>1. p.pipeline_stages = 3 BY <1>1, <1>6, RsqrtSpec DEF Derived
  <2> QED BY <1>6, <2>1 DEF Latency
<1>7. CASE u = "silu"
  <2>1. p = derive_silu_spec(m) /\ m \in Models BY <1>1, <1>7 DEF Derived
  <2>2. p.exp.pipeline_stages = 3 /\ p.recip.pipeline_stages = 3 BY <2>1, SiluSpec, ExpuSpec, RecipSpec
  <2> QED BY <1>7, <2>2 DEF Latency
<1>8. CASE u = "rope" BY <1>8 DEF Latency
<1>9. CASE u = "resadd" BY <1>9 DEF Latency
<1>10. CASE u = "crc"
  <2>1. p.pipeline_stages = 1 BY <1>1, <1>10, CrcSpec
  <2> QED BY <1>10, <2>1 DEF Latency
<1>11. u \in {"mac", "requant", "expu", "recip", "rsqrt", "silu", "rope", "resadd", "crc"} BY <1>1 DEF Pipelined
<1> QED BY <1>2, <1>3, <1>4, <1>5, <1>6, <1>7, <1>8, <1>9, <1>10, <1>11

\* The last flag is the one the unit's ports show.
LEMMA LastFlag ==
  ASSUME NEW b \in Piped, NEW s
  PROVE  LET u == b[1]
             p == Bench.specs[b]
         IN  Flags(u, p, s)[Latency(u, p)] = s.valid_out
<1> DEFINE u == b[1]
           m == b[2]
           p == Bench.specs[b]
<1>1. p = Derived(u, m) /\ u \in Pipelined /\ (u # "crc" => m \in Models) /\ (u = "crc" => m \in Endpoints)
  BY Pipes
<1>0. Latency(u, p) \in Nat \ {0} BY LatencyNat
<1> SUFFICES Flags(u, p, s)[Latency(u, p)] = s.valid_out OBVIOUS
<1> HIDE DEF u, m, p
<1>2. CASE u = "mac"
  <2>1. p.pipeline_stages \in {2, 3} BY <1>1, <1>2, MacSpec DEF Derived
  <2> QED BY <1>2, <2>1 DEF Latency, Flags, Split
<1>3. CASE u = "requant"
  <2>1. p.pipeline_stages \in Nat \ {0} BY <1>0, <1>3 DEF Latency
  <2> QED BY <1>3, <2>1 DEF Latency, Flags
<1>4. CASE u = "expu"
  <2>1. p.pipeline_stages = 3 BY <1>1, <1>4, ExpuSpec DEF Derived
  <2> QED BY <1>4, <2>1 DEF Latency, Flags
<1>5. CASE u = "recip"
  <2>1. p.pipeline_stages = 3 BY <1>1, <1>5, RecipSpec DEF Derived
  <2> QED BY <1>5, <2>1 DEF Latency, Flags
<1>6. CASE u = "rsqrt"
  <2>1. p.pipeline_stages = 3 BY <1>1, <1>6, RsqrtSpec DEF Derived
  <2> QED BY <1>6, <2>1 DEF Latency, Flags
<1>7. CASE u = "silu"
  <2>1. p = derive_silu_spec(m) /\ m \in Models BY <1>1, <1>7 DEF Derived
  <2>2. p.exp.pipeline_stages = 3 /\ p.recip.pipeline_stages = 3 BY <2>1, SiluSpec, ExpuSpec, RecipSpec
  <2> QED BY <1>7, <2>2 DEF Latency, Flags
<1>8. CASE u = "rope" BY <1>8 DEF Latency, Flags
<1>9. CASE u = "resadd" BY <1>9 DEF Latency, Flags
<1>10. CASE u = "crc"
  <2>1. p.pipeline_stages = 1 BY <1>1, <1>10, CrcSpec
  <2> QED BY <1>10, <2>1 DEF Latency, Flags
<1>11. u \in {"mac", "requant", "expu", "recip", "rsqrt", "silu", "rope", "resadd", "crc"} BY <1>1 DEF Pipelined
<1> QED BY <1>2, <1>3, <1>4, <1>5, <1>6, <1>7, <1>8, <1>9, <1>10, <1>11

\* An edge moves every unit's flags on and keeps the row's length.
LEMMA FlagsMove ==
  ASSUME NEW b \in Piped, NEW s, NEW in, in.clear \in BOOLEAN, in.valid_in \in BOOLEAN,
         in.clear => b[1] \in Summing, Shaped(b[1], Bench.specs[b], s),
         \A i \in 1..Latency(b[1], Bench.specs[b]) : Flags(b[1], Bench.specs[b], s)[i] \in BOOLEAN
  PROVE  LET u == b[1]
             p == Bench.specs[b]
         IN  FlagsAfter(u, p, s, in) /\ Shaped(u, p, AfterEdge(u, p, s, in))
<1> DEFINE u == b[1]
           m == b[2]
           p == Bench.specs[b]
<1>1. p = Derived(u, m) /\ u \in Pipelined /\ (u # "crc" => m \in Models) /\ (u = "crc" => m \in Endpoints)
  BY Pipes
<1>0. Latency(u, p) \in Nat \ {0} /\ (u = "requant" => p.pipeline_stages >= 2) BY LatencyNat
<1>12. /\ in.clear => u \in Summing
       /\ Shaped(u, p, s)
       /\ \A i \in 1..Latency(u, p) : Flags(u, p, s)[i] \in BOOLEAN
  OBVIOUS
<1> SUFFICES FlagsAfter(u, p, s, in) /\ Shaped(u, p, AfterEdge(u, p, s, in)) OBVIOUS
<1> HIDE DEF u, m, p
<1>13. u \notin Summing => in.clear = FALSE BY <1>12
<1>2. CASE u = "mac"
  <2>1. p.pipeline_stages \in {2, 3} BY <1>1, <1>2, MacSpec DEF Derived
  <2>2. Latency("mac", p) = p.pipeline_stages BY DEF Latency
  <2> QED BY <1>2, <1>12, <2>1, <2>2, MacFlags DEF Shaped
<1>3. CASE u = "requant"
  <2>1. p.pipeline_stages \in Nat /\ p.pipeline_stages >= 2 BY <1>0, <1>3 DEF Latency
  <2>2. in.clear = FALSE BY <1>3, <1>13 DEF Summing
  <2>3. IsChain(s.v, p.pipeline_stages - 1) BY <1>3, <1>12 DEF Shaped
  <2> QED BY <1>3, <2>1, <2>2, <2>3, RequantFlags DEF Shaped, AfterEdge
<1>4. CASE u \in {"expu", "recip", "rsqrt"}
  <2>1. p.pipeline_stages = 3 BY <1>1, <1>4, ExpuSpec, RecipSpec, RsqrtSpec DEF Derived
  <2>2. in.clear = FALSE BY <1>4, <1>13 DEF Summing
  <2> QED BY <1>4, <2>1, <2>2, TableFlags DEF Shaped
<1>7. CASE u = "silu"
  <2>1. p = derive_silu_spec(m) /\ m \in Models BY <1>1, <1>7 DEF Derived
  <2>2. p.exp.pipeline_stages = 3 /\ p.recip.pipeline_stages = 3 BY <2>1, SiluSpec, ExpuSpec, RecipSpec
  <2>3. in.clear = FALSE BY <1>7, <1>13 DEF Summing
  <2> QED BY <1>7, <2>2, <2>3, SiluFlags DEF Shaped
<1>8. CASE u = "rope"
  <2>3. in.clear = FALSE BY <1>8, <1>13 DEF Summing
  <2> QED BY <1>8, <1>12, <2>3, RopeFlags DEF Shaped
<1>9. CASE u = "resadd"
  <2>3. in.clear = FALSE BY <1>9, <1>13 DEF Summing
  <2> QED BY <1>9, <2>3, ResaddFlags DEF Shaped
<1>10. CASE u = "crc"
  <2>1. p.pipeline_stages = 1 BY <1>1, <1>10, CrcSpec
  <2>2. DOMAIN s = {"state", "crc_out", "valid_out"} BY <1>10, <1>12 DEF Shaped
  <2>3. FlagsAfter("crc", p, s, in) BY <2>1, <2>2, CrcFlags
  <2>4. DOMAIN crc(p, s, in) = {"state", "crc_out", "valid_out"}
    <3>1. CASE in.clear BY <3>1, <2>2 DEF crc
    <3>2. CASE ~in.clear /\ in.valid_in BY <3>2 DEF crc
    <3>3. CASE ~in.clear /\ ~in.valid_in BY <3>3, <2>2 DEF crc
    <3> QED BY <3>1, <3>2, <3>3
  <2> QED BY <1>10, <2>3, <2>4 DEF Shaped, AfterEdge
<1>11. u \in {"mac", "requant", "expu", "recip", "rsqrt", "silu", "rope", "resadd", "crc"} BY <1>1 DEF Pipelined
<1> QED BY <1>2, <1>3, <1>4, <1>7, <1>8, <1>9, <1>10, <1>11

-----------------------------------------------------------------------------
(* What an edge is given: a sample, what is held, and the two flags.       *)

PortFields(u) ==
  CASE u \in {"mac", "resadd"} -> {"a", "b"}
    [] u = "requant" -> {"acc_in", "scale", "shift"}
    [] u \in {"expu", "recip", "rsqrt", "silu"} -> {"x"}
    [] u = "rope" -> {"x1", "x2", "idx", "pos"}
    [] u = "crc" -> {"data"}

HeldFields(u) == IF u = "resadd" THEN {"scale_a", "scale_b", "shift"} ELSE {}

LEMMA Fields ==
  ASSUME NEW b \in Piped, NEW in \in Ports(b[1], Bench.specs[b]), NEW held \in Held(b[1], Bench.specs[b])
  PROVE  DOMAIN in = PortFields(b[1]) /\ DOMAIN held = HeldFields(b[1])
<1> DEFINE u == b[1]
           m == b[2]
           p == Bench.specs[b]
<1>1. p = Derived(u, m) /\ u \in Pipelined /\ (u # "crc" => m \in Models) BY Pipes
<1>2. in \in Ports(u, p) /\ held \in Held(u, p) OBVIOUS
<1> SUFFICES DOMAIN in = PortFields(u) /\ DOMAIN held = HeldFields(u) OBVIOUS
<1> HIDE DEF u, m, p
<1>3. DOMAIN in = PortFields(u)
  <2>1. CASE u \in {"mac", "resadd"} BY <2>1, <1>2 DEF Ports, PortFields
  <2>2. CASE u = "requant"
    <3>1. in \in [acc_in : Signed(p.acc_width), scale : 0..(2^p.scale_width - 1), shift : 0..(Width(p) - 1)]
      BY <2>2, <1>2 DEF Ports
    <3> QED BY <2>2, <3>1 DEF PortFields
  <2>3. CASE u = "expu" BY <2>3, <1>2 DEF Ports, PortFields
  <2>4. CASE u \in {"recip", "rsqrt"} BY <2>4, <1>2 DEF Ports, PortFields
  <2>5. CASE u = "silu" BY <2>5, <1>2 DEF Ports, PortFields
  <2>6. CASE u = "rope" BY <2>6, <1>2 DEF Ports, PortFields
  <2>7. CASE u = "crc" BY <2>7, <1>2 DEF Ports, PortFields
  <2> QED BY <1>1, <2>1, <2>2, <2>3, <2>4, <2>5, <2>6, <2>7 DEF Pipelined
<1>4. DOMAIN held = HeldFields(u)
  <2>1. CASE u = "resadd"
    <3>1. p = derive_resadd_spec(m) /\ m \in Models BY <2>1, <1>1 DEF Derived
    <3>2. held \in resadd_held(p) BY <2>1, <1>2 DEF Held
    <3>3. DOMAIN held = {"scale_a", "scale_b", "shift"} BY <3>1, <3>2, ResaddHeld
    <3> QED BY <2>1, <3>3 DEF HeldFields
  <2>2. CASE u # "resadd"
    <3>1. held = <<>> BY <2>2, <1>2 DEF Held
    <3>2. DOMAIN held = {} BY <3>1
    <3> QED BY <2>2, <3>2 DEF HeldFields
  <2> QED BY <2>1, <2>2
<1> QED BY <1>3, <1>4

\* The sample as the reference model is given it, and as the edge is.
Full(x, held) == Joined(x, held)

Given(x, held, valid, clear) == Joined(Joined(x, held), [valid_in |-> valid, clear |-> clear])

LEMMA GivenFields ==
  ASSUME NEW b \in Piped, NEW in \in Ports(b[1], Bench.specs[b]), NEW held \in Held(b[1], Bench.specs[b]),
         NEW valid, NEW clear
  PROVE  LET g == Given(in, held, valid, clear)
         IN  /\ g.valid_in = valid /\ g.clear = clear
             /\ \A f \in PortFields(b[1]) : g[f] = in[f] /\ Full(in, held)[f] = in[f]
             /\ \A f \in HeldFields(b[1]) : g[f] = held[f] /\ Full(in, held)[f] = held[f]
<1> DEFINE u == b[1]
           w == [valid_in |-> valid, clear |-> clear]
           j == Joined(in, held)
           g == Joined(j, w)
           A == PortFields(u)
           H == HeldFields(u)
<1>1. DOMAIN in = A /\ DOMAIN held = H BY Fields
<1>2. u \in Pipelined BY Pipes
<1> HIDE DEF u
<1>3. /\ "valid_in" \notin A /\ "clear" \notin A /\ "valid_in" \notin H /\ "clear" \notin H
      /\ \A f \in H : f \notin A
  <2>1. CASE u = "resadd" BY <2>1 DEF PortFields, HeldFields
  <2>2. CASE u # "resadd"
    <3>1. H = {} BY <2>2 DEF HeldFields
    <3>2. "valid_in" \notin A /\ "clear" \notin A BY <1>2, <2>2 DEF PortFields, Pipelined
    <3> QED BY <3>1, <3>2
  <2> QED BY <2>1, <2>2
<1> HIDE DEF A, H
<1>4. j = [x \in A \union H |-> IF x \in A THEN in[x] ELSE held[x]] BY <1>1 DEF Joined
<1>5. DOMAIN j = A \union H BY <1>4
<1>6. DOMAIN w = {"valid_in", "clear"} /\ w.valid_in = valid /\ w.clear = clear OBVIOUS
<1> HIDE DEF j, w
<1>7. g = [x \in A \union H \union {"valid_in", "clear"} |-> IF x \in A \union H THEN j[x] ELSE w[x]]
  BY <1>5, <1>6 DEF Joined
<1> HIDE DEF g
<1>8. g.valid_in = valid /\ g.clear = clear BY <1>3, <1>6, <1>7
<1>9. \A f \in A : g[f] = in[f] /\ j[f] = in[f] BY <1>4, <1>7
<1>10. \A f \in H : g[f] = held[f] /\ j[f] = held[f] BY <1>3, <1>4, <1>7
<1> QED BY <1>8, <1>9, <1>10 DEF g, j, w, A, H, u, Given, Full

LEMMA ResetFlags ==
  ASSUME NEW b \in Piped
  PROVE  LET u == b[1]
             p == Bench.specs[b]
         IN  /\ Shaped(u, p, Reset(u, p))
             /\ \A i \in 1..Latency(u, p) : Flags(u, p, Reset(u, p))[i] = FALSE
<1> DEFINE u == b[1]
           m == b[2]
           p == Bench.specs[b]
           s == Reset(u, p)
<1>1. p = Derived(u, m) /\ u \in Pipelined /\ (u # "crc" => m \in Models) /\ (u = "crc" => m \in Endpoints)
  BY Pipes
<1>0. Latency(u, p) \in Nat \ {0} /\ (u = "requant" => p.pipeline_stages >= 2) BY LatencyNat
<1> SUFFICES Shaped(u, p, s) /\ \A i \in 1..Latency(u, p) : Flags(u, p, s)[i] = FALSE OBVIOUS
<1> HIDE DEF u, m, p
<1>2. CASE u = "mac"
  <2>1. p.pipeline_stages \in {2, 3} BY <1>1, <1>2, MacSpec DEF Derived
  <2> QED BY <1>2, <2>1 DEF Latency, Flags, Split, Shaped, Reset, mac_reset
<1>3. CASE u = "requant"
  <2>1. p.pipeline_stages \in Nat \ {0} BY <1>0, <1>3 DEF Latency
  <2> DEFINE n == p.pipeline_stages
  <2>2. s.v = [i \in 1..(n - 1) |-> FALSE] /\ s.valid_out = FALSE BY <1>3 DEF Reset, requant_reset, Chain
  <2>3. Latency(u, p) = n BY <1>3 DEF Latency
  <2>4. Flags(u, p, s) = [i \in 1..n |-> IF i = n THEN s.valid_out ELSE s.v[i]] BY <1>3 DEF Flags
  <2>5. Shaped(u, p, s) BY <1>3, <2>2 DEF Shaped, IsChain
  <2> HIDE DEF s, n
  <2>6. \A i \in 1..n : Flags(u, p, s)[i] = FALSE
    <3>1. ASSUME NEW i \in 1..n, i # n PROVE s.v[i] = FALSE
      <4>1. n \in Nat BY <2>1 DEF n
      <4>2. i \in 1..(n - 1) BY <3>1, <4>1
      <4> QED BY <2>2, <4>2
    <3> QED BY <2>2, <2>4, <3>1
  <2> QED BY <2>3, <2>5, <2>6
<1>4. CASE u = "expu"
  <2>1. p.pipeline_stages = 3 BY <1>1, <1>4, ExpuSpec DEF Derived
  <2> QED BY <1>4, <2>1 DEF Latency, Flags, Shaped, Reset, expu_reset
<1>5. CASE u = "recip"
  <2>1. p.pipeline_stages = 3 BY <1>1, <1>5, RecipSpec DEF Derived
  <2> QED BY <1>5, <2>1 DEF Latency, Flags, Shaped, Reset, recip_reset
<1>6. CASE u = "rsqrt"
  <2>1. p.pipeline_stages = 3 BY <1>1, <1>6, RsqrtSpec DEF Derived
  <2> QED BY <1>6, <2>1 DEF Latency, Flags, Shaped, Reset, rsqrt_reset
<1>7. CASE u = "silu"
  <2>1. p = derive_silu_spec(m) /\ m \in Models BY <1>1, <1>7 DEF Derived
  <2>2. p.exp.pipeline_stages = 3 /\ p.recip.pipeline_stages = 3 BY <2>1, SiluSpec, ExpuSpec, RecipSpec
  <2>3. /\ s.v0 = FALSE /\ s.ex = expu_reset(p.exp) /\ s.vd = FALSE /\ s.rc = recip_reset(p.recip)
        /\ s.v1 = FALSE /\ s.v2 = FALSE /\ s.valid_out = FALSE
    BY <1>7 DEF Reset, silu_reset
  <2>4. s.ex.vpipe = FALSE /\ s.ex.vpipe2 = FALSE /\ s.ex.valid_out = FALSE BY <2>3 DEF expu_reset
  <2>5. s.rc.vpipe = FALSE /\ s.rc.vpipe2 = FALSE /\ s.rc.valid_out = FALSE BY <2>3 DEF recip_reset
  <2>6. Latency(u, p) = 11 BY <1>7, <2>2 DEF Latency
  <2>7. Flags(u, p, s) = <<s.v0, s.ex.vpipe, s.ex.vpipe2, s.ex.valid_out, s.vd, s.rc.vpipe, s.rc.vpipe2,
                           s.rc.valid_out, s.v1, s.v2, s.valid_out>> BY <1>7 DEF Flags
  <2> HIDE DEF s
  <2> DEFINE no == FALSE
  <2>8. Flags(u, p, s) = <<no, no, no, no, no, no, no, no, no, no, no>> BY <2>3, <2>4, <2>5, <2>7
  <2> HIDE DEF no
  <2>9. \A i \in 1..11 : Flags(u, p, s)[i] = no BY <2>8
  <2> QED BY <1>7, <2>6, <2>9 DEF Shaped, no
<1>8. CASE u = "rope" BY <1>8 DEF Latency, Flags, Shaped, Reset, rope_reset
<1>9. CASE u = "resadd" BY <1>9 DEF Latency, Flags, Shaped, Reset, resadd_reset
<1>10. CASE u = "crc"
  <2>1. p.pipeline_stages = 1 BY <1>1, <1>10, CrcSpec
  <2> QED BY <1>10, <2>1 DEF Latency, Flags, Shaped, Reset, crc_reset
<1>11. u \in {"mac", "requant", "expu", "recip", "rsqrt", "silu", "rope", "resadd", "crc"} BY <1>1 DEF Pipelined
<1> QED BY <1>2, <1>3, <1>4, <1>5, <1>6, <1>7, <1>8, <1>9, <1>10, <1>11

LEMMA NotBoth == \A b \in Piped : b \notin Runs
<1> SUFFICES ASSUME NEW b \in Piped, b \in Runs PROVE FALSE OBVIOUS
<1>1. b[1] \in Pipelined BY Pipes
<1>2. b[1] \in Sequenced \union Decoding BY CheckpointsAssumption DEF Runs
<1>3. Pipelined \cap (Sequenced \union Decoding) = {} BY DEF Pipelined, Sequenced, Decoding, Fleets
<1> QED BY <1>1, <1>2, <1>3

-----------------------------------------------------------------------------
(* The flags follow the line of what has entered.                          *)

TbFields == {"mode", "held", "line", "want", "resets", "left", "clears"}

LineInv ==
  block \in Piped =>
    /\ DOMAIN tb = TbFields
    /\ tb.held \in Held(unit, spec)
    /\ tb.line \in [1..Latency(unit, spec) -> Slots(unit, spec)]
    /\ Shaped(unit, spec, r)
    /\ \A i \in 1..Latency(unit, spec) : Flags(unit, spec, r)[i] = (tb.line[i] # <<>>)

\* What a step of a pipeline is: a sample or none, from the ports.
Offering(in, valid, clear) ==
  /\ block \in Piped /\ in \in Ports(unit, spec) /\ valid \in BOOLEAN /\ clear \in BOOLEAN
  /\ clear => unit \in Summing
  /\ Clocked(in, valid, clear)

Entering(in, valid) == IF valid THEN <<in>> ELSE <<>>

LEMMA Offers ==
  ASSUME Sample \/ Gap \/ Clear
  PROVE  \E in, valid, clear : Offering(in, valid, clear)
<1>1. block \in Piped BY DEF Sample, Gap, Clear
<1>2. Bench.samples[block] \subseteq Ports(unit, spec) /\ Bench.bursts[block] \subseteq Ports(unit, spec)
      /\ Bench.bursts[block] # {}
  BY <1>1, BenchAssumption DEF unit, spec
<1>3. Idle \in Ports(unit, spec)
  <2>1. \E in \in Bench.bursts[block] : TRUE BY <1>2
  <2>2. Idle \in Bench.bursts[block] BY <2>1 DEF Idle
  <2> QED BY <1>2, <2>2
<1>4. CASE Sample
  <2>1. PICK in \in Offered : Clocked(in, TRUE, FALSE) BY <1>4 DEF Sample
  <2>2. in \in Ports(unit, spec) BY <1>2, <2>1 DEF Offered
  <2>3. Offering(in, TRUE, FALSE) BY <1>1, <2>1, <2>2 DEF Offering
  <2> QED BY <2>3
<1>5. CASE Gap
  <2>1. Offering(Idle, FALSE, FALSE) BY <1>1, <1>3, <1>5 DEF Offering, Gap
  <2> QED BY <2>1
<1>6. CASE Clear
  <2>0. (tb.left > 0) \in BOOLEAN OBVIOUS
  <2>1. Offering(Idle, tb.left > 0, TRUE) BY <2>0, <1>1, <1>3, <1>6 DEF Offering, Clear
  <2> QED BY <2>1
<1> QED BY <1>4, <1>5, <1>6

LEMMA ClockedTb ==
  ASSUME NEW in, NEW valid, NEW clear, Offering(in, valid, clear), LineInv
  PROVE  /\ UNCHANGED block /\ DOMAIN tb' = TbFields /\ tb'.held = tb.held
         /\ tb'.line = Moved(tb.line, Latency(unit, spec), Entering(in, valid), clear)
         /\ r' = AfterEdge(unit, spec, r, Given(in, tb.held, valid, clear))
         /\ tb'.want = LET answered == IF clear THEN <<>>
                                       ELSE Last(Shifted(tb.line, Entering(in, valid)))
                       IN  CASE clear -> NothingSummed(unit)
                             [] ~clear /\ answered # <<>> ->
                                  Golden(unit, spec, Full(answered[1], tb.held), tb.want)
                             [] OTHER -> tb.want
<1> DEFINE e == IF valid THEN <<in>> ELSE <<>>
           line == Shifted(tb.line, e)
           answered == IF clear THEN <<>> ELSE Last(line)
           moved == Append(Front(line), answered)
           want == CASE clear -> NothingSummed(unit)
                     [] ~clear /\ answered # <<>> ->
                          Golden(unit, spec, Joined(answered[1], tb.held), tb.want)
                     [] OTHER -> tb.want
           n == Latency(unit, spec)
           S == Slots(unit, spec)
<1>1. block \in Piped /\ in \in Ports(unit, spec) /\ valid \in BOOLEAN /\ clear \in BOOLEAN BY DEF Offering
<1>2. n \in Nat \ {0} BY <1>1, LatencyNat DEF unit, spec
<1>3. DOMAIN tb = TbFields /\ tb.line \in [1..n -> S] BY <1>1 DEF LineInv
<1>4. e \in S BY <1>1 DEF Slots
<1>5. /\ UNCHANGED block
      /\ r' = Edge(unit, spec, Joined(Joined(in, tb.held), [valid_in |-> valid, clear |-> clear]))
      /\ tb' = [tb EXCEPT !.line = moved, !.left = IF valid THEN @ - 1 ELSE @,
                          !.clears = IF clear THEN @ - 1 ELSE @, !.want = want]
  BY DEF Offering, Clocked
<1>6. moved = Moved(tb.line, n, e, clear)
  <2> HIDE DEF n, S, e
  <2> QED BY <1>1, <1>2, <1>3, <1>4, LineMoves
<1>7. Edge(unit, spec, Given(in, tb.held, valid, clear)) = AfterEdge(unit, spec, r, Given(in, tb.held, valid, clear))
  BY DEF Edge, AfterEdge
<1> HIDE DEF moved, want, e
<1>8. DOMAIN tb' = TbFields /\ tb'.held = tb.held /\ tb'.line = moved /\ tb'.want = want
  BY <1>3, <1>5 DEF TbFields
<1>9. r' = AfterEdge(unit, spec, r, Given(in, tb.held, valid, clear)) BY <1>5, <1>7 DEF Given
<1> QED BY <1>5, <1>6, <1>8, <1>9 DEF want, e, Entering, Full

LEMMA ResetTb ==
  ASSUME ResetPipeline, LineInv
  PROVE  /\ UNCHANGED block /\ DOMAIN tb' = TbFields /\ tb'.held = tb.held
         /\ tb'.line = [i \in 1..Latency(unit, spec) |-> <<>>]
         /\ r' = Reset(unit, spec) /\ tb'.want = NothingSummed(unit)
<1>1. block \in Piped /\ DOMAIN tb = TbFields BY DEF ResetPipeline, LineInv
<1>2. UNCHANGED block /\ r' = Reset(unit, spec)
      /\ tb' = [tb EXCEPT !.line = EmptyLine, !.want = NothingSummed(unit), !.resets = @ - 1]
  BY DEF ResetPipeline
<1>3. EmptyLine = [i \in 1..Latency(unit, spec) |-> <<>>] BY DEF EmptyLine, Chain
<1>4. DOMAIN tb' = TbFields /\ tb'.held = tb.held /\ tb'.line = EmptyLine /\ tb'.want = NothingSummed(unit)
  BY <1>1, <1>2 DEF TbFields
<1> QED BY <1>2, <1>3, <1>4

LEMMA StepKinds ==
  ASSUME Next PROVE (Sample \/ Gap \/ Clear) \/ ResetPipeline \/ (block \in Runs /\ UNCHANGED block)
BY DEF Next, LoadStart, Push, Pause, Start, Run, NextJob, ResetRun, Loading, Ran

LEMMA InitLine == Init => LineInv
<1> SUFFICES ASSUME Init, block \in Piped PROVE LineInv BY DEF LineInv
<1>1. block \notin Runs BY NotBoth
<1> DEFINE L == Latency(unit, spec)
<1>2. PICK held \in Held(unit, spec), mode \in {"alone", "burst"} :
        tb = [mode |-> mode, held |-> held, line |-> EmptyLine,
              want |-> NothingSummed(unit), resets |-> MaxResets,
              left |-> IF mode = "alone" THEN 1 ELSE BurstLen,
              clears |-> IF mode = "alone" THEN 0 ELSE MaxClears]
  BY <1>1 DEF Init
<1>3. r = Reset(unit, spec) BY <1>1 DEF Init
<1>4. DOMAIN tb = TbFields /\ tb.held \in Held(unit, spec) /\ tb.line = EmptyLine BY <1>2 DEF TbFields
<1>5. EmptyLine = [i \in 1..L |-> <<>>] BY DEF EmptyLine, Chain
<1>6. tb.line \in [1..L -> Slots(unit, spec)] BY <1>4, <1>5 DEF Slots
<1>7. Shaped(unit, spec, r) /\ \A i \in 1..L : Flags(unit, spec, r)[i] = FALSE
  BY <1>3, ResetFlags DEF unit, spec
<1>8. \A i \in 1..L : Flags(unit, spec, r)[i] = (tb.line[i] # <<>>) BY <1>4, <1>5, <1>7
<1> QED BY <1>4, <1>6, <1>7, <1>8 DEF LineInv

LEMMA LineStep == LineInv /\ [Next]_vars => LineInv'
<1> SUFFICES ASSUME LineInv, [Next]_vars PROVE LineInv' OBVIOUS
<1> DEFINE n == Latency(unit, spec)
           S == Slots(unit, spec)
<1>1. ASSUME Sample \/ Gap \/ Clear PROVE LineInv'
  <2>1. PICK in, valid, clear : Offering(in, valid, clear) BY <1>1, Offers
  <2> DEFINE g == Given(in, tb.held, valid, clear)
             e == Entering(in, valid)
             q == AfterEdge(unit, spec, r, g)
             l == tb.line
             w == Moved(l, n, e, clear)
  <2>2. /\ UNCHANGED block /\ DOMAIN tb' = TbFields /\ tb'.held = tb.held
        /\ tb'.line = w /\ r' = q
    BY <2>1, ClockedTb
  <2>3. block \in Piped /\ in \in Ports(unit, spec) /\ valid \in BOOLEAN /\ clear \in BOOLEAN
        /\ (clear => unit \in Summing)
    BY <2>1 DEF Offering
  <2>4. /\ tb.held \in Held(unit, spec) /\ l \in [1..n -> S] /\ Shaped(unit, spec, r)
        /\ \A i \in 1..n : Flags(unit, spec, r)[i] = (l[i] # <<>>)
    BY <2>3 DEF LineInv
  <2>5. g.valid_in = valid /\ g.clear = clear BY <2>3, <2>4, GivenFields DEF unit, spec
  <2>6. n \in Nat \ {0} BY <2>3, LatencyNat DEF unit, spec
  <2>7. FlagsAfter(unit, spec, r, g) /\ Shaped(unit, spec, q)
    <3>1. \A i \in 1..n : Flags(unit, spec, r)[i] \in BOOLEAN BY <2>4
    <3> HIDE DEF g
    <3> QED BY <2>3, <2>4, <2>5, <3>1, FlagsMove DEF unit, spec
  <2>8. e \in S /\ <<>> \in S /\ (e # <<>>) = valid BY <2>3 DEF Slots, Entering
  <2> HIDE DEF S, g, q, e, l
  <2>9. w \in [1..n -> S]
    <3> HIDE DEF n
    <3>1. ASSUME NEW i \in 1..n PROVE (IF clear /\ i = n THEN <<>> ELSE Entered(l, e, i)) \in S
      <4>1. CASE i = 1 BY <4>1, <2>3, <2>8 DEF Entered
      <4>2. CASE i # 1
        <5>1. i - 1 \in 1..n BY <4>2, <2>6
        <5>2. l[i - 1] \in S BY <5>1, <2>4 DEF l
        <5> QED BY <4>2, <5>2, <2>3, <2>8 DEF Entered
      <4> QED BY <4>1, <4>2
    <3> QED BY <3>1 DEF Moved
  <2>10. ASSUME NEW i \in 1..n PROVE Flags(unit, spec, q)[i] = (w[i] # <<>>)
    <3>1. w[i] = IF clear /\ i = n THEN <<>> ELSE Entered(l, e, i) BY DEF Moved
    <3>2. Flags(unit, spec, q)[i] = IF g.clear /\ i = n THEN FALSE
            ELSE IF i = 1 THEN g.valid_in ELSE Flags(unit, spec, r)[i - 1]
      BY <2>7 DEF FlagsAfter, q
    <3> HIDE DEF n
    <3>3. CASE clear /\ i = n BY <3>1, <3>2, <3>3, <2>5
    <3>4. CASE ~(clear /\ i = n) /\ i = 1
      <4>1. w[i] = e BY <3>1, <3>4 DEF Entered
      <4>2. Flags(unit, spec, q)[i] = valid BY <3>2, <3>4, <2>5
      <4> QED BY <4>1, <4>2, <2>8
    <3>5. CASE ~(clear /\ i = n) /\ i # 1
      <4>1. i - 1 \in 1..n BY <3>5, <2>6
      <4>2. w[i] = l[i - 1] BY <3>1, <3>5 DEF Entered
      <4>3. Flags(unit, spec, q)[i] = Flags(unit, spec, r)[i - 1] BY <3>2, <3>5, <2>5
      <4> QED BY <4>1, <4>2, <4>3, <2>4
    <3> QED BY <3>3, <3>4, <3>5, <2>3
  <2>11. /\ DOMAIN tb' = TbFields /\ tb'.held \in Held(unit, spec)
         /\ tb'.line \in [1..n -> S] /\ Shaped(unit, spec, r')
         /\ \A i \in 1..n : Flags(unit, spec, r')[i] = (tb'.line[i] # <<>>)
    BY <2>2, <2>4, <2>7, <2>9, <2>10
  <2> QED BY <2>2, <2>11 DEF LineInv, unit, spec, S
<1>2. ASSUME ResetPipeline PROVE LineInv'
  <2>1. block \in Piped BY <1>2 DEF ResetPipeline
  <2>2. /\ UNCHANGED block /\ DOMAIN tb' = TbFields /\ tb'.held = tb.held
        /\ tb'.line = [i \in 1..n |-> <<>>] /\ r' = Reset(unit, spec)
    BY <1>2, ResetTb
  <2>3. tb.held \in Held(unit, spec) BY <2>1 DEF LineInv
  <2>4. Shaped(unit, spec, Reset(unit, spec)) /\ \A i \in 1..n : Flags(unit, spec, Reset(unit, spec))[i] = FALSE
    BY <2>1, ResetFlags DEF unit, spec
  <2>5. [i \in 1..n |-> <<>>] \in [1..n -> S] BY DEF Slots
  <2> HIDE DEF n
  <2>6. \A i \in 1..n : Flags(unit, spec, r')[i] = (tb'.line[i] # <<>>) BY <2>2, <2>4
  <2>7. Shaped(unit, spec, r') /\ tb'.line \in [1..n -> S] /\ tb'.held \in Held(unit, spec)
    BY <2>2, <2>3, <2>4, <2>5
  <2> QED BY <2>2, <2>6, <2>7 DEF LineInv, unit, spec, n
<1>3. ASSUME block \in Runs, UNCHANGED block PROVE LineInv'
  <2>1. block \notin Piped BY <1>3, NotBoth
  <2> QED BY <1>3, <2>1 DEF LineInv
<1>4. CASE UNCHANGED vars BY <1>4 DEF vars, LineInv, unit, spec
<1> QED BY <1>1, <1>2, <1>3, <1>4, StepKinds

LEMMA LineFlags == LineInv => FixedLatency
<1> SUFFICES ASSUME LineInv, block \in Piped PROVE r.valid_out <=> Last(tb.line) # <<>> BY DEF FixedLatency
<1> DEFINE n == Latency(unit, spec)
<1>1. n \in Nat \ {0} /\ Flags(unit, spec, r)[n] = r.valid_out BY LatencyNat, LastFlag DEF unit, spec
<1>2. tb.line \in [1..n -> Slots(unit, spec)] /\ \A i \in 1..n : Flags(unit, spec, r)[i] = (tb.line[i] # <<>>)
  BY DEF LineInv
<1> HIDE DEF n
<1>3. Last(tb.line) = tb.line[n]
  <2>1. tb.line \in Seq(Slots(unit, spec)) /\ Len(tb.line) = n BY <1>1, <1>2
  <2> QED BY <2>1 DEF Last
<1>4. n \in 1..n BY <1>1
<1>5. r.valid_out = (tb.line[n] # <<>>) BY <1>1, <1>2, <1>4
<1> QED BY <1>3, <1>5

\* Every pipeline flags an answer exactly its derived latency after a sample,
\* whatever its widths, through gaps, clears and resets: the flag registers of
\* the template are a line as long as the latency its description states.
THEOREM FixedLatencyHolds == Spec => []FixedLatency
<1>1. Spec => []LineInv BY InitLine, LineStep, PTL DEF Spec
<1> QED BY <1>1, LineFlags, PTL

-----------------------------------------------------------------------------
(* SiLU: what each place holds of its sample.                              *)

SiluChained(s) ==
  /\ IsChain(s.xe, 3) /\ IsChain(s.nege, 3)
  /\ IsChain(s.e_r, 3) /\ IsChain(s.x_r, 3) /\ IsChain(s.neg_r, 3)

Exponential(x, p) == exp_golden(Asked(x, p), p.exp)

SiluRight(p, s, i, x) ==
  LET mk == recip_golden(Denominator(x, p), p.recip)
  IN  CASE i = 1 -> s.x0 = x /\ s.neg0 = (x < 0) /\ s.na = Asked(x, p)
        [] i \in 2..4 -> /\ s.xe[i - 1] = x /\ s.nege[i - 1] = (x < 0)
                         /\ ExpuRight(p.exp, s.ex, i - 1, Asked(x, p))
        [] i = 5 -> s.dd = Denominator(x, p) /\ s.ed = Exponential(x, p) /\ s.xd = x /\ s.negd = (x < 0)
        [] i \in 6..8 -> /\ s.e_r[i - 5] = Exponential(x, p) /\ s.x_r[i - 5] = x /\ s.neg_r[i - 5] = (x < 0)
                         /\ RecipRight(p.recip, s.rc, i - 5, Denominator(x, p))
        [] i = 9 -> s.k1 = mk[2] /\ s.x1 = x /\ s.prod = Top(x, p) * mk[1]
        [] i = 10 -> s.x2 = x /\ s.sig = Sigmoid(x, p)
        [] i = 11 -> s.y = silu_golden(x, p)

\* The sigmoid, from the reciprocal's mantissa and shift.
LEMMA SigmoidValue ==
  ASSUME NEW m \in Models, NEW x \in Signed(derive_silu_spec(m).width)
  PROVE  LET p == derive_silu_spec(m)
             mk == recip_golden(Denominator(x, p), p.recip)
             one == 2^p.weight_frac
         IN  /\ Sigmoid(x, p)
                  = AtMost(Sra(Top(x, p) * mk[1], p.recip.shift_bias - p.weight_frac - mk[2]), one)
             /\ Sigmoid(x, p) \in 0..one
             /\ silu_golden(x, p) = Sra(x * Sigmoid(x, p), p.weight_frac)
             /\ silu_golden(x, p) \in Signed(p.width)
             /\ Denominator(x, p) \in 1..(2^p.recip.in_width - 1)
             /\ Denominator(x, p) = one + Exponential(x, p)
             /\ Asked(x, p) \in Int /\ Asked(x, p) <= 0
<1> DEFINE p == derive_silu_spec(m)
           w == p.width
           f == p.weight_frac
           one == 2^f
           d == Denominator(x, p)
           e == Exponential(x, p)
           t == Top(x, p)
           mk == recip_golden(d, p.recip)
           m1 == mk[1]
           m2 == mk[2]
           sb == p.recip.shift_bias
           n == sb - f - m2
           sg == Sigmoid(x, p)
<1>1. /\ p.exp = derive_exp_spec(m) /\ p.recip = derive_recip_spec(m)
      /\ w \in Nat \ {0} /\ f \in 1..22 /\ p.recip.in_width >= f + 2 /\ p.recip.in_width \in Nat
  BY SiluSpec
<1>2. x \in Signed(w) OBVIOUS
<1>3. e \in Nat /\ one \in Nat \ {0} /\ d = one + e /\ d \in 1..(2^p.recip.in_width - 1)
  BY DenominatorFits DEF Exponential
<1>4. Asked(x, p) \in Int /\ Asked(x, p) <= 0 BY <1>1, <1>2, AskedRange
<1>5. x \in Int BY <1>1, <1>2, SignedWords
<1>6. t \in Nat BY <1>3 DEF Top, Exponential
<1>7. sb = p.recip.out_width + p.recip.in_width - 1 /\ p.recip.out_width \in Nat BY <1>1, RecipSpec
<1>8. m1 \in Nat /\ m2 \in Nat /\ m2 <= p.recip.in_width - f - 1
  <2> HIDE DEF d, f, e
  <2>1. d \in Nat /\ f \in Nat /\ d >= 2^f BY <1>1, <1>3
  <2>2. d \in 1..(2^derive_recip_spec(m).in_width - 1) BY <1>1, <1>3
  <2> QED BY <1>1, <2>1, <2>2, RecipRange
<1>9. sg = AtMost(Sra((t * one) * m1, sb - m2), one) BY DEF Sigmoid, recip_apply
<1>10. silu_golden(x, p) = Sra(x * sg, f) BY DEF silu_golden, Sigmoid, Denominator, Top, Asked
<1>11. SUFFICES /\ sg = AtMost(Sra(t * m1, n), one) /\ sg \in 0..one /\ silu_golden(x, p) \in Signed(w)
  BY <1>3, <1>4, <1>10
<1> HIDE DEF p, w, f, d, e, t, mk, m1, m2, sb, sg
<1>12. n \in Nat /\ n + f = sb - m2 /\ f \in Nat BY <1>1, <1>7, <1>8
<1> DEFINE a == t * m1
<1>13. a \in Nat /\ (t * one) * m1 = a * one BY <1>3, <1>6, <1>8
<1> HIDE DEF a, n
<1>14. Sra(a * 2^f, n + f) = Sra(a, n)
  <2>1. a \in Int BY <1>13
  <2> QED BY <2>1, <1>12, ShiftCancels
<1>15. sg = AtMost(Sra(a, n), one) BY <1>9, <1>12, <1>13, <1>14
<1>16. Sra(a, n) \in Nat
  <2> DEFINE c == 2^n
  <2>0. a \in Int BY <1>13
  <2>1. c \in Nat \ {0} BY <1>12, PowerPositive
  <2>2. Sra(a, n) = a \div c BY <1>12, <2>0, ShiftDivides
  <2> HIDE DEF c
  <2> QED BY <2>1, <2>2, <1>13, QuotientNat
<1> HIDE DEF one
<1>17. sg \in 0..one BY <1>3, <1>15, <1>16 DEF AtMost
<1>18. Sra(x * sg, f) \in Signed(w) BY <1>1, <1>2, <1>12, <1>17, FractionFits DEF one
<1> QED BY <1>10, <1>15, <1>17, <1>18 DEF a

LEMMA SiluData ==
  ASSUME NEW m \in Models, NEW s, NEW in, SiluChained(s)
  PROVE  LET p == derive_silu_spec(m)
             q == silu(p, s, in)
         IN  /\ SiluChained(q)
             /\ \A x \in Signed(p.width) :
                  /\ in.x = x => SiluRight(p, q, 1, x)
                  /\ \A i \in 1..10 : SiluRight(p, s, i, x) => SiluRight(p, q, i + 1, x)
<1> DEFINE p == derive_silu_spec(m)
           q == silu(p, s, in)
           f == p.weight_frac
           one == 2^f
           pe == p.exp
           pr == p.recip
<1>1. pe = derive_exp_spec(m) /\ pr = derive_recip_spec(m) /\ p.width \in Nat \ {0} BY SiluSpec
<1>2. /\ q.x0 = in.x /\ q.neg0 = (in.x < 0) /\ q.na = -AtMost(Absolute(in.x), 2^(p.width - 1) - 1)
      /\ q.ex = expu(pe, s.ex, [x |-> s.na, valid_in |-> s.v0])
      /\ q.xe = Shifted(s.xe, s.x0) /\ q.nege = Shifted(s.nege, s.neg0)
      /\ q.dd = one + s.ex.y /\ q.ed = s.ex.y /\ q.xd = Last(s.xe) /\ q.negd = Last(s.nege)
      /\ q.rc = recip(pr, s.rc, [x |-> s.dd, valid_in |-> s.vd])
      /\ q.e_r = Shifted(s.e_r, s.ed) /\ q.x_r = Shifted(s.x_r, s.xd) /\ q.neg_r = Shifted(s.neg_r, s.negd)
      /\ q.k1 = s.rc.k /\ q.x1 = Last(s.x_r) /\ q.prod = Numerator(s, one) * s.rc.y
      /\ q.x2 = s.x1 /\ q.sig = AtMost(Sra(s.prod, pr.shift_bias - f - s.k1), one)
      /\ q.y = Wrap(Sra(s.x2 * s.sig, f), p.width)
  BY DEF silu
<1>3. \A c, e : IsChain(c, 3) => /\ IsChain(Shifted(c, e), 3)
                                 /\ Shifted(c, e)[1] = e /\ Shifted(c, e)[2] = c[1] /\ Shifted(c, e)[3] = c[2]
                                 /\ Last(c) = c[3]
  <2> SUFFICES ASSUME NEW c, NEW e, IsChain(c, 3)
               PROVE  /\ IsChain(Shifted(c, e), 3)
                      /\ Shifted(c, e)[1] = e /\ Shifted(c, e)[2] = c[1] /\ Shifted(c, e)[3] = c[2]
                      /\ Last(c) = c[3]
    OBVIOUS
  <2>1. /\ IsChain(Shifted(c, e), 3)
        /\ \A i \in 1..3 : Shifted(c, e)[i] = Entered(c, e, i)
        /\ Last(c) = c[3]
    BY ChainMoves
  <2>2. Entered(c, e, 1) = e /\ Entered(c, e, 2) = c[1] /\ Entered(c, e, 3) = c[2] BY DEF Entered
  <2> QED BY <2>1, <2>2
<1>4. SiluChained(q) BY <1>2, <1>3 DEF SiluChained
<1> SUFFICES ASSUME NEW x \in Signed(p.width)
             PROVE  /\ in.x = x => SiluRight(p, q, 1, x)
                    /\ \A i \in 1..10 : SiluRight(p, s, i, x) => SiluRight(p, q, i + 1, x)
  BY <1>4
<1> DEFINE a == Asked(x, p)
           e == Exponential(x, p)
           d == Denominator(x, p)
           mk == recip_golden(d, pr)
           neg == (x < 0)
<1>5. /\ Sigmoid(x, p) = AtMost(Sra(Top(x, p) * mk[1], pr.shift_bias - f - mk[2]), one)
      /\ silu_golden(x, p) = Sra(x * Sigmoid(x, p), f) /\ silu_golden(x, p) \in Signed(p.width)
      /\ d \in 1..(2^pr.in_width - 1) /\ d = one + e /\ a \in Int /\ a <= 0
  BY SigmoidValue
<1>6. x \in Int BY <1>1, SignedWords
<1>7. e = exp_golden(a, pe) BY DEF Exponential
<1>8. Top(x, p) = IF neg THEN e ELSE one BY <1>6 DEF Top, Exponential
<1>9. a = -AtMost(Absolute(x), 2^(p.width - 1) - 1) BY DEF Asked
<1>10. /\ IsChain(s.xe, 3) /\ IsChain(s.nege, 3) /\ IsChain(s.e_r, 3) /\ IsChain(s.x_r, 3) /\ IsChain(s.neg_r, 3)
  BY DEF SiluChained
<1>11. /\ ExpuRight(pe, expu(pe, s.ex, [x |-> s.na, valid_in |-> s.v0]), 1, s.na)
       /\ \A i \in 1..2 : ExpuRight(pe, s.ex, i, a) => ExpuRight(pe, q.ex, i + 1, a)
  <2> DEFINE n == [x |-> s.na, valid_in |-> s.v0]
  <2>1. n.x = s.na OBVIOUS
  <2> HIDE DEF n, a
  <2>2. /\ ExpuRight(pe, expu(pe, s.ex, n), 1, n.x)
        /\ \A i \in 1..2 : ExpuRight(pe, s.ex, i, a) => ExpuRight(pe, expu(pe, s.ex, n), i + 1, a)
    BY <1>1, <1>5, ExpuData
  <2> QED BY <1>2, <2>1, <2>2 DEF n
<1>12. /\ s.dd = d => RecipRight(pr, q.rc, 1, d)
       /\ \A i \in 1..2 : RecipRight(pr, s.rc, i, d) => RecipRight(pr, q.rc, i + 1, d)
  <2> DEFINE n == [x |-> s.dd, valid_in |-> s.vd]
  <2>1. n.x = s.dd OBVIOUS
  <2> HIDE DEF n, d
  <2>2. /\ n.x = d => RecipRight(pr, recip(pr, s.rc, n), 1, d)
        /\ \A i \in 1..2 : RecipRight(pr, s.rc, i, d) => RecipRight(pr, recip(pr, s.rc, n), i + 1, d)
    BY <1>1, <1>5, RecipData
  <2> QED BY <1>2, <2>1, <2>2 DEF n
<1> HIDE DEF p, q, f, one, pe, pr, a, e, d, mk, neg
<1>13. ASSUME in.x = x PROVE SiluRight(p, q, 1, x)
  BY <1>2, <1>9, <1>13 DEF SiluRight, a
<1>14. ASSUME SiluRight(p, s, 1, x) PROVE SiluRight(p, q, 2, x)
  <2>1. s.x0 = x /\ s.neg0 = neg /\ s.na = a BY <1>14 DEF SiluRight, a, neg
  <2>2. ExpuRight(pe, q.ex, 1, a) BY <1>2, <1>11, <2>1
  <2>3. q.xe[1] = x /\ q.nege[1] = neg BY <1>2, <1>3, <1>10, <2>1
  <2> QED BY <2>2, <2>3 DEF SiluRight, a, neg, pe
<1>15. ASSUME SiluRight(p, s, 2, x) PROVE SiluRight(p, q, 3, x)
  <2>1. s.xe[1] = x /\ s.nege[1] = neg /\ ExpuRight(pe, s.ex, 1, a) BY <1>15 DEF SiluRight, a, neg, pe
  <2>2. q.xe[2] = x /\ q.nege[2] = neg BY <1>2, <1>3, <1>10, <2>1
  <2>3. ExpuRight(pe, q.ex, 2, a) BY <1>11, <2>1
  <2> QED BY <2>2, <2>3 DEF SiluRight, a, neg, pe
<1>16. ASSUME SiluRight(p, s, 3, x) PROVE SiluRight(p, q, 4, x)
  <2>1. s.xe[2] = x /\ s.nege[2] = neg /\ ExpuRight(pe, s.ex, 2, a) BY <1>16 DEF SiluRight, a, neg, pe
  <2>2. q.xe[3] = x /\ q.nege[3] = neg BY <1>2, <1>3, <1>10, <2>1
  <2>3. ExpuRight(pe, q.ex, 3, a) BY <1>11, <2>1
  <2> QED BY <2>2, <2>3 DEF SiluRight, a, neg, pe
<1>17. ASSUME SiluRight(p, s, 4, x) PROVE SiluRight(p, q, 5, x)
  <2>1. s.xe[3] = x /\ s.nege[3] = neg /\ ExpuRight(pe, s.ex, 3, a) BY <1>17 DEF SiluRight, a, neg, pe
  <2>2. s.ex.y = e BY <2>1, <1>7 DEF ExpuRight
  <2>3. q.dd = d /\ q.ed = e /\ q.xd = x /\ q.negd = neg BY <1>2, <1>3, <1>5, <1>10, <2>1, <2>2
  <2> QED BY <2>3 DEF SiluRight, d, e, neg
<1>18. ASSUME SiluRight(p, s, 5, x) PROVE SiluRight(p, q, 6, x)
  <2>1. s.dd = d /\ s.ed = e /\ s.xd = x /\ s.negd = neg BY <1>18 DEF SiluRight, d, e, neg
  <2>2. q.e_r[1] = e /\ q.x_r[1] = x /\ q.neg_r[1] = neg BY <1>2, <1>3, <1>10, <2>1
  <2>3. RecipRight(pr, q.rc, 1, d) BY <1>12, <2>1
  <2> QED BY <2>2, <2>3 DEF SiluRight, d, e, neg, pr
<1>19. ASSUME SiluRight(p, s, 6, x) PROVE SiluRight(p, q, 7, x)
  <2>1. s.e_r[1] = e /\ s.x_r[1] = x /\ s.neg_r[1] = neg /\ RecipRight(pr, s.rc, 1, d)
    BY <1>19 DEF SiluRight, d, e, neg, pr
  <2>2. q.e_r[2] = e /\ q.x_r[2] = x /\ q.neg_r[2] = neg BY <1>2, <1>3, <1>10, <2>1
  <2>3. RecipRight(pr, q.rc, 2, d) BY <1>12, <2>1
  <2> QED BY <2>2, <2>3 DEF SiluRight, d, e, neg, pr
<1>20. ASSUME SiluRight(p, s, 7, x) PROVE SiluRight(p, q, 8, x)
  <2>1. s.e_r[2] = e /\ s.x_r[2] = x /\ s.neg_r[2] = neg /\ RecipRight(pr, s.rc, 2, d)
    BY <1>20 DEF SiluRight, d, e, neg, pr
  <2>2. q.e_r[3] = e /\ q.x_r[3] = x /\ q.neg_r[3] = neg BY <1>2, <1>3, <1>10, <2>1
  <2>3. RecipRight(pr, q.rc, 3, d) BY <1>12, <2>1
  <2> QED BY <2>2, <2>3 DEF SiluRight, d, e, neg, pr
<1>21. ASSUME SiluRight(p, s, 8, x) PROVE SiluRight(p, q, 9, x)
  <2>1. s.e_r[3] = e /\ s.x_r[3] = x /\ s.neg_r[3] = neg /\ RecipRight(pr, s.rc, 3, d)
    BY <1>21 DEF SiluRight, d, e, neg, pr
  <2>2. <<s.rc.y, s.rc.k>> = mk BY <2>1 DEF RecipRight, mk
  <2>3. s.rc.y = mk[1] /\ s.rc.k = mk[2] BY <2>2
  <2>4. Numerator(s, one) = Top(x, p) BY <1>3, <1>8, <1>10, <2>1 DEF Numerator
  <2>5. q.k1 = mk[2] /\ q.x1 = x /\ q.prod = Top(x, p) * mk[1] BY <1>2, <1>3, <1>10, <2>1, <2>3, <2>4
  <2> QED BY <2>5 DEF SiluRight, mk, d, pr
<1>22. ASSUME SiluRight(p, s, 9, x) PROVE SiluRight(p, q, 10, x)
  <2>1. s.k1 = mk[2] /\ s.x1 = x /\ s.prod = Top(x, p) * mk[1] BY <1>22 DEF SiluRight, mk, d, pr
  <2>2. q.x2 = x /\ q.sig = Sigmoid(x, p) BY <1>2, <1>5, <2>1
  <2> QED BY <2>2 DEF SiluRight
<1>23. ASSUME SiluRight(p, s, 10, x) PROVE SiluRight(p, q, 11, x)
  <2>1. s.x2 = x /\ s.sig = Sigmoid(x, p) BY <1>23 DEF SiluRight
  <2>2. q.y = Wrap(silu_golden(x, p), p.width) BY <1>2, <1>5, <2>1
  <2>3. q.y = silu_golden(x, p) BY <2>2, <1>1, <1>5, WrapIn
  <2> QED BY <2>3 DEF SiluRight
<1>24. ASSUME NEW i \in 1..10, SiluRight(p, s, i, x) PROVE SiluRight(p, q, i + 1, x)
  <2>1. i \in {1, 2, 3, 4, 5, 6, 7, 8, 9, 10} OBVIOUS
  <2>2. CASE i = 1 BY <2>2, <1>14, <1>24
  <2>3. CASE i = 2 BY <2>3, <1>15, <1>24
  <2>4. CASE i = 3 BY <2>4, <1>16, <1>24
  <2>5. CASE i = 4 BY <2>5, <1>17, <1>24
  <2>6. CASE i = 5 BY <2>6, <1>18, <1>24
  <2>7. CASE i = 6 BY <2>7, <1>19, <1>24
  <2>8. CASE i = 7 BY <2>8, <1>20, <1>24
  <2>9. CASE i = 8 BY <2>9, <1>21, <1>24
  <2>10. CASE i = 9 BY <2>10, <1>22, <1>24
  <2>11. CASE i = 10 BY <2>11, <1>23, <1>24
  <2> QED BY <2>1, <2>2, <2>3, <2>4, <2>5, <2>6, <2>7, <2>8, <2>9, <2>10, <2>11
<1> QED BY <1>13, <1>24

-----------------------------------------------------------------------------
(* Rotary position embedding.                                              *)

LEMMA RopeSpec ==
  ASSUME NEW m \in Models
  PROVE  LET p == derive_rope_spec(m)
         IN  /\ p.data_width \in Nat \ {0} /\ p.pos_width \in Nat /\ p.lut_bits \in Nat \ {0, 1}
             /\ p.phase_bits = p.lut_bits + p.pos_width + 2 /\ p.coef_frac = p.data_width + 6
             /\ p.coef_width = p.data_width + 8
             /\ \A i \in 1..p.pairs : p.freqs[i] \in Int
<1> DEFINE p == derive_rope_spec(m)
           dw == m.activation_bits
           pw == AtLeast(bit_length(m.seq_len - 1), 1)
<1>1. dw \in Nat \ {0} /\ m.seq_len \in Nat \ {0, 1} /\ \A i \in 1..(head_dim(m) \div 2) : m.freqs[i] \in Int
  BY ModelsAssumption
<1>2. pw \in Nat
  <2>1. m.seq_len - 1 \in Nat BY <1>1
  <2>2. bit_length(m.seq_len - 1) \in Nat BY <2>1, BitLength
  <2> QED BY <2>2 DEF AtLeast
<1>3. Sizes.turn_bits \in Nat \ {0, 1} BY SizesAssumption
<1>4. /\ p.data_width = dw /\ p.pos_width = pw /\ p.lut_bits = Sizes.turn_bits /\ p.pairs = head_dim(m) \div 2
      /\ p.phase_bits = Sizes.turn_bits + pw + 2 /\ p.coef_frac = dw + 6 /\ p.coef_width = dw + 8
      /\ p.freqs = m.freqs
  BY DEF derive_rope_spec
<1> HIDE DEF p, dw, pw
<1> QED BY <1>1, <1>2, <1>3, <1>4 DEF p, dw

LEMMA SineTable ==
  ASSUME NEW m \in Models
  PROVE  LET p == derive_rope_spec(m)
         IN  DOMAIN p.sines = 1..2^p.lut_bits /\ \A i \in 1..2^p.lut_bits : p.sines[i] \in Int
<1> DEFINE p == derive_rope_spec(m)
           one == 2^(m.activation_bits + 6)
           n == 2^Sizes.turn_bits
<1>1. p.lut_bits = Sizes.turn_bits /\ p.sines = m.sines BY DEF derive_rope_spec
<1>2. m.sines \in [1..n -> -one..one] /\ m.activation_bits + 6 \in Nat BY ModelsAssumption
<1>3. one \in Nat BY <1>2, PowerNat
<1> HIDE DEF one, p, n
<1>4. \A k \in -one..one : k \in Int BY <1>3
<1>5. DOMAIN m.sines = 1..n /\ \A i \in 1..n : m.sines[i] \in -one..one BY <1>2
<1> QED BY <1>1, <1>4, <1>5 DEF p, n

\* The angle of a sample, the sine and cosine of its entry, and the four
\* products of its rotation.
PhaseOf(x, p) == Low(x.pos * p.freqs[x.idx + 1], p.phase_bits)

SineOf(x, p) == Sine(p, Entry(p, PhaseOf(x, p)))

CosineOf(x, p) == Cosine(p, Entry(p, PhaseOf(x, p)))

Rotating(x, p) == <<<<x.x1, CosineOf(x, p)>>, <<x.x2, SineOf(x, p)>>,
                    <<x.x2, CosineOf(x, p)>>, <<x.x1, SineOf(x, p)>>>>

RopeGolden(x, p) == rope_golden(x.x1, x.x2, x.idx, x.pos, p)

RopeRight(p, s, i, x) ==
  LET split == p.data_width > Sizes.one_multiply
      h == p.coef_width \div 2
      f == Rotating(x, p)
      last == IF split THEN 5 ELSE 4
  IN  CASE i = 1 -> s.ph0 = PhaseOf(x, p) /\ s.a0 = x.x1 /\ s.b0 = x.x2
        [] i = 2 -> s.a1 = x.x1 /\ s.b1 = x.x2 /\ s.s1 = SineOf(x, p) /\ s.c1 = CosineOf(x, p)
        [] i = 3 /\ split -> s.halves = [j \in 1..4 |-> <<f[j][1] * Sra(f[j][2], h), f[j][1] * Low(f[j][2], h)>>]
        [] i = last - 1 -> s.products = [j \in 1..4 |-> f[j][1] * f[j][2]]
        [] i = last -> <<s.y1, s.y2>> = RopeGolden(x, p)

\* The code's entry is the reference model's, and both read the table inside it.
LEMMA RopeValues ==
  ASSUME NEW m \in Models, NEW x \in Ports("rope", derive_rope_spec(m))
  PROVE  LET p == derive_rope_spec(m)
         IN  /\ x.x1 \in Int /\ x.x2 \in Int /\ SineOf(x, p) \in Int /\ CosineOf(x, p) \in Int
             /\ RopeGolden(x, p) =
                  <<Clamp(_round_shift(x.x1 * CosineOf(x, p) - x.x2 * SineOf(x, p), p.coef_frac), p.data_width),
                    Clamp(_round_shift(x.x2 * CosineOf(x, p) + x.x1 * SineOf(x, p), p.coef_frac), p.data_width)>>
<1> DEFINE p == derive_rope_spec(m)
           pb == p.phase_bits
           lb == p.lut_bits
           phase == Low(x.pos * p.freqs[x.idx + 1], pb)
           v == phase + 2^(pb - lb - 1)
           k == Low(Sra(v, pb - lb), lb)
           t == p.sines
           j == (k + 2^(lb - 2)) % 2^lb
<1>1. /\ p.data_width \in Nat \ {0} /\ p.pos_width \in Nat /\ lb \in Nat \ {0, 1} /\ pb = lb + p.pos_width + 2
      /\ \A i \in 1..p.pairs : p.freqs[i] \in Int
  BY RopeSpec
<1>2. x \in [x1 : Signed(p.data_width), x2 : Signed(p.data_width),
             idx : 0..(p.pairs - 1), pos : 0..(2^p.pos_width - 1)]
  BY DEF Ports
<1>3. x.x1 \in Int /\ x.x2 \in Int
  <2>1. x.x1 \in Signed(p.data_width) /\ x.x2 \in Signed(p.data_width) BY <1>2
  <2> HIDE DEF p
  <2> QED BY <1>1, <2>1, SignedWords
<1>4. p.pairs \in Int
  <2>1. p.pairs = head_dim(m) \div 2 BY DEF derive_rope_spec
  <2>2. head_dim(m) \in Nat BY ModelsAssumption
  <2> QED BY <2>1, <2>2
<1>5. x.pos \in Int /\ p.freqs[x.idx + 1] \in Int
  <2>1. x.pos \in 0..(2^p.pos_width - 1) /\ x.idx \in 0..(p.pairs - 1) BY <1>2
  <2> HIDE DEF p
  <2>2. x.idx + 1 \in 1..p.pairs BY <2>1, <1>4
  <2> QED BY <2>1, <2>2, <1>1
<1>6. phase \in Int
  <2> DEFINE a == x.pos * p.freqs[x.idx + 1]
  <2>1. a \in Int /\ pb \in Nat BY <1>1, <1>5
  <2> HIDE DEF a, pb
  <2>2. 2^pb \in Nat /\ Low(a, pb) \in 0..(2^pb - 1) BY <2>1, Halves
  <2> DEFINE c == 2^pb
  <2>3. c \in Nat /\ Low(a, pb) \in 0..(c - 1) BY <2>2
  <2> HIDE DEF c
  <2>4. Low(a, pb) \in Int BY <2>3
  <2> QED BY <2>4 DEF a
<1> HIDE DEF phase, t
<1>7. v \in Int
  <2>1. pb - lb - 1 \in Nat BY <1>1
  <2>2. 2^(pb - lb - 1) \in Nat BY <2>1, PowerNat
  <2> QED BY <1>6, <2>2
<1> DEFINE sh == pb - lb
<1>8. sh \in Nat /\ pb - 1 - sh + 1 = lb BY <1>1
<1>9. k = Entry(p, phase)
  <2>1. Entry(p, phase) = Bits(v, pb - 1, sh) BY DEF Entry
  <2>2. Bits(v, pb - 1, sh) = Low(v \div 2^sh, lb) BY <1>8 DEF Bits
  <2> HIDE DEF v, sh
  <2>3. Sra(v, sh) = v \div 2^sh BY <1>7, <1>8, ShiftDivides
  <2> QED BY <2>1, <2>2, <2>3 DEF sh
<1>10. Sra(v, sh) \in Int
  <2> HIDE DEF v, sh
  <2> QED BY <1>7, <1>8, Halves
<1> DEFINE n == Sra(v, sh)
           full == 2^lb
           quarter == 2^(lb - 2)
<1>11. full \in Nat \ {0} /\ quarter \in Nat
  <2>1. lb \in Nat /\ lb - 2 \in Nat BY <1>1
  <2> HIDE DEF lb
  <2> QED BY <2>1, PowerPositive
<1>12. DOMAIN t = 1..full /\ \A i \in 1..full : t[i] \in Int BY SineTable DEF t
<1> HIDE DEF v, sh, lb, pb, full, quarter
<1>13. k = n % full /\ j = (k + quarter) % full BY DEF Low, sh, full, quarter
<1>14. n \in Int BY <1>10
<1> HIDE DEF n, k, j
<1>15. k \in 0..(full - 1)
  <2>1. n % full \in 0..(full - 1) BY <1>11, <1>14
  <2> QED BY <2>1, <1>13
<1>16. j \in 0..(full - 1)
  <2>1. k + quarter \in Int BY <1>11, <1>15
  <2>2. (k + quarter) % full \in 0..(full - 1) BY <2>1, <1>11
  <2> QED BY <2>2, <1>13
<1>17. \A i \in 0..(full - 1) : i + 1 \in 1..full BY <1>11
<1>18. k + 1 \in 1..full /\ j + 1 \in 1..full BY <1>15, <1>16, <1>17
<1>19. SineOf(x, p) = t[k + 1] /\ t[k + 1] \in Int
  <2>1. SineOf(x, p) = Read(t, k) BY <1>9 DEF SineOf, Sine, PhaseOf, phase, t, pb
  <2> QED BY <2>1, <1>12, <1>18 DEF Read
<1>20. CosineOf(x, p) = t[j + 1] /\ t[j + 1] \in Int
  <2>1. CosineOf(x, p) = Read(t, j)
    BY <1>9 DEF CosineOf, Cosine, Sine, PhaseOf, phase, t, pb, lb, Low, j
  <2> QED BY <2>1, <1>12, <1>18 DEF Read
<1>21. RopeGolden(x, p) = <<Clamp(_round_shift(x.x1 * t[j + 1] - x.x2 * t[k + 1], p.coef_frac), p.data_width),
                            Clamp(_round_shift(x.x2 * t[j + 1] + x.x1 * t[k + 1], p.coef_frac), p.data_width)>>
  BY DEF RopeGolden, rope_golden, phase, t, pb, lb, v, k, j, n, sh
<1> QED BY <1>3, <1>19, <1>20, <1>21

LEMMA RopeData ==
  ASSUME NEW m \in Models, NEW s, NEW in
  PROVE  LET p == derive_rope_spec(m)
             q == rope(p, s, in)
         IN  \A x \in Ports("rope", p) :
               /\ in.x1 = x.x1 /\ in.x2 = x.x2 /\ in.idx = x.idx /\ in.pos = x.pos => RopeRight(p, q, 1, x)
               /\ \A i \in 1..(Latency("rope", p) - 1) : RopeRight(p, s, i, x) => RopeRight(p, q, i + 1, x)
<1> DEFINE p == derive_rope_spec(m)
           q == rope(p, s, in)
           h == p.coef_width \div 2
           c == 2^h
           cf == p.coef_frac
           dw == p.data_width
           f == Factors(s)
           Rounded(v) == Clamp(Sra(v + 2^(cf - 1), cf), dw)
<1>1. dw \in Nat \ {0} /\ cf = dw + 6 /\ p.coef_width = dw + 8 BY RopeSpec
<1> SUFFICES ASSUME NEW x \in Ports("rope", p)
             PROVE  /\ in.x1 = x.x1 /\ in.x2 = x.x2 /\ in.idx = x.idx /\ in.pos = x.pos => RopeRight(p, q, 1, x)
                    /\ \A i \in 1..(Latency("rope", p) - 1) : RopeRight(p, s, i, x) => RopeRight(p, q, i + 1, x)
  OBVIOUS
<1> DEFINE sn == SineOf(x, p)
           co == CosineOf(x, p)
           a == x.x1
           b == x.x2
           g == Rotating(x, p)
<1>2. /\ a \in Int /\ b \in Int /\ sn \in Int /\ co \in Int
      /\ RopeGolden(x, p) = <<Clamp(_round_shift(a * co - b * sn, cf), dw),
                              Clamp(_round_shift(b * co + a * sn, cf), dw)>>
  BY RopeValues
<1>3. h \in Nat /\ c \in Nat \ {0}
  <2>1. h \in Nat BY <1>1, QuotientNat
  <2> HIDE DEF h
  <2> QED BY <2>1, PowerPositive
<1>4. /\ q.ph0 = Low(in.pos * p.freqs[in.idx + 1], p.phase_bits) /\ q.a0 = in.x1 /\ q.b0 = in.x2
      /\ q.s1 = Sine(p, Entry(p, s.ph0)) /\ q.c1 = Cosine(p, Entry(p, s.ph0)) /\ q.a1 = s.a0 /\ q.b1 = s.b0
      /\ q.y1 = Rounded(Sums(s.products)[1]) /\ q.y2 = Rounded(Sums(s.products)[2])
  BY DEF rope
<1>5. ASSUME p.data_width > Sizes.one_multiply
      PROVE  /\ q.halves = [i \in 1..4 |-> <<f[i][1] * Sra(f[i][2], h), f[i][1] * Low(f[i][2], h)>>]
             /\ q.products = [i \in 1..4 |-> s.halves[i][1] * c + s.halves[i][2]]
  BY <1>5 DEF rope
<1>6. ASSUME ~(p.data_width > Sizes.one_multiply)
      PROVE  q.products = [i \in 1..4 |-> f[i][1] * f[i][2]]
  BY <1>6 DEF rope
<1>7. g = <<<<a, co>>, <<b, sn>>, <<b, co>>, <<a, sn>>>> BY DEF Rotating
<1>8. ASSUME RopeRight(p, s, 2, x) PROVE f = g
  <2>1. s.a1 = a /\ s.b1 = b /\ s.s1 = sn /\ s.c1 = co BY <1>8 DEF RopeRight
  <2> QED BY <2>1, <1>7 DEF Factors
<1>9. \A i \in 1..4 : g[i][1] \in Int /\ g[i][2] \in Int
  <2> HIDE DEF g, a, b, sn, co
  <2>1. \A i \in 1..4 : i \in {1, 2, 3, 4} OBVIOUS
  <2>2. g[1] = <<a, co>> /\ g[2] = <<b, sn>> /\ g[3] = <<b, co>> /\ g[4] = <<a, sn>> BY <1>7
  <2> QED BY <2>1, <2>2, <1>2
<1>10. \A i \in 1..4 : (g[i][1] * Sra(g[i][2], h)) * c + g[i][1] * Low(g[i][2], h) = g[i][1] * g[i][2]
  <2> SUFFICES ASSUME NEW i \in 1..4
               PROVE  (g[i][1] * Sra(g[i][2], h)) * c + g[i][1] * Low(g[i][2], h) = g[i][1] * g[i][2]
    OBVIOUS
  <2> DEFINE u == g[i][1]
             v == g[i][2]
             y == Sra(v, h)
             z == Low(v, h)
  <2>1. u \in Int /\ v \in Int BY <1>9
  <2> HIDE DEF g, u, v, h
  <2>2. y \in Int /\ z \in 0..(c - 1) /\ v = y * c + z BY <2>1, <1>3, Halves
  <2> HIDE DEF y, z, c
  <2>3. z \in Int BY <2>2, <1>3
  <2>4. (u * y) * c = u * (y * c) BY <2>1, <2>2, <1>3
  <2> DEFINE yc == y * c
  <2>5. yc \in Int /\ v = yc + z BY <2>2, <1>3
  <2> HIDE DEF yc
  <2>6. u * yc + u * z = u * v BY <2>1, <2>3, <2>5
  <2>7. (u * y) * c = u * yc BY <2>4 DEF yc
  <2>8. (u * y) * c + u * z = u * v BY <2>6, <2>7
  <2> QED BY <2>8 DEF u, v, y, z
<1>11. \A v \in Int : Rounded(v) = Clamp(_round_shift(v, cf), dw)
  <2> HIDE DEF cf, dw
  <2>1. cf # 0 BY <1>1
  <2> QED BY <2>1 DEF _round_shift, Half
<1>12. ASSUME in.x1 = x.x1, in.x2 = x.x2, in.idx = x.idx, in.pos = x.pos PROVE RopeRight(p, q, 1, x)
  <2> HIDE DEF q, p
  <2> QED BY <1>4, <1>12 DEF RopeRight, PhaseOf
<1>13. ASSUME RopeRight(p, s, 1, x) PROVE RopeRight(p, q, 2, x)
  <2>1. s.ph0 = PhaseOf(x, p) /\ s.a0 = a /\ s.b0 = b BY <1>13 DEF RopeRight
  <2> HIDE DEF q, p
  <2> QED BY <1>4, <2>1 DEF RopeRight, SineOf, CosineOf
<1>14. ASSUME s.products = [j \in 1..4 |-> g[j][1] * g[j][2]]
       PROVE  <<q.y1, q.y2>> = RopeGolden(x, p)
  <2> DEFINE u == a * co - b * sn
             v == b * co + a * sn
  <2>1. Sums(s.products)[1] = u /\ Sums(s.products)[2] = v
    <3> HIDE DEF g, a, b, sn, co
    <3>1. g[1] = <<a, co>> /\ g[2] = <<b, sn>> /\ g[3] = <<b, co>> /\ g[4] = <<a, sn>> BY <1>7
    <3> DEFINE t == s.products
    <3>2. /\ t[1] = g[1][1] * g[1][2] /\ t[2] = g[2][1] * g[2][2]
          /\ t[3] = g[3][1] * g[3][2] /\ t[4] = g[4][1] * g[4][2]
      BY <1>14
    <3> HIDE DEF t
    <3>3. t[1] = a * co /\ t[2] = b * sn /\ t[3] = b * co /\ t[4] = a * sn BY <3>1, <3>2
    <3>4. Sums(t)[1] = t[1] - t[2] /\ Sums(t)[2] = t[3] + t[4] BY DEF Sums
    <3> QED BY <3>3, <3>4 DEF t
  <2>2. u \in Int /\ v \in Int
    <3> HIDE DEF a, b, sn, co
    <3> QED BY <1>2
  <2> HIDE DEF u, v, p, q
  <2>3. q.y1 = Rounded(u) /\ q.y2 = Rounded(v) BY <1>4, <2>1
  <2> HIDE DEF Rounded
  <2>4. Rounded(u) = Clamp(_round_shift(u, cf), dw) /\ Rounded(v) = Clamp(_round_shift(v, cf), dw) BY <1>11, <2>2
  <2> QED BY <2>3, <2>4, <1>2 DEF u, v
<1>15. CASE p.data_width > Sizes.one_multiply
  <2>1. Latency("rope", p) = 5 BY <1>15 DEF Latency
  <2> HIDE DEF g, f
  <2>2. ASSUME RopeRight(p, s, 2, x) PROVE RopeRight(p, q, 3, x)
    <3>1. f = g BY <2>2, <1>8
    <3>2. q.halves = [i \in 1..4 |-> <<g[i][1] * Sra(g[i][2], h), g[i][1] * Low(g[i][2], h)>>]
      BY <1>15, <1>5, <3>1
    <3> HIDE DEF p, q
    <3> QED BY <1>15, <3>2 DEF RopeRight, g
  <2>3. ASSUME RopeRight(p, s, 3, x) PROVE RopeRight(p, q, 4, x)
    <3> DEFINE t == s.halves
    <3>1. t = [i \in 1..4 |-> <<g[i][1] * Sra(g[i][2], h), g[i][1] * Low(g[i][2], h)>>]
      <4> HIDE DEF p
      <4> QED BY <1>15, <2>3 DEF RopeRight, g, h
    <3>2. q.products = [i \in 1..4 |-> t[i][1] * c + t[i][2]] BY <1>15, <1>5
    <3> HIDE DEF t, p, q, h, c
    <3>3. q.products = [i \in 1..4 |-> (g[i][1] * Sra(g[i][2], h)) * c + g[i][1] * Low(g[i][2], h)] BY <3>1, <3>2
    <3>4. q.products = [i \in 1..4 |-> g[i][1] * g[i][2]] BY <3>3, <1>10
    <3> QED BY <1>15, <3>4 DEF RopeRight, g
  <2>4. ASSUME RopeRight(p, s, 4, x) PROVE RopeRight(p, q, 5, x)
    <3>1. s.products = [j \in 1..4 |-> g[j][1] * g[j][2]]
      <4> HIDE DEF p
      <4> QED BY <1>15, <2>4 DEF RopeRight, g
    <3>2. <<q.y1, q.y2>> = RopeGolden(x, p) BY <3>1, <1>14
    <3> HIDE DEF p, q
    <3> QED BY <1>15, <3>2 DEF RopeRight
  <2> HIDE DEF p, q
  <2>5. ASSUME NEW i \in 1..4, RopeRight(p, s, i, x) PROVE RopeRight(p, q, i + 1, x)
    <3>1. i \in {1, 2, 3, 4} OBVIOUS
    <3>2. CASE i = 1 BY <3>2, <1>13, <2>5
    <3>3. CASE i = 2 BY <3>3, <2>2, <2>5
    <3>4. CASE i = 3 BY <3>4, <2>3, <2>5
    <3>5. CASE i = 4 BY <3>5, <2>4, <2>5
    <3> QED BY <3>1, <3>2, <3>3, <3>4, <3>5
  <2> QED BY <1>12, <2>1, <2>5
<1>16. CASE ~(p.data_width > Sizes.one_multiply)
  <2>1. Latency("rope", p) = 4 BY <1>16 DEF Latency
  <2> HIDE DEF g, f
  <2>2. ASSUME RopeRight(p, s, 2, x) PROVE RopeRight(p, q, 3, x)
    <3>1. f = g BY <2>2, <1>8
    <3>2. q.products = [i \in 1..4 |-> g[i][1] * g[i][2]] BY <1>16, <1>6, <3>1
    <3> HIDE DEF p, q
    <3> QED BY <1>16, <3>2 DEF RopeRight, g
  <2>3. ASSUME RopeRight(p, s, 3, x) PROVE RopeRight(p, q, 4, x)
    <3>1. s.products = [j \in 1..4 |-> g[j][1] * g[j][2]]
      <4> HIDE DEF p
      <4> QED BY <1>16, <2>3 DEF RopeRight, g
    <3>2. <<q.y1, q.y2>> = RopeGolden(x, p) BY <3>1, <1>14
    <3> HIDE DEF p, q
    <3> QED BY <1>16, <3>2 DEF RopeRight
  <2> HIDE DEF p, q
  <2>4. ASSUME NEW i \in 1..3, RopeRight(p, s, i, x) PROVE RopeRight(p, q, i + 1, x)
    <3>1. i \in {1, 2, 3} OBVIOUS
    <3>2. CASE i = 1 BY <3>2, <1>13, <2>4
    <3>3. CASE i = 2 BY <3>3, <2>2, <2>4
    <3>4. CASE i = 3 BY <3>4, <2>3, <2>4
    <3> QED BY <3>1, <3>2, <3>3, <3>4
  <2> QED BY <1>12, <2>1, <2>4
<1> QED BY <1>15, <1>16

-----------------------------------------------------------------------------
(* What the requantizer's registers hold of a sample, edge after edge.     *)

LEMMA RequantIs == \A m \in Models : IsRequant(derive_requant_spec(m))
BY RequantSpec DEF IsRequant

\* What a sample at the ports promises.
LEMMA RequantPorts ==
  ASSUME NEW p, IsRequant(p), NEW x \in Ports("requant", p)
  PROVE  /\ IsSample(p, x) /\ x.acc_in * x.scale \in Int /\ Half(x.shift) \in Int
         /\ x.acc_in * x.scale + Half(x.shift) \in Signed(Width(p))
<1> DEFINE W == Width(p)
           d == 2^p.scale_width
           v == x.acc_in * x.scale
           h == Half(x.shift)
<1>1. W \in Nat \ {0} BY Terms12
<1>2. /\ x.acc_in \in Signed(p.acc_width) /\ x.scale \in 0..(d - 1) /\ x.shift \in 0..(W - 1)
      /\ v + h \in Signed(W)
  BY DEF Ports
<1>3. p.acc_width \in Nat \ {0} /\ p.scale_width \in Nat BY DEF IsRequant
<1>4. x.acc_in \in Int
  <2> DEFINE a == x.acc_in
             w == p.acc_width
  <2>1. w \in Nat \ {0} /\ a \in Signed(w) BY <1>2, <1>3
  <2> HIDE DEF a, w
  <2>2. a \in Int BY <2>1, SignedWords
  <2> QED BY <2>2 DEF a
<1>5. IsSample(p, x) BY <1>2, <1>4 DEF IsSample
<1>6. d \in Nat BY <1>3, PowerNat
<1> HIDE DEF d
<1>7. x.scale \in Int BY <1>2, <1>6
<1>8. v \in Int BY <1>4, <1>7
<1>9. h \in Int
  <2>1. CASE x.shift = 0 BY <2>1 DEF Half
  <2>2. CASE x.shift # 0
    <3> DEFINE k == x.shift - 1
    <3>1. k \in Nat BY <2>2, <1>1, <1>2
    <3>2. h = 2^k BY <2>2 DEF Half
    <3> HIDE DEF k, h
    <3> QED BY <3>1, <3>2, PowerNat
  <2> QED BY <2>1, <2>2
<1> HIDE DEF v, h
<1> QED BY <1>2, <1>5, <1>8, <1>9 DEF v, h, W

\* What the registers hold of a sample x, i edges after it went in.
RequantRight(p, s, i, x) ==
  LET L == Levels(p)
      a == p.per_add
      top == 1 + L * a
      v == x.acc_in * x.scale
      h == Half(x.shift)
      W == Width(p)
  IN  /\ i <= top => s.hf[i] = Wrap(h, W)
      /\ i <= top + a => s.sh[i] = x.shift
      /\ \A k \in 0..L : i = 1 + k * a => RowRight(p, s, x, k)
      /\ a = 2 => \A k \in 1..L : i = 2 * k => HalfRight(p, s, x, k)
      /\ a = 2 /\ i = top + 1 => HalfSum(p, s.summed[1], Wrap(v, W), Wrap(h, W))
      /\ i = top + a => s.summed[a] = v + h
      /\ i = top + a + 1 => s.shifted = _round_shift(v, x.shift)
      /\ i = top + a + 2 => <<s.q_out, s.sat>> = requant_golden(x.acc_in, x.scale, x.shift, p.out_width)

\* The sample's own edge.
LEMMA RequantEnters ==
  ASSUME NEW p, IsRequant(p), NEW s, RequantKept(p, s), NEW x \in Ports("requant", p), NEW in,
         in.acc_in = x.acc_in, in.scale = x.scale, in.shift = x.shift
  PROVE  RequantRight(p, requant(p, s, in), 1, x)
<1> DEFINE q == requant(p, s, in)
           L == Levels(p)
           a == p.per_add
           top == 1 + L * a
           La == L * a
<1>0. L \in Nat \ {0} /\ a \in {1, 2} BY DEF IsRequant
<1>1. IsSample(p, x) BY RequantPorts
<1>2. /\ q.pp = Products(p, x.acc_in, x.scale)
      /\ \A i \in 1..top : q.hf[i] = Entered(s.hf, Wrap(Half(x.shift), Width(p)), i)
      /\ \A i \in 1..(top + a) : q.sh[i] = Entered(s.sh, x.shift, i)
  <2>1. /\ q.pp = Products(p, in.acc_in, in.scale)
        /\ \A k \in 1..L : q.tree[k] = Level(p, s.tree[k], From(p, s, k))
        /\ q.summed = Adds(p, s.summed, From(p, s, L + 1)[1], s.hf[top])
        /\ q.shifted = Sra(s.summed[a], s.sh[top + a])
        /\ \A i \in 1..top : q.hf[i] = Entered(s.hf, Wrap(Half(in.shift), Width(p)), i)
        /\ \A i \in 1..(top + a) : q.sh[i] = Entered(s.sh, in.shift, i)
        /\ q.q_out = Clamp(s.shifted, p.out_width) /\ q.sat = (q.q_out # s.shifted)
        /\ RequantKept(p, q)
    BY RequantEdge, Zenon
  <2> HIDE DEF q, top, L, a
  <2> QED BY <2>1
<1> HIDE DEF q, L, a
<1>3. La \in Nat /\ top = 1 + La /\ La >= L
  <2>1. CASE a = 1 BY <2>1, <1>0
  <2>2. CASE a = 2 BY <2>2, <1>0
  <2> QED BY <1>0, <2>1, <2>2
<1> HIDE DEF top, La
<1>4. 1 \in 1..top /\ 1 \in 1..(top + a) BY <1>0, <1>3
<1>5. q.hf[1] = Wrap(Half(x.shift), Width(p)) /\ q.sh[1] = x.shift BY <1>2, <1>4 DEF Entered
<1>6. RowRight(p, q, x, 0) BY <1>1, <1>2, LeafRow DEF RowRight
<1>7. ASSUME NEW k \in 0..L, 1 = 1 + k * a PROVE k = 0
  <2>1. CASE a = 1 BY <2>1, <1>0, <1>7
  <2>2. CASE a = 2 BY <2>2, <1>0, <1>7
  <2> QED BY <1>0, <2>1, <2>2
<1>8. \A k \in 0..L : 1 = 1 + k * a => RowRight(p, q, x, k) BY <1>6, <1>7
<1>9. \A k \in 1..L : 1 # 2 * k BY <1>0
<1>10. 1 # top + 1 /\ 1 # top + a /\ 1 # top + a + 1 /\ 1 # top + a + 2 BY <1>0, <1>3
<1> QED BY <1>5, <1>8, <1>9, <1>10 DEF RequantRight, q, L, a, top

\* Every edge after it.
LEMMA RequantMoves ==
  ASSUME NEW p, IsRequant(p), NEW s, RequantKept(p, s), NEW x \in Ports("requant", p), NEW in,
         NEW i \in 1..(Levels(p) * p.per_add + p.per_add + 2), RequantRight(p, s, i, x)
  PROVE  RequantRight(p, requant(p, s, in), i + 1, x)
<1> DEFINE q == requant(p, s, in)
           L == Levels(p)
           a == p.per_add
           top == 1 + L * a
           La == L * a
           v == x.acc_in * x.scale
           h == Half(x.shift)
           W == Width(p)
           f == From(p, s, L + 1)
<1>0. L \in Nat \ {0} /\ a \in {1, 2} BY DEF IsRequant
<1>1. IsSample(p, x) /\ v \in Int /\ h \in Int /\ v + h \in Signed(W) BY RequantPorts
<1>2. W \in Nat \ {0} BY Terms12
<1>3. /\ q.pp = Products(p, in.acc_in, in.scale)
      /\ \A k \in 1..L : q.tree[k] = Level(p, s.tree[k], From(p, s, k))
      /\ q.summed = Adds(p, s.summed, f[1], s.hf[top])
      /\ q.shifted = Sra(s.summed[a], s.sh[top + a])
      /\ \A j \in 1..top : q.hf[j] = Entered(s.hf, Wrap(Half(in.shift), W), j)
      /\ \A j \in 1..(top + a) : q.sh[j] = Entered(s.sh, in.shift, j)
      /\ q.q_out = Clamp(s.shifted, p.out_width) /\ q.sat = (q.q_out # s.shifted)
      /\ RequantKept(p, q)
  BY RequantEdge, Zenon
<1>4. /\ i <= top => s.hf[i] = Wrap(h, W)
      /\ i <= top + a => s.sh[i] = x.shift
      /\ \A k \in 0..L : i = 1 + k * a => RowRight(p, s, x, k)
      /\ a = 2 => \A k \in 1..L : i = 2 * k => HalfRight(p, s, x, k)
      /\ a = 2 /\ i = top + 1 => HalfSum(p, s.summed[1], Wrap(v, W), Wrap(h, W))
      /\ i = top + a => s.summed[a] = v + h
      /\ i = top + a + 1 => s.shifted = _round_shift(v, x.shift)
  BY DEF RequantRight
<1>5. Wrap(Wrap(v, W) + Wrap(h, W), W) = v + h /\ Wrap(v, W) \in Int /\ Wrap(h, W) \in Int
  <2> HIDE DEF v, h, W
  <2>1. Wrap(Wrap(v, W) + Wrap(h, W), W) = Wrap(v + h, W) /\ Wrap(v, W) \in Int /\ Wrap(h, W) \in Int
    BY <1>1, <1>2, WrapSum
  <2> DEFINE u == v + h
  <2>2. u \in Signed(W) BY <1>1
  <2> HIDE DEF u
  <2>3. Wrap(u, W) = u BY <2>2, <1>2, WrapIn
  <2> QED BY <2>1, <2>3 DEF u
<1>6. RowRight(p, s, x, L) => f[1] = Wrap(v, W)
  <2> SUFFICES ASSUME RowRight(p, s, x, L) PROVE f[1] = Wrap(v, W) OBVIOUS
  <2>1. L + 1 \in 1..(Levels(p) + 1) /\ (L + 1) - 1 = L BY <1>0
  <2>2. \A n \in 1..Nodes(p, L) : f[n] = Node(p, x, L, n) BY <2>1, FromIs
  <2>3. 1 \in 1..Nodes(p, L) BY NodeCounts
  <2>4. f[1] = Node(p, x, L, 1) BY <2>2, <2>3
  <2> QED BY <2>4, <1>1, Root
<1>7. ASSUME NEW k \in 1..L
      PROVE  /\ RowRight(p, s, x, k - 1) /\ a = 1 => RowRight(p, q, x, k)
             /\ RowRight(p, s, x, k - 1) /\ a = 2 => HalfRight(p, q, x, k)
             /\ HalfRight(p, s, x, k) /\ a = 2 => RowRight(p, q, x, k)
  <2> HIDE DEF q
  <2>1. q.tree[k] = Level(p, s.tree[k], From(p, s, k)) BY <1>3
  <2> QED BY <2>1, <1>1, RowMoves
<1>8. /\ a = 1 => q.summed[1] = Wrap(f[1] + s.hf[top], W)
      /\ a = 2 => HalfSum(p, q.summed[1], f[1], s.hf[top])
      /\ \A y, z \in Int : a = 2 /\ HalfSum(p, s.summed[1], y, z) => q.summed[2] = Wrap(y + z, W)
  <2> HIDE DEF q
  <2> DEFINE g == s.summed
             y == f[1]
             z == s.hf[top]
  <2>1. q.summed = Adds(p, g, y, z) BY <1>3
  <2> HIDE DEF g, y, z
  <2>2. /\ a = 1 => q.summed[1] = Wrap(y + z, W)
        /\ a = 2 => HalfSum(p, q.summed[1], y, z)
        /\ \A b, c \in Int : a = 2 /\ HalfSum(p, g[1], b, c) => q.summed[2] = Wrap(b + c, W)
    BY <2>1, AddsRight
  <2> QED BY <2>2 DEF g, y, z
<1>9. i \in 1..(La + a + 2) OBVIOUS
<1> DEFINE n == i + 1
<1> HIDE DEF q, L, a
<1>10. La \in Nat /\ top = 1 + La
  <2>1. CASE a = 1 BY <2>1, <1>0
  <2>2. CASE a = 2 BY <2>2, <1>0
  <2> QED BY <1>0, <2>1, <2>2
<1>11. (a = 1 => La = L) /\ (a = 2 => La = 2 * L) BY <1>0
<1> HIDE DEF top, La, v, h, W, f
<1>12. n \in 2..(La + a + 3) /\ i = n - 1 BY <1>0, <1>9, <1>10
<1> HIDE DEF n
<1>13. ASSUME n <= top PROVE q.hf[n] = Wrap(h, W)
  <2>1. n \in 1..top /\ n # 1 /\ i <= top BY <1>12, <1>13, <1>10, <1>0
  <2> QED BY <2>1, <1>3, <1>4, <1>12 DEF Entered
<1>14. ASSUME n <= top + a PROVE q.sh[n] = x.shift
  <2>1. n \in 1..(top + a) /\ n # 1 /\ i <= top + a BY <1>12, <1>14, <1>10, <1>0
  <2> QED BY <2>1, <1>3, <1>4, <1>12 DEF Entered
<1>15. ASSUME NEW k \in 0..L, n = 1 + k * a PROVE RowRight(p, q, x, k)
  <2>1. k \in 1..L /\ k - 1 \in 0..L
    <3>1. CASE a = 1 BY <3>1, <1>0, <1>12, <1>15
    <3>2. CASE a = 2 BY <3>2, <1>0, <1>12, <1>15
    <3> QED BY <1>0, <3>1, <3>2
  <2>2. CASE a = 1
    <3>1. i = 1 + (k - 1) * a BY <2>1, <2>2, <1>0, <1>12, <1>15
    <3>2. RowRight(p, s, x, k - 1) BY <2>1, <3>1, <1>4
    <3> QED BY <2>1, <2>2, <3>2, <1>7
  <2>3. CASE a = 2
    <3>1. i = 2 * k BY <2>1, <2>3, <1>0, <1>12, <1>15
    <3>2. HalfRight(p, s, x, k) BY <2>1, <2>3, <3>1, <1>4
    <3> QED BY <2>1, <2>3, <3>2, <1>7
  <2> QED BY <1>0, <2>2, <2>3
<1>16. ASSUME a = 2, NEW k \in 1..L, n = 2 * k PROVE HalfRight(p, q, x, k)
  <2>1. k - 1 \in 0..L /\ i = 1 + (k - 1) * a BY <1>0, <1>12, <1>16
  <2>2. RowRight(p, s, x, k - 1) BY <2>1, <1>4
  <2> QED BY <2>2, <1>7, <1>16
<1>20. i = top => /\ f[1] = Wrap(v, W) /\ s.hf[top] = Wrap(h, W)
  <2> SUFFICES ASSUME i = top PROVE f[1] = Wrap(v, W) /\ s.hf[top] = Wrap(h, W) OBVIOUS
  <2>1. L \in 0..L /\ i = 1 + L * a BY <1>0 DEF top
  <2>2. RowRight(p, s, x, L) BY <2>1, <1>4
  <2>3. i <= top BY <1>10
  <2> QED BY <2>2, <2>3, <1>4, <1>6
<1>17. ASSUME a = 2, n = top + 1 PROVE HalfSum(p, q.summed[1], Wrap(v, W), Wrap(h, W))
  <2>1. i = top BY <1>12, <1>17, <1>10
  <2> QED BY <2>1, <1>8, <1>17, <1>20
<1>18. ASSUME n = top + a PROVE q.summed[a] = v + h
  <2>1. CASE a = 1
    <3>1. i = top BY <2>1, <1>12, <1>18, <1>10
    <3> QED BY <2>1, <3>1, <1>5, <1>8, <1>20
  <2>2. CASE a = 2
    <3>1. i = top + 1 BY <2>2, <1>12, <1>18, <1>10
    <3>2. HalfSum(p, s.summed[1], Wrap(v, W), Wrap(h, W)) BY <2>2, <3>1, <1>4
    <3>3. q.summed[2] = Wrap(Wrap(v, W) + Wrap(h, W), W) BY <2>2, <3>2, <1>5, <1>8
    <3> QED BY <2>2, <3>3, <1>5
  <2> QED BY <1>0, <2>1, <2>2
<1>19. ASSUME n = top + a + 1 PROVE q.shifted = _round_shift(v, x.shift)
  <2>1. i = top + a /\ i <= top + a BY <1>0, <1>10, <1>12, <1>19
  <2>2. s.summed[a] = v + h /\ s.sh[top + a] = x.shift BY <2>1, <1>4
  <2> QED BY <2>2, <1>3 DEF _round_shift, h
<1>21. ASSUME n = top + a + 2
       PROVE  <<q.q_out, q.sat>> = requant_golden(x.acc_in, x.scale, x.shift, p.out_width)
  <2>1. i = top + a + 1 BY <1>0, <1>10, <1>12, <1>21
  <2> DEFINE z == _round_shift(v, x.shift)
             c == Clamp(z, p.out_width)
             d == (c # z)
  <2>2. s.shifted = z BY <2>1, <1>4
  <2>3. requant_golden(x.acc_in, x.scale, x.shift, p.out_width) = <<c, d>> BY DEF requant_golden, v
  <2>4. q.q_out = c /\ q.sat = d BY <2>2, <1>3
  <2> HIDE DEF c, d
  <2> QED BY <2>3, <2>4
<1> QED BY <1>13, <1>14, <1>15, <1>16, <1>17, <1>18, <1>19, <1>21 DEF RequantRight, q, L, a, top, v, h, W, n

-----------------------------------------------------------------------------
(* Every pipeline on the bench: what its registers hold of a sample that   *)
(* has been in it for i edges, and what must be so whatever is in it.      *)

RightAt(u, p, s, i, x, h) ==
  CASE u = "mac" -> MacRight(p, s, i, x)       [] u = "requant" -> RequantRight(p, s, i, x)
    [] u = "expu" -> ExpuRight(p, s, i, x.x)   [] u = "recip" -> RecipRight(p, s, i, x.x)
    [] u = "rsqrt" -> RsqrtRight(p, s, i, x.x) [] u = "silu" -> SiluRight(p, s, i, x.x)
    [] u = "rope" -> RopeRight(p, s, i, x)     [] u = "resadd" -> ResaddRight(p, s, i, x, h)
    [] u = "crc" -> TRUE

Kept(u, p, s) ==
  CASE u = "requant" -> RequantKept(p, s) [] u = "silu" -> SiluChained(s)
    [] u = "crc" -> s.state \in SUBSET (0..31) [] OTHER -> TRUE

\* The endpoint's word has a whole number of bytes, and its matrix is that word's.
LEMMA EndpointSpec ==
  ASSUME NEW m \in Endpoints
  PROVE  LET p == Derived("crc", m)
         IN  p.bytes_per_cycle \in Nat \ {0} /\ p.matrix = crc_matrix(p.bytes_per_cycle)
<1> DEFINE E == {i \in DOMAIN ETH_RATES : ETH_RATES[i] >= m.link}
           k == IF E = {} THEN Len(ETH_RATES) ELSE Min(E)
           base == ETH_DATAPATHS[k]
           options == endpoint_options(m.link)
           j == AtMost(m.option + 1, Len(options))
           p == Derived("crc", m)
           o == options[j]
<1>1. p.bytes_per_cycle = o.bytes_per_cycle /\ p.matrix = crc_matrix(o.bytes_per_cycle)
  BY DEF Derived, derive_endpoint_spec
<1>2. k \in 1..4
  <2>1. Len(ETH_RATES) = 4 /\ DOMAIN ETH_RATES = 1..4 BY DEF ETH_RATES
  <2>2. CASE E = {} BY <2>1, <2>2
  <2>3. CASE E # {}
    <3>1. E \subseteq 1..4 BY <2>1
    <3> HIDE DEF E
    <3>2. E \subseteq Nat BY <3>1
    <3>3. \E n \in E : \A i \in E : n <= i BY <2>3, <3>2, SmallestNumber
    <3>4. Min(E) \in E BY <3>3 DEF Min
    <3> QED BY <2>3, <3>1, <3>4
  <2> QED BY <2>2, <2>3
<1> HIDE DEF E, k
<1>3. Len(base) = 2 /\ base[1][1] \in Nat \ {0} /\ base[2][1] \in Nat \ {0}
  <2>1. k = 1 \/ k = 2 \/ k = 3 \/ k = 4 BY <1>2
  <2> QED BY <2>1 DEF ETH_DATAPATHS
<1>4. options = [i \in 1..(2 * Len(base)) |->
         LET l == ((i - 1) % Len(base)) + 1
         IN  [bytes_per_cycle |-> base[l][1], clock |-> base[l][2],
              architecture |-> CRC_ARCHS[(i - 1) \div Len(base) + 1]]]
  BY DEF endpoint_options, k, E
<1> HIDE DEF base, options
<1>5. 2 * Len(base) = 4 BY <1>3
<1>6. \A i \in 1..4 : options[i].bytes_per_cycle = base[((i - 1) % 2) + 1][1] BY <1>3, <1>4, <1>5
<1>7. Len(options) = 4
  <2> DEFINE T == {options[i] : i \in 1..4}
  <2>1. options \in [1..4 -> T] BY <1>4, <1>5
  <2> HIDE DEF T
  <2> QED BY <2>1
<1>8. j \in 1..4
  <2>1. m.option \in Nat BY EndpointsAssumption
  <2> QED BY <2>1, <1>7 DEF AtMost
<1> HIDE DEF j
<1>9. ((j - 1) % 2) + 1 \in {1, 2} BY <1>8
<1>10. o.bytes_per_cycle \in Nat \ {0} BY <1>3, <1>6, <1>8, <1>9
<1> QED BY <1>1, <1>10

\* What the endpoint's state becomes, in either form, is what zlib's becomes.
LEMMA CrcNext ==
  ASSUME NEW m \in Endpoints, NEW s \in SUBSET (0..31),
         NEW d \in SUBSET (0..(8 * Derived("crc", m).bytes_per_cycle - 1))
  PROVE  LET p == Derived("crc", m)
             n == p.bytes_per_cycle
             t == crc32_bytes(s, [i \in 1..n |-> Byte(d, i - 1)])
         IN  /\ t \in SUBSET (0..31)
             /\ word_step(n, s, d) = t /\ matrix_step(p.matrix, s, d) = t
<1> DEFINE p == Derived("crc", m)
           n == p.bytes_per_cycle
           t == crc32_bytes(s, [i \in 1..n |-> Byte(d, i - 1)])
<1>1. n \in Nat \ {0} /\ p.matrix = crc_matrix(n) BY EndpointSpec
<1>2. d \in SUBSET (0..(8 * n - 1)) OBVIOUS
<1> HIDE DEF n
<1>3. d \in SUBSET Nat
  <2>1. 0..(8 * n - 1) \subseteq Nat BY <1>1
  <2> QED BY <1>2, <2>1
<1>4. t = word_step(n, s, d) /\ word_step(n, s, d) \in SUBSET (0..31) BY <1>1, <1>3, WordsAgree
<1>5. matrix_step(crc_matrix(n), s, d) = word_step(n, s, d) BY <1>1, <1>2, FlatForm
<1> QED BY <1>1, <1>4, <1>5 DEF n

\* An edge's sample is right in the first registers, and what was right i
\* edges in is right one edge further on.
DataMove(u, p, s, q, in, held) ==
  /\ Kept(u, p, q)
  /\ RightAt(u, p, q, 1, in, held)
  /\ \A x \in Ports(u, p) : \A i \in 1..(Latency(u, p) - 1) :
       RightAt(u, p, s, i, x, held) => RightAt(u, p, q, i + 1, x, held)

LEMMA DataMoves ==
  ASSUME NEW b \in Piped, NEW s, NEW in \in Ports(b[1], Bench.specs[b]), NEW held \in Held(b[1], Bench.specs[b]),
         NEW valid \in BOOLEAN, NEW clear \in BOOLEAN, Kept(b[1], Bench.specs[b], s)
  PROVE  LET u == b[1]
             p == Bench.specs[b]
         IN  DataMove(u, p, s, AfterEdge(u, p, s, Given(in, held, valid, clear)), in, held)
<1> DEFINE u == b[1]
           m == b[2]
           p == Bench.specs[b]
           g == Given(in, held, valid, clear)
           q == AfterEdge(u, p, s, g)
<1>1. p = Derived(u, m) /\ u \in Pipelined /\ (u # "crc" => m \in Models) /\ (u = "crc" => m \in Endpoints)
  BY Pipes
<1>0. in \in Ports(u, p) /\ held \in Held(u, p) /\ Kept(u, p, s) OBVIOUS
<1>12. /\ g.valid_in = valid /\ g.clear = clear
       /\ \A f \in PortFields(u) : g[f] = in[f]
       /\ \A f \in HeldFields(u) : g[f] = held[f]
  BY GivenFields
<1> SUFFICES DataMove(u, p, s, q, in, held) OBVIOUS
<1> HIDE DEF u, m, p, g
<1>2. CASE u = "mac"
  <2>1. p = derive_chiplet_spec(m) /\ m \in Models /\ q = mac(p, s, g) BY <1>1, <1>2 DEF Derived, AfterEdge
  <2>2. Latency(u, p) = p.pipeline_stages BY <1>2 DEF Latency
  <2>3. Ports(u, p) = [a : Signed(p.data_width), b : Signed(p.data_width)] BY <1>2 DEF Ports
  <2>4. g.a = in.a /\ g.b = in.b BY <1>2, <1>12 DEF PortFields
  <2> HIDE DEF q
  <2>5. \A x \in Ports(u, p) :
          /\ g.a = x.a /\ g.b = x.b => MacRight(p, q, 1, x)
          /\ \A i \in 1..(p.pipeline_stages - 1) : MacRight(p, s, i, x) => MacRight(p, q, i + 1, x)
    BY <2>1, <2>3, MacData
  <2>6. \A z, i, x : RightAt(u, p, z, i, x, held) = MacRight(p, z, i, x) BY <1>2 DEF RightAt
  <2>7. Kept(u, p, q) BY <1>2 DEF Kept
  <2> QED BY <1>0, <2>2, <2>4, <2>5, <2>6, <2>7 DEF DataMove
<1>3. CASE u = "requant"
  <2>1. p = derive_requant_spec(m) /\ m \in Models /\ q = requant(p, s, g) BY <1>1, <1>3 DEF Derived, AfterEdge
  <2>2. IsRequant(p) BY <2>1, RequantIs
  <2>3. Latency(u, p) = p.pipeline_stages BY <1>3 DEF Latency
  <2>4. p.pipeline_stages - 1 = Levels(p) * p.per_add + p.per_add + 2
    <3> DEFINE l == Levels(p)
    <3>1. l \in Nat \ {0} /\ p.per_add \in {1, 2} /\ p.pipeline_stages = l * p.per_add + p.per_add + 3
      BY <2>2 DEF IsRequant
    <3> HIDE DEF l
    <3>2. l * p.per_add \in Nat BY <3>1
    <3>3. p.pipeline_stages - 1 = l * p.per_add + p.per_add + 2 BY <3>1, <3>2
    <3> QED BY <3>3 DEF l
  <2>5. g.acc_in = in.acc_in /\ g.scale = in.scale /\ g.shift = in.shift BY <1>3, <1>12 DEF PortFields
  <2>6. RequantKept(p, s) BY <1>0, <1>3 DEF Kept
  <2>7. RequantKept(p, q) BY <2>1, <2>2, <2>6, RequantEdge
  <2>8. in \in Ports("requant", p) BY <1>0, <1>3
  <2>9. RequantRight(p, q, 1, in) BY <2>1, <2>2, <2>5, <2>6, <2>8, RequantEnters
  <2>10. ASSUME NEW x \in Ports("requant", p), NEW i \in 1..(p.pipeline_stages - 1), RequantRight(p, s, i, x)
         PROVE  RequantRight(p, q, i + 1, x)
    <3>1. i \in 1..(Levels(p) * p.per_add + p.per_add + 2) BY <2>4
    <3>2. RequantRight(p, requant(p, s, g), i + 1, x) BY <3>1, <2>2, <2>6, <2>10, RequantMoves
    <3> QED BY <3>2, <2>1
  <2> HIDE DEF q
  <2>11. \A z, i, x : RightAt(u, p, z, i, x, held) = RequantRight(p, z, i, x) BY <1>3 DEF RightAt
  <2>12. Kept(u, p, q) BY <1>3, <2>7 DEF Kept
  <2> QED BY <1>3, <2>3, <2>9, <2>10, <2>11, <2>12 DEF DataMove
<1>4. CASE u = "expu"
  <2>1. p = derive_exp_spec(m) /\ m \in Models /\ q = expu(p, s, g) BY <1>1, <1>4 DEF Derived, AfterEdge
  <2>2. Latency(u, p) = 3 BY <1>4, <2>1, ExpuSpec DEF Latency
  <2>3. \A x \in Ports(u, p) : x.x \in Int /\ x.x <= 0
    <3> DEFINE lo == Lowest(p.in_width)
    <3>1. Ports(u, p) = [x : lo..0] BY <1>4 DEF Ports
    <3>2. lo \in Int
      <4>1. p.in_width - 1 \in Nat BY <2>1, ExpuSpec
      <4> DEFINE k == p.in_width - 1
                 h == 2^k
      <4>2. lo = -h BY DEF Lowest
      <4>3. h \in Nat
        <5> HIDE DEF k
        <5> QED BY <4>1, PowerNat DEF k
      <4> HIDE DEF h, lo
      <4> QED BY <4>2, <4>3
    <3> HIDE DEF lo
    <3> QED BY <3>1, <3>2
  <2>4. g.x = in.x BY <1>4, <1>12 DEF PortFields
  <2> HIDE DEF q
  <2>5. /\ ExpuRight(p, q, 1, g.x)
        /\ \A x \in Int : x <= 0 =>
             \A i \in 1..2 : ExpuRight(p, s, i, x) => ExpuRight(p, q, i + 1, x)
    BY <2>1, ExpuData
  <2>6. \A z, i, x : RightAt(u, p, z, i, x, held) = ExpuRight(p, z, i, x.x) BY <1>4 DEF RightAt
  <2>7. Kept(u, p, q) BY <1>4 DEF Kept
  <2>8. 3 - 1 = 2 OBVIOUS
  <2> QED BY <1>0, <2>2, <2>3, <2>4, <2>5, <2>6, <2>7, <2>8 DEF DataMove
<1>5. CASE u = "recip"
  <2>1. p = derive_recip_spec(m) /\ m \in Models /\ q = recip(p, s, g) BY <1>1, <1>5 DEF Derived, AfterEdge
  <2>2. Latency(u, p) = 3 BY <1>5, <2>1, RecipSpec DEF Latency
  <2>3. \A x \in Ports(u, p) : x.x \in 1..(2^p.in_width - 1) BY <1>5 DEF Ports
  <2>4. g.x = in.x BY <1>5, <1>12 DEF PortFields
  <2> HIDE DEF q
  <2>5. \A x \in 1..(2^p.in_width - 1) :
          /\ g.x = x => RecipRight(p, q, 1, x)
          /\ \A i \in 1..2 : RecipRight(p, s, i, x) => RecipRight(p, q, i + 1, x)
    BY <2>1, RecipData
  <2>6. \A z, i, x : RightAt(u, p, z, i, x, held) = RecipRight(p, z, i, x.x) BY <1>5 DEF RightAt
  <2>7. Kept(u, p, q) BY <1>5 DEF Kept
  <2>8. 3 - 1 = 2 OBVIOUS
  <2> QED BY <1>0, <2>2, <2>3, <2>4, <2>5, <2>6, <2>7, <2>8 DEF DataMove
<1>6. CASE u = "rsqrt"
  <2>1. p = derive_rsqrt_spec(m) /\ m \in Models /\ q = rsqrt(p, s, g) BY <1>1, <1>6 DEF Derived, AfterEdge
  <2>2. Latency(u, p) = 3 BY <1>6, <2>1, RsqrtSpec DEF Latency
  <2>3. \A x \in Ports(u, p) : x.x \in 1..(2^p.in_width - 1) BY <1>6 DEF Ports
  <2>4. g.x = in.x BY <1>6, <1>12 DEF PortFields
  <2> HIDE DEF q
  <2>5. \A x \in 1..(2^p.in_width - 1) :
          /\ g.x = x => RsqrtRight(p, q, 1, x)
          /\ \A i \in 1..2 : RsqrtRight(p, s, i, x) => RsqrtRight(p, q, i + 1, x)
    BY <2>1, RsqrtData
  <2>6. \A z, i, x : RightAt(u, p, z, i, x, held) = RsqrtRight(p, z, i, x.x) BY <1>6 DEF RightAt
  <2>7. Kept(u, p, q) BY <1>6 DEF Kept
  <2>8. 3 - 1 = 2 OBVIOUS
  <2> QED BY <1>0, <2>2, <2>3, <2>4, <2>5, <2>6, <2>7, <2>8 DEF DataMove
<1>7. CASE u = "silu"
  <2>1. p = derive_silu_spec(m) /\ m \in Models /\ q = silu(p, s, g) BY <1>1, <1>7 DEF Derived, AfterEdge
  <2>2. Latency(u, p) = 11
    <3>1. p.exp.pipeline_stages = 3 /\ p.recip.pipeline_stages = 3 BY <2>1, SiluSpec, ExpuSpec, RecipSpec
    <3> QED BY <1>7, <3>1 DEF Latency
  <2>3. \A x \in Ports(u, p) : x.x \in Signed(p.width) BY <1>7 DEF Ports
  <2>4. g.x = in.x /\ SiluChained(s) BY <1>0, <1>7, <1>12 DEF PortFields, Kept
  <2> HIDE DEF q
  <2>5. /\ SiluChained(q)
        /\ \A x \in Signed(p.width) :
             /\ g.x = x => SiluRight(p, q, 1, x)
             /\ \A i \in 1..10 : SiluRight(p, s, i, x) => SiluRight(p, q, i + 1, x)
    BY <2>1, <2>4, SiluData
  <2>6. \A z, i, x : RightAt(u, p, z, i, x, held) = SiluRight(p, z, i, x.x) BY <1>7 DEF RightAt
  <2>7. Kept(u, p, q) BY <1>7, <2>5 DEF Kept
  <2>8. 11 - 1 = 10 OBVIOUS
  <2> QED BY <1>0, <2>2, <2>3, <2>4, <2>5, <2>6, <2>7, <2>8 DEF DataMove
<1>8. CASE u = "rope"
  <2>1. p = derive_rope_spec(m) /\ m \in Models /\ q = rope(p, s, g) BY <1>1, <1>8 DEF Derived, AfterEdge
  <2>4. g.x1 = in.x1 /\ g.x2 = in.x2 /\ g.idx = in.idx /\ g.pos = in.pos BY <1>8, <1>12 DEF PortFields
  <2> HIDE DEF q
  <2>5. \A x \in Ports(u, p) :
          /\ g.x1 = x.x1 /\ g.x2 = x.x2 /\ g.idx = x.idx /\ g.pos = x.pos => RopeRight(p, q, 1, x)
          /\ \A i \in 1..(Latency(u, p) - 1) : RopeRight(p, s, i, x) => RopeRight(p, q, i + 1, x)
    BY <1>8, <2>1, RopeData
  <2>6. \A z, i, x : RightAt(u, p, z, i, x, held) = RopeRight(p, z, i, x) BY <1>8 DEF RightAt
  <2>7. Kept(u, p, q) BY <1>8 DEF Kept
  <2> QED BY <1>0, <2>4, <2>5, <2>6, <2>7 DEF DataMove
<1>9. CASE u = "resadd"
  <2>1. p = derive_resadd_spec(m) /\ m \in Models /\ q = resadd(p, s, g) BY <1>1, <1>9 DEF Derived, AfterEdge
  <2>2. Latency(u, p) = 3 BY <1>9 DEF Latency
  <2>3. Ports(u, p) = [a : Signed(p.data_width), b : Signed(p.data_width)] /\ held \in resadd_held(p)
    BY <1>0, <1>9 DEF Ports, Held
  <2>4. g.a = in.a /\ g.b = in.b /\ g.scale_a = held.scale_a /\ g.scale_b = held.scale_b /\ g.shift = held.shift
    BY <1>9, <1>12 DEF PortFields, HeldFields
  <2> HIDE DEF q
  <2>5. \A x \in Ports(u, p) :
          /\ g.a = x.a /\ g.b = x.b => ResaddRight(p, q, 1, x, held)
          /\ \A i \in 1..2 : ResaddRight(p, s, i, x, held) => ResaddRight(p, q, i + 1, x, held)
    BY <2>1, <2>3, <2>4, ResaddData
  <2>6. \A z, i, x : RightAt(u, p, z, i, x, held) = ResaddRight(p, z, i, x, held) BY <1>9 DEF RightAt
  <2>7. Kept(u, p, q) BY <1>9 DEF Kept
  <2>8. 3 - 1 = 2 OBVIOUS
  <2> QED BY <1>0, <2>2, <2>4, <2>5, <2>6, <2>7, <2>8 DEF DataMove
<1>10. CASE u = "crc"
  <2>1. p = Derived("crc", m) /\ m \in Endpoints /\ q = crc(p, s, g) BY <1>1, <1>10 DEF AfterEdge
  <2>2. in.data \in SUBSET (0..(8 * p.bytes_per_cycle - 1)) BY <1>0, <1>10 DEF Ports
  <2>3. g.data = in.data /\ s.state \in SUBSET (0..31) BY <1>0, <1>10, <1>12 DEF PortFields, Kept
  <2> DEFINE nxt == IF p.architecture = "matrix" THEN matrix_step(p.matrix, s.state, in.data)
                                                  ELSE word_step(p.bytes_per_cycle, s.state, in.data)
  <2>4. nxt \in SUBSET (0..31)
    <3> DEFINE y == s.state
               d == in.data
               w == p.bytes_per_cycle
               t == crc32_bytes(y, [i \in 1..w |-> Byte(d, i - 1)])
               A == word_step(w, y, d)
               B == matrix_step(p.matrix, y, d)
    <3>1. y \in SUBSET (0..31) /\ d \in SUBSET (0..(8 * Derived("crc", m).bytes_per_cycle - 1)) BY <2>1, <2>2, <2>3
    <3>2. nxt \in {A, B} OBVIOUS
    <3> HIDE DEF y, d, nxt
    <3>3. t \in SUBSET (0..31) /\ A = t /\ B = t BY <2>1, <3>1, CrcNext
    <3> HIDE DEF t, A, B
    <3> QED BY <3>2, <3>3
  <2>5. q = CASE g.clear -> [s EXCEPT !.state = ONES, !.valid_out = FALSE]
              [] ~g.clear /\ g.valid_in -> [state |-> nxt, crc_out |-> Inverted(nxt), valid_out |-> TRUE]
              [] OTHER -> [s EXCEPT !.valid_out = FALSE]
    BY <2>1, <2>3 DEF crc
  <2>6. q.state \in SUBSET (0..31)
    <3> HIDE DEF q, nxt
    <3>1. CASE g.clear
      <4>1. q = [s EXCEPT !.state = ONES, !.valid_out = FALSE] BY <3>1, <2>5
      <4>2. q.state \in {s.state, ONES} BY <4>1
      <4> QED BY <4>2, <2>3 DEF ONES
    <3>2. CASE ~g.clear /\ g.valid_in BY <3>2, <2>4, <2>5
    <3>3. CASE ~g.clear /\ ~g.valid_in
      <4>1. q = [s EXCEPT !.valid_out = FALSE] BY <3>3, <2>5
      <4>2. q.state = s.state BY <4>1
      <4> QED BY <4>2, <2>3
    <3> QED BY <3>1, <3>2, <3>3
  <2> HIDE DEF q
  <2>7. Kept(u, p, q) BY <1>10, <2>6 DEF Kept
  <2>8. \A z, i, x : RightAt(u, p, z, i, x, held) BY <1>10 DEF RightAt
  <2> QED BY <2>7, <2>8 DEF DataMove
<1>11. u \in {"mac", "requant", "expu", "recip", "rsqrt", "silu", "rope", "resadd", "crc"} BY <1>1 DEF Pipelined
<1> QED BY <1>2, <1>3, <1>4, <1>5, <1>6, <1>7, <1>8, <1>9, <1>10, <1>11

LEMMA ResetKept ==
  ASSUME NEW b \in Piped
  PROVE  LET u == b[1]
             p == Bench.specs[b]
         IN  /\ Kept(u, p, Reset(u, p))
             /\ u = "mac" => Reset(u, p).acc = 0
             /\ u = "crc" => Reset(u, p).state = ONES /\ Reset(u, p).valid_out = FALSE
<1> DEFINE u == b[1]
           m == b[2]
           p == Bench.specs[b]
           q == Reset(u, p)
<1>1. p = Derived(u, m) /\ u \in Pipelined /\ (u # "crc" => m \in Models) BY Pipes
<1> SUFFICES /\ Kept(u, p, q)
             /\ u = "mac" => q.acc = 0
             /\ u = "crc" => q.state = ONES /\ q.valid_out = FALSE
  OBVIOUS
<1> HIDE DEF u, m, p
<1>2. CASE u = "requant"
  <2>1. p = derive_requant_spec(m) /\ m \in Models BY <1>1, <1>2 DEF Derived
  <2>2. IsRequant(p) BY <2>1, RequantIs
  <2>3. RequantKept(p, requant_reset(p)) BY <2>2, RequantResets
  <2> QED BY <1>2, <2>3 DEF Kept, Reset
<1>3. CASE u = "silu"
  <2>1. p = derive_silu_spec(m) /\ m \in Models BY <1>1, <1>3 DEF Derived
  <2>2. p.exp.pipeline_stages = 3 /\ p.recip.pipeline_stages = 3 BY <2>1, SiluSpec, ExpuSpec, RecipSpec
  <2>3. q = silu_reset(p) BY <1>3 DEF Reset
  <2>4. /\ q.xe = [i \in 1..3 |-> 0] /\ q.nege = [i \in 1..3 |-> FALSE]
        /\ q.e_r = [i \in 1..3 |-> 0] /\ q.x_r = [i \in 1..3 |-> 0] /\ q.neg_r = [i \in 1..3 |-> FALSE]
    BY <2>2, <2>3 DEF silu_reset, Chain
  <2> HIDE DEF q
  <2>5. SiluChained(q) BY <2>4 DEF SiluChained, IsChain
  <2> QED BY <1>3, <2>5 DEF Kept
<1>4. CASE u = "crc"
  <2>1. q = crc_reset(p) BY <1>4 DEF Reset
  <2>2. q.state = ONES /\ q.valid_out = FALSE BY <2>1 DEF crc_reset
  <2>3. ONES \in SUBSET (0..31) BY DEF ONES
  <2> QED BY <1>4, <2>2, <2>3 DEF Kept
<1>5. CASE u = "mac"
  <2>1. q.acc = 0 BY <1>5 DEF Reset, mac_reset
  <2> QED BY <1>5, <2>1 DEF Kept
<1>6. CASE u \notin {"requant", "silu", "crc", "mac"} BY <1>6 DEF Kept
<1> QED BY <1>2, <1>3, <1>4, <1>5, <1>6

\* What a unit that does not sum answers depends on its sample alone.
LEMMA GoldenAlone ==
  ASSUME NEW u \in Pipelined, u \notin Summing, NEW p, NEW x, NEW a, NEW b
  PROVE  Golden(u, p, x, a) = Golden(u, p, x, b)
<1>1. u \in {"requant", "expu", "recip", "rsqrt", "silu", "rope", "resadd"} BY DEF Pipelined, Summing
<1> QED BY <1>1 DEF Golden

\* What the bench shows on the answer ports, when the registers are right.
Shown(u, s) ==
  CASE u = "mac" -> s.acc [] u = "crc" -> s.crc_out
    [] u = "requant" -> <<s.q_out, s.sat>>
    [] u = "recip" -> <<s.y, s.k>> [] u = "rsqrt" -> <<s.y, s.e>>
    [] u = "rope" -> <<s.y1, s.y2>>
    [] OTHER -> s.y

LEMMA AnswerRight ==
  ASSUME NEW b \in Piped, b[1] \notin Summing, NEW s, NEW x \in Ports(b[1], Bench.specs[b]),
         NEW held \in Held(b[1], Bench.specs[b]),
         RightAt(b[1], Bench.specs[b], s, Latency(b[1], Bench.specs[b]), x, held)
  PROVE  Shown(b[1], s) = Golden(b[1], Bench.specs[b], Full(x, held), 0)
<1> DEFINE u == b[1]
           m == b[2]
           p == Bench.specs[b]
           y == Full(x, held)
           n == Latency(u, p)
<1>1. p = Derived(u, m) /\ u \in Pipelined /\ (u # "crc" => m \in Models) BY Pipes
<1>2. u \in {"requant", "expu", "recip", "rsqrt", "silu", "rope", "resadd"} BY <1>1 DEF Pipelined, Summing
<1>3. /\ \A f \in PortFields(u) : y[f] = x[f]
      /\ \A f \in HeldFields(u) : y[f] = held[f]
  <2>1. /\ \A f \in PortFields(b[1]) : Full(x, held)[f] = x[f]
        /\ \A f \in HeldFields(b[1]) : Full(x, held)[f] = held[f]
    BY GivenFields
  <2> QED BY <2>1
<1>4. RightAt(u, p, s, n, x, held) OBVIOUS
<1> SUFFICES Shown(u, s) = Golden(u, p, y, 0) OBVIOUS
<1> HIDE DEF u, m, p, y
<1>5. CASE u = "requant"
  <2>1. p = derive_requant_spec(m) /\ m \in Models BY <1>1, <1>5 DEF Derived
  <2> DEFINE l == Levels(p)
             a == p.per_add
             la == l * a
  <2>2. l \in Nat \ {0} /\ a \in {1, 2} /\ p.pipeline_stages = la + a + 3
    BY <2>1, RequantIs DEF IsRequant
  <2>3. n = p.pipeline_stages BY <1>5 DEF Latency
  <2>4. RequantRight(p, s, n, x) BY <1>4, <1>5 DEF RightAt
  <2>5. n = (1 + la) + a + 2 =>
          <<s.q_out, s.sat>> = requant_golden(x.acc_in, x.scale, x.shift, p.out_width)
    BY <2>4 DEF RequantRight
  <2>6. n = (1 + la) + a + 2
    <3>1. la \in Nat BY <2>2
    <3> HIDE DEF n, l, a, la
    <3> QED BY <2>2, <2>3, <3>1
  <2>7. y.acc_in = x.acc_in /\ y.scale = x.scale /\ y.shift = x.shift BY <1>3, <1>5 DEF PortFields
  <2>8. Golden(u, p, y, 0) = requant_golden(x.acc_in, x.scale, x.shift, p.out_width) BY <1>5, <2>7 DEF Golden
  <2>9. Shown(u, s) = <<s.q_out, s.sat>> BY <1>5 DEF Shown
  <2> QED BY <2>5, <2>6, <2>8, <2>9
<1>6. CASE u = "expu"
  <2>1. p = derive_exp_spec(m) /\ m \in Models BY <1>1, <1>6 DEF Derived
  <2>2. n = 3 BY <1>6, <2>1, ExpuSpec DEF Latency
  <2>3. s.y = exp_golden(x.x, p) BY <1>4, <1>6, <2>2 DEF RightAt, ExpuRight
  <2>4. y.x = x.x BY <1>3, <1>6 DEF PortFields
  <2> QED BY <1>6, <2>3, <2>4 DEF Golden, Shown
<1>7. CASE u = "recip"
  <2>1. p = derive_recip_spec(m) /\ m \in Models BY <1>1, <1>7 DEF Derived
  <2>2. n = 3 BY <1>7, <2>1, RecipSpec DEF Latency
  <2>3. <<s.y, s.k>> = recip_golden(x.x, p) BY <1>4, <1>7, <2>2 DEF RightAt, RecipRight
  <2>4. y.x = x.x BY <1>3, <1>7 DEF PortFields
  <2> QED BY <1>7, <2>3, <2>4 DEF Golden, Shown
<1>8. CASE u = "rsqrt"
  <2>1. p = derive_rsqrt_spec(m) /\ m \in Models BY <1>1, <1>8 DEF Derived
  <2>2. n = 3 BY <1>8, <2>1, RsqrtSpec DEF Latency
  <2>3. <<s.y, s.e>> = rsqrt_golden(x.x, p) BY <1>4, <1>8, <2>2 DEF RightAt, RsqrtRight
  <2>4. y.x = x.x BY <1>3, <1>8 DEF PortFields
  <2> QED BY <1>8, <2>3, <2>4 DEF Golden, Shown
<1>9. CASE u = "silu"
  <2>1. p = derive_silu_spec(m) /\ m \in Models BY <1>1, <1>9 DEF Derived
  <2>2. p.exp.pipeline_stages = 3 /\ p.recip.pipeline_stages = 3 BY <2>1, SiluSpec, ExpuSpec, RecipSpec
  <2>3. n = 11 BY <1>9, <2>2 DEF Latency
  <2>4. s.y = silu_golden(x.x, p) BY <1>4, <1>9, <2>3 DEF RightAt, SiluRight
  <2>5. y.x = x.x BY <1>3, <1>9 DEF PortFields
  <2> QED BY <1>9, <2>4, <2>5 DEF Golden, Shown
<1>10. CASE u = "rope"
  <2>1. n = IF p.data_width > Sizes.one_multiply THEN 5 ELSE 4 BY <1>10 DEF Latency
  <2>2. RopeRight(p, s, n, x) BY <1>4, <1>10 DEF RightAt
  <2>3. <<s.y1, s.y2>> = RopeGolden(x, p)
    <3>1. CASE p.data_width > Sizes.one_multiply BY <2>1, <2>2, <3>1 DEF RopeRight
    <3>2. CASE ~(p.data_width > Sizes.one_multiply) BY <2>1, <2>2, <3>2 DEF RopeRight
    <3> QED BY <3>1, <3>2
  <2>4. y.x1 = x.x1 /\ y.x2 = x.x2 /\ y.idx = x.idx /\ y.pos = x.pos BY <1>3, <1>10 DEF PortFields
  <2> QED BY <1>10, <2>3, <2>4 DEF Golden, Shown, RopeGolden
<1>11. CASE u = "resadd"
  <2>1. n = 3 BY <1>11 DEF Latency
  <2>2. s.y = resadd_golden(x.a, x.b, held.scale_a, held.scale_b, held.shift, p.data_width)
    BY <1>4, <1>11, <2>1 DEF RightAt, ResaddRight
  <2>3. y.a = x.a /\ y.b = x.b /\ y.scale_a = held.scale_a /\ y.scale_b = held.scale_b /\ y.shift = held.shift
    BY <1>3, <1>11 DEF PortFields, HeldFields
  <2> QED BY <1>11, <2>2, <2>3 DEF Golden, Shown
<1> QED BY <1>2, <1>5, <1>6, <1>7, <1>8, <1>9, <1>10, <1>11

-----------------------------------------------------------------------------
(* What the bench sums, and the answers it owes.                           *)

\* A unit that sums holds the sum, and the fabric's answer is the frame's.
SumRight(u, s, want) ==
  /\ u = "mac" => s.acc = want
  /\ u = "crc" => s.state = want /\ (s.valid_out => s.crc_out = Inverted(want))

\* The sample an edge answers, and the answer owed after it.
Answering(line, n, e, clear) == IF clear THEN <<>> ELSE IF n = 1 THEN e ELSE line[n - 1]

Owed(u, p, answered, clear, held, want) ==
  CASE clear -> NothingSummed(u)
    [] ~clear /\ answered # <<>> -> Golden(u, p, Full(answered[1], held), want)
    [] OTHER -> want

\* The accumulator takes the sample whose product has arrived, and no other.
LEMMA MacOwes ==
  ASSUME NEW b \in Piped, b[1] = "mac", NEW s, NEW want,
         NEW in \in Ports(b[1], Bench.specs[b]), NEW held \in Held(b[1], Bench.specs[b]),
         NEW valid \in BOOLEAN, NEW clear \in BOOLEAN,
         NEW line \in [1..Latency(b[1], Bench.specs[b]) -> Slots(b[1], Bench.specs[b])],
         \A i \in 1..Latency(b[1], Bench.specs[b]) : Flags(b[1], Bench.specs[b], s)[i] = (line[i] # <<>>),
         \A i \in 1..Latency(b[1], Bench.specs[b]) : \A x \in Ports(b[1], Bench.specs[b]) :
           line[i] = <<x>> => RightAt(b[1], Bench.specs[b], s, i, x, held),
         SumRight(b[1], s, want)
  PROVE  LET u == b[1]
             p == Bench.specs[b]
             q == AfterEdge(u, p, s, Given(in, held, valid, clear))
             a == Answering(line, Latency(u, p), Entering(in, valid), clear)
         IN  SumRight(u, q, Owed(u, p, a, clear, held, want))
<1> DEFINE u == b[1]
           m == b[2]
           p == Bench.specs[b]
           g == Given(in, held, valid, clear)
           q == AfterEdge(u, p, s, g)
           n == Latency(u, p)
           a == Answering(line, n, Entering(in, valid), clear)
           P == Ports(u, p)
           w == Owed(u, p, a, clear, held, want)
<1>1. p = derive_chiplet_spec(m) /\ m \in Models /\ u = "mac" BY Pipes DEF Derived
<1>2. p.pipeline_stages \in {2, 3} BY <1>1, MacSpec
<1>3. n = p.pipeline_stages BY <1>1 DEF Latency
<1>4. g.clear = clear BY GivenFields
<1>5. /\ line \in [1..n -> Slots(u, p)] /\ \A i \in 1..n : Flags(u, p, s)[i] = (line[i] # <<>>)
      /\ \A i \in 1..n : \A x \in P : line[i] = <<x>> => RightAt(u, p, s, i, x, held)
      /\ SumRight(u, s, want)
  OBVIOUS
<1> SUFFICES SumRight(u, q, w) OBVIOUS
<1>6. \A x \in P : Full(x, held).a = x.a /\ Full(x, held).b = x.b
  <2>1. ASSUME NEW x \in P PROVE Full(x, held).a = x.a /\ Full(x, held).b = x.b
    <3>1. \A f \in PortFields(b[1]) : Full(x, held)[f] = x[f] BY GivenFields
    <3>2. "a" \in PortFields(b[1]) /\ "b" \in PortFields(b[1]) BY <1>1 DEF PortFields
    <3> QED BY <3>1, <3>2
  <2> QED BY <2>1
<1> HIDE DEF u, m, p, g
<1>7. q = mac(p, s, g) BY <1>1 DEF AfterEdge
<1>8. s.acc = want BY <1>1, <1>5 DEF SumRight
<1> HIDE DEF P, q, n
<1>9. /\ clear => q.acc = 0
      /\ \A x : ~clear /\ Flags("mac", p, s)[n - 1] = TRUE /\ MacRight(p, s, n - 1, x)
                  => q.acc = Wrap(s.acc + x.a * x.b, p.acc_width)
      /\ ~clear /\ Flags("mac", p, s)[n - 1] = FALSE => q.acc = s.acc
  <2> DEFINE p0 == derive_chiplet_spec(m)
             q0 == mac(p0, s, g)
             n0 == p0.pipeline_stages
  <2>1. m \in Models BY <1>1
  <2>2. \A x : ~g.clear /\ Flags("mac", p0, s)[n0 - 1] = TRUE /\ MacRight(p0, s, n0 - 1, x)
                 => q0.acc = Wrap(s.acc + x.a * x.b, p0.acc_width)
    BY <2>1, MacSums
  <2>4. /\ g.clear => q0.acc = 0
        /\ ~g.clear /\ Flags("mac", p0, s)[n0 - 1] = FALSE => q0.acc = s.acc
    BY <2>1, MacWaits
  <2>3. p0 = p /\ q0 = q /\ n0 = n BY <1>1, <1>3, <1>7
  <2> HIDE DEF p0, q0, n0
  <2> QED BY <1>4, <2>2, <2>3, <2>4
<1>10. n \in {2, 3} /\ n - 1 \in 1..n BY <1>2, <1>3
<1>11. a = IF clear THEN <<>> ELSE line[n - 1] BY <1>10 DEF Answering
<1> HIDE DEF a
<1>12. q.acc = w
  <2>1. CASE clear BY <2>1, <1>1, <1>9 DEF Owed, NothingSummed
  <2>2. CASE ~clear /\ line[n - 1] = <<>>
    <3>1. Flags("mac", p, s)[n - 1] = FALSE BY <2>2, <1>1, <1>5, <1>10
    <3>2. w = want BY <2>2, <1>11 DEF Owed
    <3> QED BY <2>2, <3>1, <3>2, <1>8, <1>9
  <2>3. CASE ~clear /\ line[n - 1] # <<>>
    <3>1. line[n - 1] \in Slots(u, p) BY <1>5, <1>10
    <3>2. PICK x \in P : line[n - 1] = <<x>> BY <3>1, <2>3 DEF Slots, P
    <3>3. Flags("mac", p, s)[n - 1] = TRUE BY <2>3, <1>1, <1>5, <1>10
    <3>4. MacRight(p, s, n - 1, x) BY <3>2, <1>1, <1>5, <1>10 DEF RightAt
    <3>5. q.acc = Wrap(want + x.a * x.b, p.acc_width) BY <2>3, <3>3, <3>4, <1>8, <1>9
    <3>6. a # <<>> /\ a[1] = x BY <3>2, <2>3, <1>11
    <3>7. w = Golden(u, p, Full(x, held), want) BY <3>6, <2>3 DEF Owed
    <3>8. w = Wrap(want + x.a * x.b, p.acc_width) BY <3>7, <1>1, <1>6 DEF Golden
    <3> QED BY <3>5, <3>8
  <2> QED BY <2>1, <2>2, <2>3
<1> QED BY <1>1, <1>12 DEF SumRight

\* The endpoint's state goes one word on with a sample, and waits without.
LEMMA CrcOwes ==
  ASSUME NEW b \in Piped, b[1] = "crc", NEW s, NEW want,
         NEW in \in Ports(b[1], Bench.specs[b]), NEW held \in Held(b[1], Bench.specs[b]),
         NEW valid \in BOOLEAN, NEW clear \in BOOLEAN, NEW line,
         DOMAIN s = {"state", "crc_out", "valid_out"},
         Kept(b[1], Bench.specs[b], s), SumRight(b[1], s, want)
  PROVE  LET u == b[1]
             p == Bench.specs[b]
             q == AfterEdge(u, p, s, Given(in, held, valid, clear))
             a == Answering(line, Latency(u, p), Entering(in, valid), clear)
         IN  SumRight(u, q, Owed(u, p, a, clear, held, want))
<1> DEFINE u == b[1]
           m == b[2]
           p == Bench.specs[b]
           g == Given(in, held, valid, clear)
           q == AfterEdge(u, p, s, g)
           n == Latency(u, p)
           a == Answering(line, n, Entering(in, valid), clear)
           w == Owed(u, p, a, clear, held, want)
           y == s.state
           d == in.data
           k == p.bytes_per_cycle
           t == crc32_bytes(y, [i \in 1..k |-> Byte(d, i - 1)])
           A == word_step(k, y, d)
           B == matrix_step(p.matrix, y, d)
           nxt == IF p.architecture = "matrix" THEN B ELSE A
<1>1. p = Derived("crc", m) /\ m \in Endpoints /\ u = "crc" BY Pipes
<1>2. n = 1 BY <1>1, CrcSpec DEF Latency
<1>3. g.valid_in = valid /\ g.clear = clear /\ g.data = d /\ Full(in, held).data = d
  <2>1. /\ g.valid_in = valid /\ g.clear = clear
        /\ \A f \in PortFields(b[1]) : g[f] = in[f] /\ Full(in, held)[f] = in[f]
    BY GivenFields
  <2>2. "data" \in PortFields(b[1]) BY <1>1 DEF PortFields
  <2> QED BY <2>1, <2>2
<1>4. in \in Ports(u, p) /\ Kept(u, p, s) /\ SumRight(u, s, want) OBVIOUS
<1> SUFFICES SumRight(u, q, w) OBVIOUS
<1> HIDE DEF u, m, p, g
<1>5. d \in SUBSET (0..(8 * p.bytes_per_cycle - 1)) BY <1>1, <1>4 DEF Ports
<1>6. y \in SUBSET (0..31) /\ y = want /\ (s.valid_out => s.crc_out = Inverted(want))
  BY <1>1, <1>4 DEF Kept, SumRight
<1>7. nxt = t
  <2>1. nxt \in {A, B} OBVIOUS
  <2>2. d \in SUBSET (0..(8 * Derived("crc", m).bytes_per_cycle - 1)) BY <1>1, <1>5
  <2> HIDE DEF y, d, nxt
  <2>3. A = t /\ B = t BY <1>1, <1>6, <2>2, CrcNext
  <2> HIDE DEF t, A, B
  <2> QED BY <2>1, <2>3
<1>8. q = crc(p, s, g) BY <1>1 DEF AfterEdge
<1>9. q = CASE g.clear -> [s EXCEPT !.state = ONES, !.valid_out = FALSE]
            [] ~g.clear /\ g.valid_in -> [state |-> nxt, crc_out |-> Inverted(nxt), valid_out |-> TRUE]
            [] OTHER -> [s EXCEPT !.valid_out = FALSE]
  BY <1>3, <1>8 DEF crc
<1>10. a = IF clear THEN <<>> ELSE Entering(in, valid) BY <1>2 DEF Answering
<1> HIDE DEF a, q, n, nxt, t
<1>11. q.state = w /\ (q.valid_out => q.crc_out = Inverted(w))
  <2>1. CASE clear
    <3>1. q = [s EXCEPT !.state = ONES, !.valid_out = FALSE] BY <2>1, <1>3, <1>9
    <3>2. w = ONES BY <2>1, <1>1 DEF Owed, NothingSummed
    <3>3. q.state = ONES /\ q.valid_out = FALSE BY <3>1
    <3> QED BY <3>2, <3>3
  <2>2. CASE ~clear /\ valid
    <3>1. q = [state |-> nxt, crc_out |-> Inverted(nxt), valid_out |-> TRUE] BY <2>2, <1>3, <1>9
    <3>2. a = <<in>> BY <2>2, <1>10 DEF Entering
    <3>3. a # <<>> /\ a[1] = in BY <3>2
    <3>4. w = Golden(u, p, Full(in, held), want) BY <3>3, <2>2 DEF Owed
    <3>5. w = crc32_bytes(want, [i \in 1..k |-> Byte(Full(in, held).data, i - 1)]) BY <3>4, <1>1 DEF Golden
    <3>6. w = t
      <4>1. w = crc32_bytes(y, [i \in 1..k |-> Byte(d, i - 1)])
        <5> HIDE DEF y, d, w, k
        <5> QED BY <3>5, <1>3, <1>6
      <4> QED BY <4>1 DEF t
    <3>7. q.state = nxt /\ q.crc_out = Inverted(nxt) BY <3>1
    <3> QED BY <3>6, <3>7, <1>7
  <2>3. CASE ~clear /\ ~valid
    <3>1. q = [s EXCEPT !.valid_out = FALSE] BY <2>3, <1>3, <1>9
    <3>2. a = <<>> BY <2>3, <1>10 DEF Entering
    <3>3. w = want BY <2>3, <3>2 DEF Owed
    <3>4. q.state = s.state /\ q.valid_out = FALSE BY <3>1
    <3> QED BY <3>3, <3>4, <1>6
  <2> QED BY <2>1, <2>2, <2>3
<1> QED BY <1>1, <1>11 DEF SumRight

-----------------------------------------------------------------------------
(* What is in the registers of a pipeline is what the line says, and the   *)
(* answer it shows is the one that is owed.                                *)

DataInv ==
  block \in Piped =>
    /\ Kept(unit, spec, r)
    /\ \A i \in 1..Latency(unit, spec) : \A x \in Ports(unit, spec) :
         tb.line[i] = <<x>> => RightAt(unit, spec, r, i, x, tb.held)
    /\ SumRight(unit, r, tb.want)
    /\ unit \notin Summing =>
         \A x \in Ports(unit, spec) :
           tb.line[Latency(unit, spec)] = <<x>> => tb.want = Golden(unit, spec, Full(x, tb.held), 0)

LEMMA EmptyData ==
  ASSUME block \in Piped, \A i \in 1..Latency(unit, spec) : tb.line[i] = <<>>,
         r = Reset(unit, spec), tb.want = NothingSummed(unit)
  PROVE  DataInv
<1> DEFINE n == Latency(unit, spec)
<1>1. n \in Nat \ {0} BY LatencyNat DEF unit, spec
<1>2. /\ Kept(unit, spec, Reset(unit, spec))
      /\ unit = "mac" => Reset(unit, spec).acc = 0
      /\ unit = "crc" => Reset(unit, spec).state = ONES /\ Reset(unit, spec).valid_out = FALSE
  BY ResetKept DEF unit, spec
<1>3. \A i \in 1..n : \A x : tb.line[i] # <<x>> OBVIOUS
<1>4. n \in 1..n BY <1>1
<1>5. SumRight(unit, r, tb.want)
  <2>1. CASE unit = "mac" BY <2>1, <1>2 DEF SumRight, NothingSummed
  <2>2. CASE unit = "crc" BY <2>2, <1>2 DEF SumRight, NothingSummed
  <2>3. CASE unit \notin {"mac", "crc"} BY <2>3 DEF SumRight
  <2> QED BY <2>1, <2>2, <2>3
<1> HIDE DEF n
<1> QED BY <1>2, <1>3, <1>4, <1>5 DEF DataInv, n

LEMMA InitData == Init => DataInv
<1> SUFFICES ASSUME Init, block \in Piped PROVE DataInv BY DEF DataInv
<1>1. block \notin Runs BY NotBoth
<1>2. PICK held \in Held(unit, spec), mode \in {"alone", "burst"} :
        tb = [mode |-> mode, held |-> held, line |-> EmptyLine,
              want |-> NothingSummed(unit), resets |-> MaxResets,
              left |-> IF mode = "alone" THEN 1 ELSE BurstLen,
              clears |-> IF mode = "alone" THEN 0 ELSE MaxClears]
  BY <1>1 DEF Init
<1>3. r = Reset(unit, spec) BY <1>1 DEF Init
<1>4. tb.line = EmptyLine /\ tb.want = NothingSummed(unit) BY <1>2
<1>5. \A i \in 1..Latency(unit, spec) : tb.line[i] = <<>> BY <1>4 DEF EmptyLine, Chain
<1> QED BY <1>3, <1>4, <1>5, EmptyData

LEMMA DataStep == LineInv /\ DataInv /\ [Next]_vars => DataInv'
<1> SUFFICES ASSUME LineInv, DataInv, [Next]_vars PROVE DataInv' OBVIOUS
<1> DEFINE n == Latency(unit, spec)
           S == Slots(unit, spec)
           P == Ports(unit, spec)
<1>1. ASSUME Sample \/ Gap \/ Clear PROVE DataInv'
  <2>1. PICK in, valid, clear : Offering(in, valid, clear) BY <1>1, Offers
  <2> DEFINE h == tb.held
             e == Entering(in, valid)
             q == AfterEdge(unit, spec, r, Given(in, h, valid, clear))
             l == tb.line
             w == Moved(l, n, e, clear)
             a == Answering(l, n, e, clear)
             o == Owed(unit, spec, a, clear, h, tb.want)
  <2>2. block \in Piped /\ in \in P /\ valid \in BOOLEAN /\ clear \in BOOLEAN
        /\ (clear => unit \in Summing)
    BY <2>1 DEF Offering
  <2>3. /\ DOMAIN tb = TbFields
        /\ h \in Held(unit, spec) /\ l \in [1..n -> S] /\ Shaped(unit, spec, r)
        /\ \A i \in 1..n : Flags(unit, spec, r)[i] = (l[i] # <<>>)
    BY <2>2 DEF LineInv
  <2>4. /\ Kept(unit, spec, r)
        /\ \A i \in 1..n : \A x \in P : l[i] = <<x>> => RightAt(unit, spec, r, i, x, h)
        /\ SumRight(unit, r, tb.want)
    BY <2>2 DEF DataInv
  <2>5. n \in Nat \ {0} BY <2>2, LatencyNat DEF unit, spec
  <2>6. e \in S BY <2>2 DEF Slots, Entering
  <2>7. UNCHANGED block /\ tb'.held = h /\ tb'.line = w /\ r' = q /\ tb'.want = o
    <3>1. /\ UNCHANGED block /\ DOMAIN tb' = TbFields /\ tb'.held = tb.held
          /\ tb'.line = w /\ r' = q
          /\ tb'.want = LET answered == IF clear THEN <<>> ELSE Last(Shifted(l, e))
                        IN  CASE clear -> NothingSummed(unit)
                              [] ~clear /\ answered # <<>> ->
                                   Golden(unit, spec, Full(answered[1], h), tb.want)
                              [] OTHER -> tb.want
      BY <2>1, ClockedTb
    <3>2. Last(Shifted(l, e)) = IF n = 1 THEN e ELSE l[n - 1]
      <4> HIDE DEF n, S, l, e
      <4>1. l \in [1..n -> S] /\ clear \in BOOLEAN BY <2>2, <2>3
      <4>2. /\ Append(Front(Shifted(l, e)), IF clear THEN <<>> ELSE Last(Shifted(l, e)))
                 = Moved(l, n, e, clear)
            /\ Last(Shifted(l, e)) = IF n = 1 THEN e ELSE l[n - 1]
        BY <2>5, <2>6, <4>1, LineMoves, Zenon
      <4> QED BY <4>2
    <3>3. (IF clear THEN <<>> ELSE Last(Shifted(l, e))) = a BY <3>2 DEF Answering
    <3> HIDE DEF a, w, q, l, e, n
    <3>4. tb'.want = o BY <3>1, <3>3 DEF Owed
    <3> QED BY <3>1, <3>4
  <2>8. DataMove(unit, spec, r, q, in, h)
    <3>1. block \in Piped /\ in \in Ports(block[1], Bench.specs[block])
          /\ h \in Held(block[1], Bench.specs[block]) /\ Kept(block[1], Bench.specs[block], r)
      BY <2>2, <2>3, <2>4 DEF unit, spec
    <3> HIDE DEF h
    <3>2. DataMove(block[1], Bench.specs[block], r,
                   AfterEdge(block[1], Bench.specs[block], r, Given(in, h, valid, clear)), in, h)
      BY <2>2, <3>1, DataMoves
    <3> QED BY <3>2 DEF unit, spec
  <2>9. SumRight(unit, q, o)
    <3> DEFINE u == block[1]
               p == Bench.specs[block]
               k == tb.want
    <3>1. /\ in \in Ports(u, p) /\ h \in Held(u, p) /\ l \in [1..Latency(u, p) -> Slots(u, p)]
          /\ \A i \in 1..Latency(u, p) : Flags(u, p, r)[i] = (l[i] # <<>>)
          /\ \A i \in 1..Latency(u, p) : \A x \in Ports(u, p) :
               l[i] = <<x>> => RightAt(u, p, r, i, x, h)
          /\ SumRight(u, r, k) /\ Kept(u, p, r) /\ Shaped(u, p, r)
      BY <2>2, <2>3, <2>4 DEF unit, spec
    <3>2. CASE unit = "mac"
      <4>1. block[1] = "mac" BY <3>2 DEF unit
      <4> HIDE DEF h, l, k
      <4>2. SumRight(block[1], AfterEdge(block[1], Bench.specs[block], r, Given(in, h, valid, clear)),
              Owed(block[1], Bench.specs[block],
                   Answering(l, Latency(block[1], Bench.specs[block]), Entering(in, valid), clear),
                   clear, h, k))
        BY <2>2, <3>1, <4>1, MacOwes
      <4> QED BY <4>2 DEF unit, spec, k
    <3>3. CASE unit = "crc"
      <4>1. block[1] = "crc" BY <3>3 DEF unit
      <4>2. DOMAIN r = {"state", "crc_out", "valid_out"} BY <3>1, <4>1 DEF Shaped
      <4> HIDE DEF h, l, k
      <4>3. SumRight(block[1], AfterEdge(block[1], Bench.specs[block], r, Given(in, h, valid, clear)),
              Owed(block[1], Bench.specs[block],
                   Answering(l, Latency(block[1], Bench.specs[block]), Entering(in, valid), clear),
                   clear, h, k))
        BY <2>2, <3>1, <4>1, <4>2, CrcOwes
      <4> QED BY <4>3 DEF unit, spec, k
    <3>4. CASE unit \notin {"mac", "crc"} BY <3>4 DEF SumRight
    <3> QED BY <3>2, <3>3, <3>4
  <2> HIDE DEF q, l, e, h
  <2>10. ASSUME NEW i \in 1..n, NEW x \in P, w[i] = <<x>> PROVE RightAt(unit, spec, q, i, x, h)
    <3>1. Entered(l, e, i) = <<x>>
      <4> DEFINE y == Entered(l, e, i)
      <4>1. w[i] = IF clear /\ i = n THEN <<>> ELSE y BY DEF Moved
      <4>2. w[i] = <<x>> /\ <<x>> # <<>> BY <2>10
      <4> HIDE DEF y, w
      <4>3. y = <<x>> BY <4>1, <4>2
      <4> QED BY <4>3 DEF y
    <3>2. CASE i = 1
      <4>1. e = <<x>> BY <3>1, <3>2 DEF Entered
      <4>2. x = in BY <4>1, <2>2 DEF e, Entering
      <4> QED BY <3>2, <4>2, <2>8 DEF DataMove
    <3>3. CASE i # 1
      <4> DEFINE j == i - 1
      <4>0. j \in 1..n /\ j \in 1..(n - 1) /\ j + 1 = i BY <3>3, <2>5
      <4>1. l[j] = <<x>> BY <3>1, <3>3 DEF Entered
      <4> HIDE DEF j
      <4>2. RightAt(unit, spec, r, j, x, h) BY <4>0, <4>1, <2>4
      <4>3. RightAt(unit, spec, q, j + 1, x, h) BY <4>0, <4>2, <2>8 DEF DataMove
      <4> QED BY <4>0, <4>3
    <3> QED BY <3>2, <3>3
  <2>11. ASSUME unit \notin Summing, NEW x \in P, w[n] = <<x>>
         PROVE  o = Golden(unit, spec, Full(x, h), 0)
    <3>1. ~clear BY <2>2, <2>11
    <3>2. Entered(l, e, n) = <<x>>
      <4>1. n \in 1..n BY <2>5
      <4>2. w[n] = Entered(l, e, n)
        <5> HIDE DEF n
        <5> QED BY <4>1, <3>1 DEF Moved
      <4> QED BY <4>2, <2>11
    <3>3. a = <<x>> BY <3>1, <3>2 DEF Answering, Entered
    <3> HIDE DEF a
    <3>4. a # <<>> /\ a[1] = x BY <3>3
    <3>5. o = Golden(unit, spec, Full(x, h), tb.want) BY <3>1, <3>4 DEF Owed
    <3>6. unit \in Pipelined BY <2>2, Pipes DEF unit
    <3> HIDE DEF o
    <3>7. Golden(unit, spec, Full(x, h), tb.want) = Golden(unit, spec, Full(x, h), 0)
      BY <3>6, <2>11, GoldenAlone
    <3> QED BY <3>5, <3>7
  <2> HIDE DEF w, o
  <2>12. /\ Kept(unit, spec, r')
         /\ \A i \in 1..n : \A x \in P : tb'.line[i] = <<x>> => RightAt(unit, spec, r', i, x, tb'.held)
         /\ SumRight(unit, r', tb'.want)
         /\ unit \notin Summing =>
              \A x \in P : tb'.line[n] = <<x>> => tb'.want = Golden(unit, spec, Full(x, tb'.held), 0)
    <3>1. Kept(unit, spec, q) BY <2>8 DEF DataMove
    <3> HIDE DEF n, P
    <3> QED BY <3>1, <2>7, <2>9, <2>10, <2>11
  <2> QED BY <2>7, <2>12 DEF DataInv, unit, spec
<1>2. ASSUME ResetPipeline PROVE DataInv'
  <2>1. block \in Piped BY <1>2 DEF ResetPipeline
  <2>2. /\ UNCHANGED block /\ DOMAIN tb' = TbFields /\ tb'.held = tb.held
        /\ tb'.line = [i \in 1..n |-> <<>>] /\ r' = Reset(unit, spec)
        /\ tb'.want = NothingSummed(unit)
    BY <1>2, ResetTb
  <2>3. (\A i \in 1..Latency(unit, spec) : tb.line[i] = <<>>)' BY <2>2 DEF unit, spec
  <2>4. (block \in Piped)' /\ (r = Reset(unit, spec))' /\ (tb.want = NothingSummed(unit))'
    BY <2>1, <2>2 DEF unit, spec
  <2>5. (block \in Piped /\ (\A i \in 1..Latency(unit, spec) : tb.line[i] = <<>>)
         /\ r = Reset(unit, spec) /\ tb.want = NothingSummed(unit))' => DataInv'
    BY EmptyData, PTL
  <2> QED BY <2>3, <2>4, <2>5
<1>3. ASSUME block \in Runs, UNCHANGED block PROVE DataInv'
  <2>1. block \notin Piped BY <1>3, NotBoth
  <2> QED BY <1>3, <2>1 DEF DataInv
<1>4. CASE UNCHANGED vars BY <1>4 DEF vars, DataInv, unit, spec
<1> QED BY <1>1, <1>2, <1>3, <1>4, StepKinds

LEMMA Answered == LineInv /\ DataInv => BitExact
<1> SUFFICES ASSUME LineInv, DataInv, block \in Piped, r.valid_out
             PROVE  Output(unit) = Expected(unit)
  BY DEF BitExact
<1> DEFINE n == Latency(unit, spec)
<1>1. n \in Nat \ {0} /\ Flags(unit, spec, r)[n] = r.valid_out BY LatencyNat, LastFlag DEF unit, spec
<1>2. /\ tb.line \in [1..n -> Slots(unit, spec)]
      /\ \A i \in 1..n : Flags(unit, spec, r)[i] = (tb.line[i] # <<>>)
      /\ tb.held \in Held(unit, spec)
  BY DEF LineInv
<1>3. /\ \A i \in 1..n : \A x \in Ports(unit, spec) :
           tb.line[i] = <<x>> => RightAt(unit, spec, r, i, x, tb.held)
      /\ SumRight(unit, r, tb.want)
      /\ unit \notin Summing =>
           \A x \in Ports(unit, spec) : tb.line[n] = <<x>> => tb.want = Golden(unit, spec, Full(x, tb.held), 0)
  BY DEF DataInv
<1>4. Output(unit) = Shown(unit, r) BY DEF Output, Shown
<1>5. CASE unit = "mac" BY <1>3, <1>4, <1>5 DEF SumRight, Shown, Expected
<1>6. CASE unit = "crc" BY <1>3, <1>4, <1>6 DEF SumRight, Shown, Expected
<1>7. CASE unit \notin Summing
  <2>1. n \in 1..n BY <1>1
  <2> HIDE DEF n
  <2>2. tb.line[n] # <<>> /\ tb.line[n] \in Slots(unit, spec) BY <1>1, <1>2, <2>1
  <2>3. PICK x \in Ports(unit, spec) : tb.line[n] = <<x>> BY <2>2 DEF Slots
  <2>4. RightAt(unit, spec, r, n, x, tb.held) BY <1>3, <2>1, <2>3
  <2>5. tb.want = Golden(unit, spec, Full(x, tb.held), 0) BY <1>3, <1>7, <2>3
  <2>6. Shown(unit, r) = Golden(unit, spec, Full(x, tb.held), 0)
    <3> DEFINE h == tb.held
    <3>1. /\ block[1] \notin Summing /\ x \in Ports(block[1], Bench.specs[block])
          /\ h \in Held(block[1], Bench.specs[block])
          /\ RightAt(block[1], Bench.specs[block], r, Latency(block[1], Bench.specs[block]), x, h)
      BY <1>2, <1>7, <2>3, <2>4 DEF unit, spec, n
    <3> HIDE DEF h
    <3>2. Shown(block[1], r) = Golden(block[1], Bench.specs[block], Full(x, h), 0) BY <3>1, AnswerRight
    <3> QED BY <3>2 DEF unit, spec, h
  <2>7. Expected(unit) = tb.want BY <1>7 DEF Expected, Summing
  <2> QED BY <1>4, <2>5, <2>6, <2>7
<1> QED BY <1>5, <1>6, <1>7 DEF Summing

\* The answer a pipeline flags is the reference model's, for every model, every
\* endpoint, every sample and every order of samples, gaps, clears and resets.
THEOREM BitExactHolds == Spec => []BitExact
<1>1. Spec => []LineInv BY InitLine, LineStep, PTL DEF Spec
<1>2. Spec => [](LineInv /\ DataInv)
  <2>1. Init => LineInv /\ DataInv BY InitLine, InitData
  <2>2. LineInv /\ DataInv /\ [Next]_vars => (LineInv /\ DataInv)' BY LineStep, DataStep
  <2> QED BY <2>1, <2>2, PTL DEF Spec
<1> QED BY <1>2, Answered, PTL

=============================================================================
