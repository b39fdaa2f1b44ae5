-------------------------- MODULE KvPoolSizingProofs --------------------------
(***************************************************************************)
(* kv_pool_sizing.py, for every model geometry, engine option, length and  *)
(* pool: its two checks and the advice they give fit together, and what it *)
(* accepts of a launch script is what the launch runs with (KvPoolSizing). *)
(* And --feasible and the n sweeps, for any number of attempts, rounds and *)
(* polls: on a host of their own they measure what they launched (Deploy). *)
(***************************************************************************)
EXTENDS KvPoolSizing, Deploy, FiniteSetTheorems, TLAPS

(* Rounding.                                                               *)

LEMMA DivBounds ==
  ASSUME NEW a \in Int, NEW b \in Positive
  PROVE  a \div b \in Int /\ b * (a \div b) <= a /\ a < b * (a \div b) + b
BY Z3 DEF Positive

LEMMA MulMono ==
  ASSUME NEW a \in Int, NEW b \in Int, NEW k \in Nat, a <= b
  PROVE  k * a <= k * b
BY Z3

\* Rounding down, and up, as adjoints of multiplication.
LEMMA DivAdjoint ==
  ASSUME NEW a \in Int, NEW b \in Positive, NEW k \in Int
  PROVE  k <= a \div b <=> b * k <= a
<1> DEFINE q == a \div b
<1>1. q \in Int /\ b * q <= a /\ a < b * q + b
  BY DivBounds
<1>2. b \in Nat
  BY DEF Positive
<1>3. ASSUME k <= q PROVE b * k <= a
  <2>1. b * k <= b * q
    BY <1>1, <1>2, <1>3, MulMono
  <2>2. b * k \in Int /\ b * q \in Int
    BY <1>1, <1>2
  <2>3. QED
    BY <1>1, <2>1, <2>2
<1>4. ASSUME ~(k <= q) PROVE ~(b * k <= a)
  <2>1. b * (q + 1) <= b * k
    BY <1>1, <1>2, <1>4, MulMono
  <2>2. b * (q + 1) = b * q + b
    BY <1>1, <1>2
  <2>3. b * k \in Int /\ b * q \in Int
    BY <1>1, <1>2
  <2>4. QED
    BY <1>1, <1>2, <2>1, <2>2, <2>3
<1>5. QED
  BY <1>3, <1>4

LEMMA CdivAdjoint ==
  ASSUME NEW a \in Int, NEW b \in Positive, NEW k \in Int
  PROVE  Cdiv(a, b) \in Int /\ (Cdiv(a, b) <= k <=> a <= b * k)
<1>1. (-a) \div b \in Int
  BY DivBounds
<1>2. (-k) <= (-a) \div b <=> b * (-k) <= -a
  BY DivAdjoint
<1>3. b * (-k) = -(b * k) /\ b * k \in Int
  BY DEF Positive
<1>4. QED
  BY <1>1, <1>2, <1>3 DEF Cdiv

LEMMA CdivPositive ==
  ASSUME NEW a \in Positive, NEW b \in Positive
  PROVE  Cdiv(a, b) \in Positive
<1>1. Cdiv(a, b) \in Int /\ (Cdiv(a, b) <= 0 <=> a <= b * 0)
  BY CdivAdjoint DEF Positive
<1>2. QED
  BY <1>1 DEF Positive

LEMMA DivPositive ==
  ASSUME NEW a \in Positive, NEW b \in Positive, b <= a
  PROVE  a \div b \in Positive
<1>1. a \div b \in Int /\ (1 <= a \div b <=> b * 1 <= a)
  BY DivBounds, DivAdjoint DEF Positive
<1>2. QED
  BY <1>1 DEF Positive

LEMMA MulPositive ==
  ASSUME NEW a \in Positive, NEW b \in Positive
  PROVE  a * b \in Positive
BY Z3 DEF Positive

-----------------------------------------------------------------------------
(* A sizing the tool computes.                                             *)

Sizings == [block : Positive, slot : Positive, mamba : Nat, headroom : Nat, seqs : Positive]

Fitting(d, o) == d \in Dims /\ o \in Opts /\ o.tp <= d.kvHeads /\ o.tp <= d.valueHeads

LEMMA PagePositive ==
  ASSUME NEW d, NEW o, Fitting(d, o)
  PROVE  TokenBytes(d, o) \in Positive /\ MambaPage(d, o) \in Positive
<1> USE DEF Fitting
<1>0. /\ d.kvHeads \in Positive /\ d.headDim \in Positive /\ d.kernel \in Positive
      /\ d.keyHeads \in Positive /\ d.valueHeads \in Positive /\ d.keyDim \in Positive
      /\ d.valueDim \in Positive /\ o.tp \in Positive /\ o.bytes \in Positive
      /\ o.numSpec \in Nat
  BY DEF Dims, Opts
<1>1. TokenBytes(d, o) \in Positive
  <2>1. d.kvHeads \div o.tp \in Positive
    BY <1>0, DivPositive
  <2>2. 2 * (d.kvHeads \div o.tp) \in Positive
    BY <2>1 DEF Positive
  <2>3. 2 * (d.kvHeads \div o.tp) * d.headDim \in Positive
    BY <1>0, <2>2, MulPositive
  <2>4. QED
    BY <1>0, <2>3, MulPositive DEF TokenBytes
<1>2. MambaPage(d, o) \in Positive
  <2> DEFINE convDim == d.keyDim * d.keyHeads * 2 + d.valueDim * d.valueHeads
  <2>1. convDim \in Nat
    <3>1. d.keyDim * d.keyHeads \in Nat /\ d.valueDim * d.valueHeads \in Nat
      BY <1>0, MulPositive DEF Positive
    <3>2. QED
      BY <3>1
  <2>2. convDim \div o.tp \in Nat
    <3>1. convDim \div o.tp \in Int /\ (0 <= convDim \div o.tp <=> o.tp * 0 <= convDim)
      BY <1>0, <2>1, DivBounds, DivAdjoint
    <3>2. QED
      BY <1>0, <2>1, <3>1 DEF Positive
  <2>3. (d.kernel - 1 + o.numSpec) * (convDim \div o.tp) * 2 \in Nat
    <3>1. d.kernel - 1 + o.numSpec \in Nat
      BY <1>0 DEF Positive
    <3> HIDE DEF convDim
    <3>2. \A x, y \in Nat : x * y * 2 \in Nat
      BY Z3
    <3>3. QED
      BY <2>2, <3>1, <3>2
  <2>4. (d.valueHeads \div o.tp) * d.valueDim * d.keyDim * 4 \in Positive
    <3>1. d.valueHeads \div o.tp \in Positive
      BY <1>0, DivPositive
    <3>2. (d.valueHeads \div o.tp) * d.valueDim \in Positive
      BY <1>0, <3>1, MulPositive
    <3>3. (d.valueHeads \div o.tp) * d.valueDim * d.keyDim \in Positive
      BY <1>0, <3>2, MulPositive
    <3>4. QED
      BY <3>3 DEF Positive
  <2> HIDE DEF convDim
  <2>5. (d.kernel - 1 + o.numSpec) * (convDim \div o.tp) * 2
          + (d.valueHeads \div o.tp) * d.valueDim * d.keyDim * 4 \in Positive
    BY <2>3, <2>4 DEF Positive
  <2>6. QED
    BY <2>5 DEF MambaPage, convDim
<1>3. QED
  BY <1>1, <1>2

LEMMA SizingType ==
  ASSUME NEW d, NEW o, Fitting(d, o)
  PROVE  BuildSizing(d, o) \in Sizings
<1> USE DEF Fitting
<1>1. TokenBytes(d, o) \in Positive /\ MambaPage(d, o) \in Positive
  BY PagePositive
<1>2. Block(d, o) \in Positive
  <2>1. Cdiv(MambaPage(d, o), 16 * TokenBytes(d, o)) \in Positive
    BY <1>1, CdivPositive DEF Positive
  <2>2. QED
    BY <2>1 DEF Block, BlockSize, Opts, Positive
<1>3. GroupSize(d) \in Positive
  BY DEF GroupSize, Dims
<1>4. GroupSize(d) * (Block(d, o) * TokenBytes(d, o)) \in Positive
  BY <1>1, <1>2, <1>3, MulPositive
<1>5. Cdiv(d.linear, GroupSize(d)) * ((IF o.align THEN 2 ELSE 1) + o.numSpec) \in Nat
  <2>1. Cdiv(d.linear, GroupSize(d)) \in Positive
    BY <1>3, CdivPositive DEF Dims
  <2>2. (IF o.align THEN 2 ELSE 1) + o.numSpec \in Positive
    BY DEF Opts, Positive
  <2>3. QED
    BY <2>1, <2>2, MulPositive DEF Positive
<1>6. QED
  BY <1>2, <1>4, <1>5 DEF BuildSizing, Sizings, Opts, DefaultHeadroom

-----------------------------------------------------------------------------
(* The two checks.                                                         *)

LEMMA BlocksType ==
  ASSUME NEW s \in Sizings, NEW len \in Positive
  PROVE  Cdiv(len, s.block) \in Positive /\ Blocks(s, len) \in Positive
<1>1. Cdiv(len, s.block) \in Positive
  BY CdivPositive DEF Sizings
<1>2. QED
  BY <1>1 DEF Blocks, Sizings, Positive

\* What the verdicts compare, counted in slots.
LEMMA SafeSlots ==
  ASSUME NEW s \in Sizings, NEW len \in Positive, NEW p \in Nat
  PROVE  /\ SafePool(s, len) \in Positive
         /\ p >= SafePool(s, len) <=>
              p \div s.slot >= Blocks(s, len) + s.headroom + (s.seqs - 1) * Blocks(s, len)
<1> DEFINE k == Blocks(s, len) + s.headroom + (s.seqs - 1) * Blocks(s, len)
<1>1. Blocks(s, len) \in Positive /\ s.headroom \in Nat /\ s.seqs - 1 \in Nat
      /\ s.slot \in Positive
  BY BlocksType DEF Sizings, Positive
<1>2. (s.seqs - 1) * Blocks(s, len) \in Nat
  <2>1. \A x, y \in Nat : x * y \in Nat
    BY Z3
  <2>2. QED
    BY <1>1, <2>1 DEF Positive
<1>3. k \in Positive
  BY <1>1, <1>2 DEF Positive
<1>4. SafePool(s, len) = s.slot * k
  BY DEF SafePool
<1> HIDE DEF k
<1>5. s.slot * k \in Positive
  BY <1>1, <1>3, MulPositive
<1>6. k <= p \div s.slot <=> s.slot * k <= p
  BY <1>1, <1>3, DivAdjoint DEF Positive
<1>7. p \div s.slot \in Int
  BY <1>1, DivBounds
<1>8. QED
  BY <1>3, <1>4, <1>5, <1>6, <1>7 DEF k, Positive

LEMMA MinSlots ==
  ASSUME NEW s \in Sizings, NEW len \in Positive, NEW p \in Nat
  PROVE  /\ MinPool(s, len) \in Positive
         /\ p >= MinPool(s, len) <=> ~(p \div s.slot < Blocks(s, len))
<1>1. Blocks(s, len) \in Positive /\ s.slot \in Positive
  BY BlocksType DEF Sizings
<1>2. s.slot * Blocks(s, len) \in Positive
  BY <1>1, MulPositive
<1>3. p \div s.slot \in Int /\
      (Blocks(s, len) <= p \div s.slot <=> s.slot * Blocks(s, len) <= p)
  BY <1>1, DivBounds, DivAdjoint DEF Positive
<1>4. QED
  BY <1>1, <1>2, <1>3 DEF MinPool, Positive

\* The context check in the same currency.
LEMMA LengthSlots ==
  ASSUME NEW s \in Sizings, NEW len \in Positive, NEW p \in Nat
  PROVE  /\ MaxSafeLen(s, p) \in Nat
         /\ len <= MaxSafeLen(s, p) <=> p \div s.slot >= Blocks(s, len) + s.headroom
<1> DEFINE q == p \div s.slot
           cap == AtLeast0(AtLeast0(q - s.mamba) - s.headroom)
           c == Cdiv(len, s.block)
<1>1. s.slot \in Positive /\ s.block \in Positive /\ s.mamba \in Nat /\ s.headroom \in Nat
  BY DEF Sizings
<1>2. q \in Int
  BY <1>1, DivBounds
<1>3. c \in Positive
  BY BlocksType
<1>4. cap \in Nat
  BY <1>1, <1>2 DEF AtLeast0
<1>5. MaxSafeLen(s, p) = cap * s.block
  BY DEF MaxSafeLen
<1> HIDE DEF cap
<1>6. c <= cap <=> len <= s.block * cap
  <2>1. len \in Int /\ cap \in Int
    BY <1>4 DEF Positive
  <2>2. QED
    BY <1>1, <2>1, CdivAdjoint
<1>7. cap * s.block = s.block * cap /\ cap * s.block \in Nat
  <2>1. \A x, y \in Nat : x * y = y * x /\ x * y \in Nat
    BY Z3
  <2>2. QED
    BY <1>1, <1>4, <2>1 DEF Positive
<1> HIDE DEF c, q
<1>8. c <= cap <=> q >= c + s.mamba + s.headroom
  BY <1>1, <1>2, <1>3 DEF cap, AtLeast0, Positive
<1>9. QED
  BY <1>5, <1>6, <1>7, <1>8 DEF Blocks, c, q

\* A pool that passes its check supports the length ...
LEMMA PoolImpliesLen ==
  ASSUME NEW s \in Sizings, NEW len \in Positive, NEW p \in Nat, p >= SafePool(s, len)
  PROVE  len <= MaxSafeLen(s, p)
<1>1. p \div s.slot >= Blocks(s, len) + s.headroom + (s.seqs - 1) * Blocks(s, len)
  BY SafeSlots
<1>2. (s.seqs - 1) * Blocks(s, len) \in Nat /\ Blocks(s, len) \in Nat
      /\ s.headroom \in Nat /\ p \div s.slot \in Int
  <2>1. \A x, y \in Nat : x * y \in Nat
    BY Z3
  <2>2. s.seqs - 1 \in Nat /\ Blocks(s, len) \in Nat
    BY BlocksType DEF Sizings, Positive
  <2>3. QED
    BY <2>1, <2>2, DivBounds DEF Sizings
<1>3. p \div s.slot >= Blocks(s, len) + s.headroom
  BY <1>1, <1>2
<1>4. QED
  BY <1>3, LengthSlots

\* ... and for one sequence at a time the converse holds.
LEMMA LenImpliesPool ==
  ASSUME NEW s \in Sizings, NEW len \in Positive, NEW p \in Nat,
         s.seqs = 1, len <= MaxSafeLen(s, p)
  PROVE  p >= SafePool(s, len)
<1>1. p \div s.slot >= Blocks(s, len) + s.headroom
  BY LengthSlots
<1>2. Blocks(s, len) + s.headroom + (s.seqs - 1) * Blocks(s, len)
        = Blocks(s, len) + s.headroom
  BY BlocksType DEF Sizings, Positive
<1>3. QED
  BY <1>1, <1>2, SafeSlots

-----------------------------------------------------------------------------
(* The session.                                                            *)

\* A report is about the values in force, and what advice brought about is what the
\* advice asked for.
Readable == ~Unreadable(lenAt) /\ ~Unreadable(poolAt)

Honest ==
  report # NotYet =>
    /\ Readable <=> report.pool # "failed"
    /\ Readable =>
         /\ report.pool = IF maxLen = 0 THEN "skipped"
                          ELSE IF pool = 0 THEN "undefined"
                          ELSE PoolVerdict(pool, MinPool(sizing, maxLen),
                                           SafePool(sizing, maxLen))
         /\ report.len = IF maxLen = 0 \/ pool = 0 THEN "skipped"
                         ELSE IF maxLen <= MaxSafeLen(sizing, pool) THEN "fits"
                         ELSE "exceeds"

Advised ==
  /\ advice # "none" => Readable
  /\ advice = "pool" => maxLen # 0 /\ pool = SafePool(sizing, maxLen)
  /\ advice = "len" => maxLen # 0 /\ pool # 0 /\ maxLen <= MaxSafeLen(sizing, pool)

IInv == TypeOK /\ Honest /\ Advised

LEMMA SettingTypes ==
  ASSUME NEW s \in Settings
  PROVE  InForce(s) \in Nat
BY DEF Settings, InForce, Argument, Lookup, Filled, Or, Unset, Empty

\* Wherever the number is written, the tool then uses it.
LEMMA WrittenIsUsed ==
  ASSUME NEW s \in Settings, NEW n \in Nat, NEW t \in Written(s, n)
  PROVE  t \in Settings /\ InForce(t) = n /\ ~Unreadable(t)
BY DEF Written, Settings

\* What the tool reads is what a launch that is mirrored gets.
LEMMA MirroredIsLaunched ==
  ASSUME NEW s \in Settings, Mirrored(s), s.cli = 0
  PROVE  InForce(s) = AtLaunch(s)
BY DEF Settings, InForce, AtLaunch, Argument, Lookup, Filled, Or, Unset, Empty, Mirrored

LEMMA Types ==
  ASSUME TypeOK
  PROVE  maxLen \in Nat /\ pool \in Nat /\ Fitting(model, opts) /\ sizing \in Sizings
<1>1. Fitting(model, opts)
  BY InputsAssumption DEF TypeOK, Fitting
<1>2. sizing \in Sizings
  BY <1>1, SizingType DEF sizing
<1>3. QED
  BY <1>1, <1>2, SettingTypes DEF TypeOK, maxLen, pool

LEMMA InitInv == Init => IInv
  BY InputsAssumption
     DEF Init, IInv, TypeOK, Honest, Advised, NotYet, Reports

LEMMA ReportStep == ASSUME IInv, Report PROVE IInv'
<1>1. report' \in Reports /\ report' # NotYet
      /\ (report'.pool = "none" <=> report'.len = "none")
      /\ (report'.pool = "failed" <=> report'.len = "failed")
  BY DEF Report, Reports, NotYet, Failed, PoolVerdict
<1>2. TypeOK'
  BY <1>1 DEF IInv, TypeOK, Report
<1>3. maxLen' = maxLen /\ pool' = pool /\ sizing' = sizing /\ Readable' = Readable
  BY DEF Report, maxLen, pool, sizing, Readable
<1>4. Honest'
  BY <1>3 DEF Honest, Report, Readable, Failed, PoolVerdict
<1>5. Advised'
  BY <1>3 DEF IInv, Advised, Report
<1>6. QED
  BY <1>2, <1>4, <1>5 DEF IInv

LEMMA TakePoolStep == ASSUME IInv, TakePool PROVE IInv'
<1>1. Readable /\ report # NotYet /\ maxLen \in Positive
  BY Types DEF IInv, Honest, TakePool, Positive, NotYet
<1>2. SafePool(sizing, maxLen) \in Nat
  BY <1>1, Types, SafeSlots DEF IInv, Positive
<1>3. poolAt' \in Settings /\ InForce(poolAt') = SafePool(sizing, maxLen)
      /\ ~Unreadable(poolAt')
  BY <1>2, WrittenIsUsed DEF IInv, TypeOK, TakePool
<1>4. TypeOK'
  BY <1>3 DEF IInv, TypeOK, TakePool, NotYet, Reports
<1>5. Honest'
  BY DEF Honest, TakePool
<1>6. maxLen' = maxLen /\ sizing' = sizing /\ pool' = InForce(poolAt') /\ Readable'
  BY <1>1, <1>3 DEF TakePool, maxLen, pool, sizing, Readable
<1>7. Advised'
  BY <1>1, <1>3, <1>6 DEF Advised, TakePool, Positive
<1>8. QED
  BY <1>4, <1>5, <1>7 DEF IInv

LEMMA TakeLenStep == ASSUME IInv, TakeLen PROVE IInv'
<1>1. report.len = "exceeds" /\ report # NotYet /\ report.pool # "failed"
  BY DEF IInv, TypeOK, TakeLen, NotYet
<1>2. Readable /\ pool # 0
  BY <1>1 DEF IInv, Honest
<1>3. PICK len \in 1..MaxSafeLen(sizing, pool) : lenAt' \in Written(lenAt, len)
  BY DEF TakeLen
<1>4. lenAt' \in Settings /\ InForce(lenAt') = len /\ ~Unreadable(lenAt')
  BY <1>3, WrittenIsUsed DEF IInv, TypeOK
<1>5. TypeOK'
  BY <1>4 DEF IInv, TypeOK, TakeLen, NotYet, Reports
<1>6. Honest'
  BY DEF Honest, TakeLen
<1>7. maxLen' = len /\ sizing' = sizing /\ pool' = pool /\ Readable'
  BY <1>2, <1>4 DEF TakeLen, maxLen, pool, sizing, Readable
<1>8. Advised'
  <2>1. MaxSafeLen(sizing, pool)' = MaxSafeLen(sizing, pool) /\ advice' = "len"
    BY <1>7 DEF TakeLen
  <2>2. QED
    BY <1>2, <1>3, <1>7, <2>1 DEF Advised
<1>9. QED
  BY <1>5, <1>6, <1>8 DEF IInv

LEMMA EditStep == ASSUME IInv, Edit PROVE IInv'
<1>1. TypeOK'
  BY InputsAssumption DEF IInv, TypeOK, Edit, NotYet, Reports
<1>2. QED
  BY <1>1 DEF IInv, Honest, Advised, Edit

THEOREM Invariance == Spec => []IInv
<1>1. ASSUME IInv, [Next]_vars PROVE IInv'
  <2>1. CASE UNCHANGED vars
    BY <1>1, <2>1
       DEF vars, IInv, TypeOK, Honest, Advised, Readable, sizing, maxLen, pool
  <2>2. QED
    BY <1>1, <2>1, ReportStep, TakePoolStep, TakeLenStep, EditStep DEF Next
<1>2. QED
  BY <1>1, InitInv, PTL DEF Spec

-----------------------------------------------------------------------------
(* The properties.                                                         *)

\* Every variable keeps its type: the advice is always a usable number.
THEOREM TypeCorrect == Spec => []TypeOK
<1>1. IInv => TypeOK
  BY DEF IInv
<1>2. QED
  BY <1>1, Invariance, PTL

\* A pool of the advised size passes both checks, at any concurrency; with one
\* sequence at a time, a context within the advised limit does.
THEOREM AdviceIsGood == Spec => []AdviceSettles
<1>1. IInv => PoolAdviceSettles
  <2> SUFFICES ASSUME IInv, advice = "pool", report # NotYet PROVE Accepted
    BY DEF PoolAdviceSettles
  <2>1. Readable /\ maxLen \in Positive /\ sizing \in Sizings /\ pool \in Nat
        /\ pool = SafePool(sizing, maxLen)
    BY Types DEF IInv, Advised, Positive
  <2>2. pool # 0 /\ pool >= SafePool(sizing, maxLen)
    BY <2>1, SafeSlots DEF Positive
  <2>3. maxLen <= MaxSafeLen(sizing, pool)
    BY <2>1, <2>2, PoolImpliesLen
  <2>4. report.pool = "fits" /\ report.len = "fits"
    BY <2>1, <2>2, <2>3 DEF IInv, Honest, PoolVerdict, Positive
  <2>5. QED
    BY <2>4 DEF Accepted
<1>2. IInv => LenAdviceSettles
  <2> SUFFICES ASSUME IInv, advice = "len", report # NotYet, opts.seqs = 1
               PROVE  Accepted
    BY DEF LenAdviceSettles
  <2>1. Readable /\ maxLen \in Positive /\ sizing \in Sizings /\ pool # 0
        /\ pool \in Nat /\ maxLen <= MaxSafeLen(sizing, pool)
    BY Types DEF IInv, Advised, Positive
  <2>2. sizing.seqs = 1
    BY DEF sizing, BuildSizing
  <2>3. pool >= SafePool(sizing, maxLen)
    BY <2>1, <2>2, LenImpliesPool
  <2>4. report.pool = "fits" /\ report.len = "fits"
    BY <2>1, <2>3 DEF IInv, Honest, PoolVerdict, Positive
  <2>5. QED
    BY <2>4 DEF Accepted
<1>3. QED
  BY <1>1, <1>2, Invariance, PTL DEF AdviceSettles

\* What the tool accepts of a profile that is mirrored, the launch starts with.
THEOREM LaunchFits == Spec => []AcceptedLaunchFits
<1>1. IInv => AcceptedLaunchFits
  <2> SUFFICES ASSUME IInv, report # NotYet, Accepted, lenAt.cli = 0, poolAt.cli = 0,
                      Mirrored(lenAt), Mirrored(poolAt),
                      AtLaunch(lenAt) # 0, AtLaunch(poolAt) # 0
               PROVE  AtLaunch(poolAt) >= SafePool(sizing, AtLaunch(lenAt))
    BY DEF AcceptedLaunchFits
  <2>1. AtLaunch(lenAt) = maxLen /\ AtLaunch(poolAt) = pool
    BY MirroredIsLaunched DEF IInv, TypeOK, maxLen, pool
  <2>2. Readable /\ maxLen # 0 /\ pool # 0
    BY <2>1 DEF IInv, Honest, Accepted
  <2>3. report.pool = "fits"
    BY <2>2 DEF IInv, Honest, Accepted, PoolVerdict
  <2>4. QED
    BY <2>1, <2>2, <2>3 DEF IInv, Honest, PoolVerdict
<1>2. QED
  BY <1>1, Invariance, PTL

\* A pool that passes its check for a length passes the context check for it.
THEOREM LimitTight == Spec => []LimitIsTight
<1>1. IInv => LimitIsTight
  <2> SUFFICES ASSUME IInv, report.pool = "fits" PROVE report.len = "fits"
    BY DEF LimitIsTight
  <2>1. report # NotYet
    BY DEF NotYet
  <2>2. Readable /\ maxLen # 0 /\ pool # 0
    BY <2>1 DEF IInv, Honest
  <2>3. maxLen \in Positive /\ pool \in Nat /\ sizing \in Sizings
    BY <2>2, Types DEF IInv, Positive
  <2>4. pool >= SafePool(sizing, maxLen)
    BY <2>1, <2>2 DEF IInv, Honest, PoolVerdict
  <2>5. maxLen <= MaxSafeLen(sizing, pool)
    BY <2>3, <2>4, PoolImpliesLen
  <2>6. QED
    BY <2>1, <2>2, <2>5 DEF IInv, Honest
<1>2. QED
  BY <1>1, Invariance, PTL

\* The verdict "short" is the engine's refusal.
THEOREM ShortIsRefused == Spec => []ShortMeansRefused
<1>1. IInv => ShortMeansRefused
  <2> SUFFICES ASSUME IInv, report.pool \in {"short", "tight", "fits"}
               PROVE report.pool = "short"
                       <=> pool \div sizing.slot < Blocks(sizing, maxLen)
    BY DEF ShortMeansRefused
  <2>1. report # NotYet
    BY DEF NotYet
  <2>2. Readable /\ maxLen # 0 /\ pool # 0
    BY <2>1 DEF IInv, Honest
  <2>3. maxLen \in Positive /\ pool \in Nat /\ sizing \in Sizings
    BY <2>2, Types DEF IInv, Positive
  <2>4. report.pool
          = PoolVerdict(pool, MinPool(sizing, maxLen), SafePool(sizing, maxLen))
    BY <2>1, <2>2 DEF IInv, Honest
  <2>5. SafePool(sizing, maxLen) >= MinPool(sizing, maxLen)
    <3>1. SafePool(sizing, maxLen) \in Nat /\ MinPool(sizing, maxLen) \in Nat
      BY <2>3, SafeSlots, MinSlots DEF Positive
    <3>2. PICK p \in Nat : p = SafePool(sizing, maxLen)
      BY <3>1
    <3>3. p \div sizing.slot >= Blocks(sizing, maxLen) + sizing.headroom
                                 + (sizing.seqs - 1) * Blocks(sizing, maxLen)
      BY <2>3, <3>2, SafeSlots
    <3>4. /\ Blocks(sizing, maxLen) \in Nat /\ sizing.headroom \in Nat
          /\ (sizing.seqs - 1) * Blocks(sizing, maxLen) \in Nat
          /\ p \div sizing.slot \in Int
      <4>1. \A x, y \in Nat : x * y \in Nat
        BY Z3
      <4>2. sizing.seqs - 1 \in Nat /\ Blocks(sizing, maxLen) \in Nat
        BY <2>3, BlocksType DEF Sizings, Positive
      <4>3. QED
        BY <2>3, <4>1, <4>2, DivBounds DEF Sizings
    <3>5. p >= MinPool(sizing, maxLen)
      BY <2>3, <3>3, <3>4, MinSlots
    <3>6. QED
      BY <3>2, <3>5
  <2>6. report.pool = "short" <=> ~(pool >= MinPool(sizing, maxLen))
    <3>1. SafePool(sizing, maxLen) \in Nat /\ MinPool(sizing, maxLen) \in Nat
      BY <2>3, SafeSlots, MinSlots DEF Positive
    <3>2. QED
      BY <2>3, <2>4, <2>5, <3>1 DEF PoolVerdict
  <2>7. QED
    BY <2>3, <2>6, MinSlots
<1>2. QED
  BY <1>1, Invariance, PTL

\* The chosen block holds a linear layer's state, and the next smaller does not.
THEOREM PageHolds == Spec => []PageHoldsState
<1>1. IInv => PageHoldsState
  <2> SUFFICES ASSUME IInv, opts.block = 0 PROVE PageHoldsState
    BY DEF PageHoldsState
  <2> DEFINE t == TokenBytes(model, opts)
             m == MambaPage(model, opts)
             n == Cdiv(m, 16 * t)
  <2>1. t \in Positive /\ m \in Positive
    BY Types, PagePositive DEF IInv
  <2>2. sizing.block = 16 * n
    BY DEF sizing, BuildSizing, Block, BlockSize
  <2> HIDE DEF t, m
  <2>3. 16 * t \in Positive
    BY <2>1 DEF Positive
  <2>4. n \in Int /\ m <= (16 * t) * n
    BY <2>1, <2>3, CdivAdjoint DEF Positive
  <2>5. ~(m <= (16 * t) * (n - 1))
    <3>1. n <= n - 1 <=> m <= (16 * t) * (n - 1)
      BY <2>1, <2>3, <2>4, CdivAdjoint DEF Positive
    <3>2. QED
      BY <2>4, <3>1
  <2> HIDE DEF n
  <2>6. /\ (16 * n) * t = (16 * t) * n
        /\ (16 * n - 16) * t = (16 * t) * (n - 1)
        /\ (16 * t) * (n - 1) \in Int
    BY <2>1, <2>4, Z3 DEF Positive
  <2>7. (16 * n) * t >= m /\ (16 * n - 16) * t < m
    BY <2>1, <2>4, <2>5, <2>6 DEF Positive
  <2>8. QED
    BY <2>2, <2>7 DEF PageHoldsState, t, m
<1>2. QED
  BY <1>1, Invariance, PTL

-----------------------------------------------------------------------------
(* --feasible and the n sweep: whom the two programs measure and what they *)
(* leave, for any number of foreign engines, attempts, rounds and polls,   *)
(* and any sizes.                                                          *)

States == {"absent", "loading", "ready", "dying", "gone"}
FeasiblePCs == {"start", "attempt", "poll", "measure", "retry", "teardown", "clean", "done", "raised"}
SweepPCs == {"start", "launch", "wait", "bench", "done"}

DeployTypes ==
  /\ client \in {"feasible", "sweep"} /\ alone \in BOOLEAN /\ stopWorks \in BOOLEAN
  /\ engine \in [Engines -> States]
  /\ listener \in Engines \cup {Nobody}
  /\ log \subseteq Engines \X (Fatal \cup {"other"})
  /\ staging \in SUBSET Engines
  /\ pc \in IF client = "feasible" THEN FeasiblePCs ELSE SweepPCs
  /\ round \in 0..MaxRounds /\ polls \in 0..MaxPolls
  /\ reason \in Engines \cup {Nobody}
  /\ used \in Nat \cup {Unknown}
  /\ owner \in Engines \cup {Nobody} /\ python \in BOOLEAN
  /\ benched \in Engines \cup {Nobody}
  /\ exit \in -1..2

\* Only a ready engine answers; a launched one that is ready does.
Answers ==
  /\ listener # Nobody => engine[listener] = "ready"
  /\ alone => \A f \in Foreign : engine[f] # "loading"
  /\ \A e \in Engines : engine[e] = "ready" /\ (alone \/ e \in Launched) => listener = e

\* Rounds to come have no engine, and the log is this round's.
Future ==
  /\ \A e \in Launched : e > round => engine[e] = "absent"
  /\ log \subseteq {round} \X (Fatal \cup {"other"})
  /\ FailureIsTheAttemptsOwn
  /\ pc \in {"attempt", "launch"} => round < MaxRounds
  /\ pc \in {"poll", "measure", "retry", "teardown", "clean", "wait", "bench"} => round \in Launched
  /\ pc = "poll" => polls < MaxPolls

\* A tool that waits has one engine, its own; between attempts it has none.
Attempts ==
  client = "feasible" =>
    /\ pc \in {"start", "attempt", "clean", "done"} => \A e \in Launched : ~Alive(e)
    /\ pc = "start" => round = 0
    /\ \A e \in Launched : e # round => ~Alive(e)
    /\ \A e \in Launched : e # round => e \notin staging
    /\ pc \in {"attempt", "done"} => staging \cap Launched = {}
    /\ \A e \in Launched : engine[e] = "ready" => \A d \in Launched : engine[d] # "dying"
    /\ pc = "start" => staging \cap Launched = {}

Seen == {"loading", "ready", "dying"}

\* The engine that had the port keeps it, and no attempt begins while it is there.
Owned ==
  client = "feasible" =>
    /\ owner # Nobody /\ Alive(owner) => listener = owner
    /\ owner # Nobody => owner \in Foreign /\ engine[owner] # "absent"
    /\ pc \notin {"start", "done", "raised"} => owner = Nobody \/ ~Alive(owner)

\* On a host of its own the tool measures nobody else.
Own ==
  (alone /\ client = "feasible") =>
    /\ \A f \in Foreign : engine[f] \in {"absent", "gone", "ready"}
    /\ pc \notin {"start", "done", "raised"} => \A f \in Foreign : engine[f] \notin Seen
    /\ pc = "measure" => engine[round] \in {"ready", "gone"}
    /\ pc = "measure" => \A e \in Launched : engine[e] # "dying"
    /\ pc \notin {"teardown", "clean", "done", "raised"} => used = Unknown
    /\ used # Unknown => used \in {NonKv + Pool, 0}
    /\ VerdictIsOwn

\* On a host of its own, with stops that work, the sweep has one engine at a time.
OneAtATime ==
  (alone /\ stopWorks /\ client = "sweep") =>
    /\ \A e, d \in Engines : Alive(e) /\ Alive(d) => e = d
    /\ pc = "launch" => \A e \in Engines : ~Alive(e)
    /\ pc \in {"wait", "bench"} => \A e \in Engines : Alive(e) => e = round

DeployInv == DeployTypes /\ Answers /\ Future /\ Attempts /\ Owned /\ Own /\ OneAtATime

-----------------------------------------------------------------------------

LEMMA ReadyKeeps ==
  ASSUME DeployInv, NEW e \in Engines, Ready(e)
  PROVE  DeployInv'
<1> USE DeployAssumption DEF DeployInv, Ready, setting, host, Engines, Launched, Foreign, Nobody, Unknown, Goto, Finish
<1>1. DeployTypes'
  BY DEF DeployTypes, States, FeasiblePCs, SweepPCs, Fatal, Answers
<1>2. Answers'
  BY DEF Answers, DeployTypes
<1>3. Future'
  BY DEF Future, DeployTypes, FailureIsTheAttemptsOwn, Answers
<1>4. Attempts'
  BY DEF Attempts, DeployTypes, Alive, Answers
<1>5. Own'
  BY DEF Own, DeployTypes, Seen, VerdictIsOwn, Alive, Answers
<1>6. OneAtATime'
  BY DEF OneAtATime, DeployTypes, Alive, Answers
<1>7. Owned'
  BY DEF Owned, DeployTypes, Alive, Answers
<1>8. QED
  BY <1>1, <1>2, <1>3, <1>4, <1>5, <1>6, <1>7

LEMMA FailKeeps ==
  ASSUME DeployInv, NEW e \in Engines, NEW line \in Fatal \cup {"other"}, Fail(e, line)
  PROVE  DeployInv'
<1> USE DeployAssumption DEF DeployInv, Fail, setting, host, Engines, Launched, Foreign, Nobody, Unknown, Goto, Finish
<1>1. DeployTypes'
  BY DEF DeployTypes, States, FeasiblePCs, SweepPCs, Fatal, Answers
<1>2. Answers'
  BY DEF Answers, DeployTypes
<1>3. Future'
  BY DEF Future, Alive, DeployTypes, FailureIsTheAttemptsOwn, Answers
<1>4. Attempts'
  BY DEF Attempts, DeployTypes, Alive, Answers
<1>5. Own'
  BY DEF Own, DeployTypes, Seen, VerdictIsOwn, Alive, Answers
<1>6. OneAtATime'
  BY DEF OneAtATime, DeployTypes, Alive, Answers
<1>7. Owned'
  BY DEF Owned, DeployTypes, Alive, Answers
<1>8. QED
  BY <1>1, <1>2, <1>3, <1>4, <1>5, <1>6, <1>7

LEMMA ReapKeeps ==
  ASSUME DeployInv, NEW e \in Engines, Reap(e)
  PROVE  DeployInv'
<1> USE DeployAssumption DEF DeployInv, Reap, setting, host, Engines, Launched, Foreign, Nobody, Unknown, Goto, Finish
<1>1. DeployTypes'
  BY DEF DeployTypes, States, FeasiblePCs, SweepPCs, Fatal, Answers
<1>2. Answers'
  BY DEF Answers, DeployTypes
<1>3. Future'
  BY DEF Future, DeployTypes, FailureIsTheAttemptsOwn, Answers
<1>4. Attempts'
  BY DEF Attempts, DeployTypes, Alive, Answers
<1>5. Own'
  BY DEF Own, DeployTypes, Seen, VerdictIsOwn, Alive, Answers
<1>6. OneAtATime'
  BY DEF OneAtATime, DeployTypes, Alive, Answers
<1>7. Owned'
  BY DEF Owned, DeployTypes, Alive, Answers
<1>8. QED
  BY <1>1, <1>2, <1>3, <1>4, <1>5, <1>6, <1>7

LEMMA ForeignStartsKeeps ==
  ASSUME DeployInv, NEW e \in Foreign, ForeignStarts(e)
  PROVE  DeployInv'
<1> USE DeployAssumption DEF DeployInv, ForeignStarts, setting, host, Engines, Launched, Foreign, Nobody, Unknown, Goto, Finish
<1>1. DeployTypes'
  BY DEF DeployTypes, States, FeasiblePCs, SweepPCs, Fatal, Answers
<1>2. Answers'
  BY DEF Answers, DeployTypes
<1>3. Future'
  BY DEF Future, DeployTypes, FailureIsTheAttemptsOwn, Answers
<1>4. Attempts'
  BY DEF Attempts, DeployTypes, Alive, Answers
<1>5. Own'
  BY DEF Own, DeployTypes, Seen, VerdictIsOwn, Alive, Answers
<1>6. OneAtATime'
  BY DEF OneAtATime, DeployTypes, Alive, Answers
<1>7. Owned'
  BY DEF Owned, DeployTypes, Alive, Answers
<1>8. QED
  BY <1>1, <1>2, <1>3, <1>4, <1>5, <1>6, <1>7

LEMMA NoDeploymentKeeps ==
  ASSUME DeployInv, NoDeployment
  PROVE  DeployInv'
<1> USE DeployAssumption DEF DeployInv, NoDeployment, setting, host, Engines, Launched, Foreign, Nobody, Unknown, Goto, Finish, Verdict, Raise
<1>1. DeployTypes'
  BY DEF DeployTypes, States, FeasiblePCs, SweepPCs, Fatal, Answers
<1>2. Answers'
  BY DEF Answers, DeployTypes
<1>3. Future'
  BY DEF Future, DeployTypes, FailureIsTheAttemptsOwn, Answers
<1>4. Attempts'
  BY DEF Attempts, DeployTypes, Alive, Answers
<1>5. Own'
  BY DEF Own, DeployTypes, Seen, VerdictIsOwn, Alive, Answers
<1>6. OneAtATime'
  BY DEF OneAtATime, DeployTypes, Alive, Answers
<1>7. Owned'
  BY DEF Owned, DeployTypes, Alive, Answers
<1>8. QED
  BY <1>1, <1>2, <1>3, <1>4, <1>5, <1>6, <1>7

LEMMA CheckPortKeeps ==
  ASSUME DeployInv, CheckPort
  PROVE  DeployInv'
<1> USE DeployAssumption DEF DeployInv, CheckPort, setting, host, Engines, Launched, Foreign, Nobody, Unknown, Goto, Finish, PortFree
<1>1. DeployTypes'
  BY DEF DeployTypes, States, FeasiblePCs, SweepPCs, Fatal, Answers
<1>2. Answers'
  BY DEF Answers, DeployTypes
<1>3. Future'
  BY DEF Future, Attempts, DeployTypes, FailureIsTheAttemptsOwn, Answers
<1>4. Attempts'
  BY DEF Attempts, DeployTypes, Alive, Answers
<1>5. Own'
  BY DEF Own, DeployTypes, Seen, VerdictIsOwn, Alive, Answers
<1>6. OneAtATime'
  BY DEF OneAtATime, DeployTypes, Alive, Answers
<1>7. Owned'
  BY DEF Owned, DeployTypes, Alive, Answers
<1>8. QED
  BY <1>1, <1>2, <1>3, <1>4, <1>5, <1>6, <1>7

LEMMA AttemptKeeps ==
  ASSUME DeployInv, Attempt
  PROVE  DeployInv'
<1> USE DeployAssumption DEF DeployInv, Attempt, setting, host, Engines, Launched, Foreign, Nobody, Unknown, Goto, Finish, OpenLog
<1>1. DeployTypes'
  BY DEF DeployTypes, States, FeasiblePCs, SweepPCs, Fatal, Answers
<1>2. Answers'
  BY DEF Answers, DeployTypes, Future, Attempts
<1>3. Future'
  BY DEF Future, DeployTypes, FailureIsTheAttemptsOwn, Answers
<1>4. Attempts'
  BY DEF Attempts, DeployTypes, Alive, Answers
<1>5. Own'
  BY DEF Own, DeployTypes, Seen, VerdictIsOwn, Alive, Answers
<1>6. OneAtATime'
  BY DEF OneAtATime, DeployTypes, Alive, Answers
<1>7. Owned'
  BY DEF Owned, DeployTypes, Alive, Answers
<1>8. QED
  BY <1>1, <1>2, <1>3, <1>4, <1>5, <1>6, <1>7

LEMMA PollKeeps ==
  ASSUME DeployInv, Poll
  PROVE  DeployInv'
<1> USE DeployAssumption DEF DeployInv, Poll, setting, host, Engines, Launched, Foreign, Nobody, Unknown, Goto, Finish, NextPoll
<1>0. Hit \subseteq {round} /\ Hit \subseteq Engines
  BY DEF Future, DeployTypes, Hit
<1>1. DeployTypes'
  <2>1. reason' \in Hit \cup {reason}
    OBVIOUS
  <2>2. reason' \in Engines \cup {Nobody}
    BY <1>0, <2>1 DEF DeployTypes
  <2>3. polls' \in 0..MaxPolls
    BY DEF DeployTypes, Future
  <2>4. QED
    BY <2>2, <2>3 DEF DeployTypes, FeasiblePCs, SweepPCs
<1>2. Answers'
  BY DEF Answers, DeployTypes
<1>3. Future'
  <2>1. reason' # Nobody => reason' = round
    BY <1>0 DEF Future, FailureIsTheAttemptsOwn
  <2>2. pc' = "poll" => polls' < MaxPolls
    BY DEF DeployTypes, Future
  <2>3. QED
    BY <2>1, <2>2 DEF Future, FailureIsTheAttemptsOwn, DeployTypes
<1>4. Attempts'
  BY DEF Attempts, DeployTypes, Alive, Answers
<1>5. Own'
  BY DEF Own, Attempts, DeployTypes, Seen, VerdictIsOwn, Alive, Answers
<1>6. OneAtATime'
  BY DEF OneAtATime, DeployTypes, Alive, Answers
<1>7. Owned'
  BY DEF Owned, DeployTypes, Alive, Answers
<1>8. QED
  BY <1>1, <1>2, <1>3, <1>4, <1>5, <1>6, <1>7

LEMMA MeasureKeeps ==
  ASSUME DeployInv, Measure
  PROVE  DeployInv'
<1> USE DeployAssumption DEF DeployInv, Measure, setting, host, Engines, Launched, Foreign, Nobody, Unknown, Goto, Finish, Raise
<1>a. Cardinality({e \in Engines : engine[e] \in Seen}) \in Nat
  <2>1. IsFiniteSet(Engines)
    <3>1. IsFiniteSet(1..MaxRounds) /\ IsFiniteSet((-NumForeign)..(-1))
      BY FS_Interval
    <3>2. QED
      BY <3>1, FS_Union
  <2>2. QED
    BY <2>1, FS_Subset, FS_CardinalityType
<1>b. alone => {e \in Engines : engine[e] \in Seen} \in {{round}, {}}
  BY DEF Own, Attempts, Answers, DeployTypes, Seen, Alive, States, Future
<1>c. alone => InUse \in {NonKv + Pool, 0}
  <2>1. alone => Cardinality({e \in Engines : engine[e] \in Seen}) \in {1, 0}
    BY <1>b, FS_Singleton, FS_EmptySet
  <2>2. InUse = (NonKv + Pool) * Cardinality({e \in Engines : engine[e] \in Seen})
    BY DEF InUse, Seen
  <2>3. QED
    BY <2>1, <2>2
<1>1. DeployTypes'
  BY <1>a DEF InUse, Seen, DeployTypes, States, FeasiblePCs, SweepPCs, Fatal, Answers
<1>2. Answers'
  BY DEF Answers, DeployTypes
<1>3. Future'
  BY DEF Future, DeployTypes, FailureIsTheAttemptsOwn, Answers
<1>4. Attempts'
  BY DEF Attempts, DeployTypes, Alive, Answers
<1>5. Own'
  BY <1>c DEF Own, DeployTypes, Seen, VerdictIsOwn, Alive, Answers
<1>6. OneAtATime'
  BY DEF OneAtATime, DeployTypes, Alive, Answers
<1>7. Owned'
  BY DEF Owned, DeployTypes, Alive, Answers
<1>8. QED
  BY <1>1, <1>2, <1>3, <1>4, <1>5, <1>6, <1>7

LEMMA TeardownKeeps ==
  ASSUME DeployInv, Teardown
  PROVE  DeployInv'
<1> USE DeployAssumption DEF DeployInv, Teardown, setting, host, Engines, Launched, Foreign, Nobody, Unknown, Goto, Finish, Kill, Verdict
<1>1. DeployTypes'
  BY DEF DeployTypes, States, FeasiblePCs, SweepPCs, Fatal, Answers
<1>2. Answers'
  <2>1. \A e \in Engines : engine'[e] # "ready" /\ (engine[e] # "loading" => engine'[e] # "loading")
    BY DEF DeployTypes, Alive
  <2>2. listener' = Nobody
    BY DEF DeployTypes
  <2>3. QED
    BY <2>1, <2>2 DEF Answers
<1>3. Future'
  BY DEF Future, Alive, DeployTypes, FailureIsTheAttemptsOwn, Answers
<1>4. Attempts'
  BY DEF Attempts, DeployTypes, Alive, Answers
<1>5. Own'
  BY DEF Own, DeployTypes, Seen, VerdictIsOwn, Alive, Answers
<1>6. OneAtATime'
  BY DEF OneAtATime, DeployTypes, Alive, Answers
<1>7. Owned'
  BY DEF Owned, DeployTypes, Alive, Answers
<1>8. QED
  BY <1>1, <1>2, <1>3, <1>4, <1>5, <1>6, <1>7

LEMMA CleanShmKeeps ==
  ASSUME DeployInv, CleanShm
  PROVE  DeployInv'
<1> USE DeployAssumption DEF DeployInv, CleanShm, setting, host, Engines, Launched, Foreign, Nobody, Unknown, Goto, Finish, Verdict
<1>1. DeployTypes'
  BY DEF DeployTypes, States, FeasiblePCs, SweepPCs, Fatal, Answers
<1>2. Answers'
  BY DEF Answers, DeployTypes
<1>3. Future'
  BY DEF Future, Alive, DeployTypes, FailureIsTheAttemptsOwn, Answers
<1>4. Attempts'
  BY DEF Attempts, DeployTypes, Alive, Answers
<1>5. Own'
  BY DEF Own, DeployTypes, Seen, VerdictIsOwn, Alive, Answers
<1>6. OneAtATime'
  BY DEF OneAtATime, DeployTypes, Alive, Answers
<1>7. Owned'
  BY DEF Owned, DeployTypes, Alive, Answers
<1>8. QED
  BY <1>1, <1>2, <1>3, <1>4, <1>5, <1>6, <1>7

LEMMA StopKeeps ==
  ASSUME DeployInv, Stop
  PROVE  DeployInv'
<1> USE DeployAssumption DEF DeployInv, Stop, setting, host, Engines, Launched, Foreign, Nobody, Unknown, Goto, Finish, StopTarget
<1>1. DeployTypes'
  BY DEF DeployTypes, States, FeasiblePCs, SweepPCs, Fatal, Answers
<1>2. Answers'
  BY DEF Answers, DeployTypes
<1>3. Future'
  BY DEF Future, DeployTypes, FailureIsTheAttemptsOwn, Answers
<1>4. Attempts'
  BY DEF Attempts, DeployTypes, Alive, Answers
<1>5. Own'
  BY DEF Own, DeployTypes, Seen, VerdictIsOwn, Alive, Answers
<1>6. OneAtATime'
  BY DEF OneAtATime, DeployTypes, Alive, Answers
<1>7. Owned'
  BY DEF Owned, DeployTypes, Alive, Answers
<1>8. QED
  BY <1>1, <1>2, <1>3, <1>4, <1>5, <1>6, <1>7

LEMMA LaunchKeeps ==
  ASSUME DeployInv, Launch
  PROVE  DeployInv'
<1> USE DeployAssumption DEF DeployInv, Launch, setting, host, Engines, Launched, Foreign, Nobody, Unknown, Goto, Finish, OpenLog
<1>1. DeployTypes'
  BY DEF Future, DeployTypes, States, FeasiblePCs, SweepPCs, Fatal, Answers
<1>2. Answers'
  BY DEF Answers, DeployTypes, Future, Attempts
<1>3. Future'
  BY DEF Future, DeployTypes, FailureIsTheAttemptsOwn, Answers
<1>4. Attempts'
  BY DEF Attempts, DeployTypes, Alive, Answers
<1>5. Own'
  BY DEF Own, DeployTypes, Seen, VerdictIsOwn, Alive, Answers
<1>6. OneAtATime'
  BY DEF OneAtATime, DeployTypes, Alive, Answers
<1>7. Owned'
  BY DEF Owned, DeployTypes, Alive, Answers
<1>8. QED
  BY <1>1, <1>2, <1>3, <1>4, <1>5, <1>6, <1>7

LEMMA WaitKeeps ==
  ASSUME DeployInv, Wait
  PROVE  DeployInv'
<1> USE DeployAssumption DEF DeployInv, Wait, setting, host, Engines, Launched, Foreign, Nobody, Unknown, Goto, Finish, NextPoll
<1>0. Hit \subseteq {round} /\ Hit \subseteq Engines
  BY DEF Future, DeployTypes, Hit
<1>1. DeployTypes'
  <2>1. reason' \in Hit \cup {reason}
    OBVIOUS
  <2>2. reason' \in Engines \cup {Nobody}
    BY <1>0, <2>1 DEF DeployTypes
  <2>3. polls' \in 0..MaxPolls
    BY DEF DeployTypes, Future
  <2>4. QED
    BY <2>2, <2>3 DEF DeployTypes, FeasiblePCs, SweepPCs
<1>2. Answers'
  BY DEF Answers, DeployTypes
<1>3. Future'
  BY <1>0 DEF Future, DeployTypes, FailureIsTheAttemptsOwn, Answers
<1>4. Attempts'
  BY DEF Attempts, DeployTypes, Alive, Answers
<1>5. Own'
  BY DEF Own, DeployTypes, Seen, VerdictIsOwn, Alive, Answers
<1>6. OneAtATime'
  BY DEF OneAtATime, DeployTypes, Alive, Answers
<1>7. Owned'
  BY DEF Owned, DeployTypes, Alive, Answers
<1>8. QED
  BY <1>1, <1>2, <1>3, <1>4, <1>5, <1>6, <1>7

LEMMA BenchKeeps ==
  ASSUME DeployInv, Bench
  PROVE  DeployInv'
<1> USE DeployAssumption DEF DeployInv, Bench, setting, host, Engines, Launched, Foreign, Nobody, Unknown, Goto, Finish
<1>1. DeployTypes'
  BY DEF DeployTypes, States, FeasiblePCs, SweepPCs, Fatal, Answers
<1>2. Answers'
  BY DEF Answers, DeployTypes
<1>3. Future'
  BY DEF Future, DeployTypes, FailureIsTheAttemptsOwn, Answers
<1>4. Attempts'
  BY DEF Attempts, DeployTypes, Alive, Answers
<1>5. Own'
  BY DEF Own, DeployTypes, Seen, VerdictIsOwn, Alive, Answers
<1>6. OneAtATime'
  BY DEF OneAtATime, DeployTypes, Alive, Answers
<1>7. Owned'
  BY DEF Owned, DeployTypes, Alive, Answers
<1>8. QED
  BY <1>1, <1>2, <1>3, <1>4, <1>5, <1>6, <1>7

-----------------------------------------------------------------------------
(* The theorems.                                                           *)

LEMMA InitKeeps == DeployInit => DeployInv
BY DeployAssumption
   DEF DeployInit, DeployInv, DeployTypes, Answers, Future, Attempts, Owned, Own, OneAtATime, States, FeasiblePCs,
       SweepPCs, Fatal, Engines, Launched, Foreign, Nobody, Unknown, Alive, Seen,
       FailureIsTheAttemptsOwn, VerdictIsOwn

LEMMA StepKeeps == DeployInv /\ [DeployNext]_deployVars => DeployInv'
<1> SUFFICES ASSUME DeployInv, [DeployNext]_deployVars PROVE DeployInv'
  OBVIOUS
<1>1. CASE Host
  BY <1>1, ReadyKeeps, ReapKeeps, FailKeeps, ForeignStartsKeeps DEF Host
<1>2. CASE Client
  BY <1>2, NoDeploymentKeeps, CheckPortKeeps, AttemptKeeps, PollKeeps, MeasureKeeps,
     TeardownKeeps, CleanShmKeeps, StopKeeps, LaunchKeeps, WaitKeeps, BenchKeeps DEF Client
<1>3. CASE UNCHANGED deployVars
  BY <1>3 DEF deployVars, setting, host, DeployInv, DeployTypes, Answers, Future, Attempts, Owned, Own, OneAtATime, Alive,
     FailureIsTheAttemptsOwn, VerdictIsOwn, Verdict
<1>4. QED
  BY <1>1, <1>2, <1>3 DEF DeployNext

THEOREM DeployInvariance == DeploySpec => []DeployInv
BY InitKeeps, StepKeeps, PTL DEF DeploySpec

\* The variables of the programs and of the host keep their types.
THEOREM DeployTypeCorrect == DeploySpec => []DeployTypes
BY DeployInvariance, PTL DEF DeployInv

\* No earlier attempt's engine, and on a host where nobody else starts one nobody
\* else's, is in the figure of a verdict; "does not fit" is never wrong.
THEOREM VerdictOfItsOwnEngine == DeploySpec => []VerdictIsOwn
<1>1. DeployInv => VerdictIsOwn
  BY DEF DeployInv, Own, VerdictIsOwn
<1>2. QED
  BY <1>1, DeployInvariance, PTL

\* An attempt, or a wait, is never ended by a line another one has left in the log.
THEOREM FailureOfItsOwnAttempt == DeploySpec => []FailureIsTheAttemptsOwn
BY DeployInvariance, PTL DEF DeployInv, Future

\* A verdict leaves no engine and no staging file of the tool behind, an exception those
\* of the last attempt at most.
THEOREM NothingLeftBehind == DeploySpec => []NothingLeftRunning
<1>1. DeployInv => NothingLeftRunning
  BY DEF DeployInv, Attempts, NothingLeftRunning
<1>2. QED
  BY <1>1, DeployInvariance, PTL

\* Whoever else starts engines meanwhile: the server that had port 8000 when the tool
\* was started is not killed by it, and a call that launches nothing kills nobody.
THEOREM OwnerIsSpared == DeploySpec => PortOwnerSpared
<1> DEFINE A == [client = "feasible" =>
                   /\ owner # Nobody /\ Alive(owner) => engine'[owner] # "dying"
                   /\ python /\ ~python' => round > 0]_deployVars
<1>1. DeployInv /\ [DeployNext]_deployVars => A
  <2> SUFFICES ASSUME DeployInv, DeployNext, client = "feasible"
               PROVE  /\ owner # Nobody /\ Alive(owner) => engine'[owner] # "dying"
                      /\ python /\ ~python' => round > 0
    OBVIOUS
  <2> USE DeployAssumption DEF Alive, Engines, Launched, Foreign, Nobody
  <2>1. engine \in [Engines -> States] /\ owner \in Engines \cup {Nobody}
    BY DEF DeployInv, DeployTypes
  <2>2. CASE Teardown
    BY <2>2 DEF DeployInv, Owned, Future, Teardown
  <2>3. CASE Host
    BY <2>1, <2>3 DEF Host, Ready, Fail, Reap, ForeignStarts
  <2>4. CASE Attempt
    BY <2>1, <2>4 DEF Attempt
  <2>5. CASE NoDeployment \/ CheckPort \/ Poll \/ Measure \/ CleanShm
    BY <2>1, <2>5 DEF NoDeployment, CheckPort, Poll, Measure, CleanShm, host
  <2>6. QED
    BY <2>2, <2>3, <2>4, <2>5 DEF DeployNext, Client, Stop, Launch, Wait, Bench
<1>2. QED
  BY <1>1, DeployInvariance, PTL DEF DeploySpec, PortOwnerSpared

\* With stops that work, each round of the sweep measures its own engine.
THEOREM SweepMeasuresOwnRound == DeploySpec => SweepMeasuresItsRound
<1>1. DeployInv /\ [DeployNext]_deployVars =>
        [(alone /\ stopWorks /\ benched' # benched) => benched' \in {round, Nobody}]_deployVars
  <2> SUFFICES ASSUME DeployInv, DeployNext, alone, stopWorks, benched' # benched
               PROVE  benched' \in {round, Nobody}
    OBVIOUS
  <2>1. CASE Bench
    BY <2>1, DeployAssumption
       DEF Bench, DeployInv, OneAtATime, Answers, DeployTypes, Alive, Engines, Launched, Foreign, Nobody
  <2>2. QED
    BY <2>1 DEF DeployNext, Client, Host, Ready, Fail, Reap, ForeignStarts, NoDeployment, CheckPort,
       Attempt, Poll, Measure, Teardown, CleanShm, Stop, Launch, Wait
<1>2. QED
  BY <1>1, DeployInvariance, PTL DEF DeploySpec, SweepMeasuresItsRound
=============================================================================
