---------------------------- MODULE ClkGenProofs ----------------------------
(***************************************************************************)
(* Type correctness of clkgen, and what can drive its LFSR into lock-up.   *)
(***************************************************************************)
EXTENDS ClkGen, TLAPS

(* The shift of lfsr8 keeps eight bits.                                    *)
LEMMA ShiftType ==
  ASSUME NEW s \in [0 .. 7 -> BOOLEAN], NEW b \in BOOLEAN
  PROVE  Shift(s, b) \in [0 .. 7 -> BOOLEAN]
<1>1. ASSUME NEW i \in 0 .. 7
      PROVE  (IF i = 0 THEN b ELSE s[i - 1]) \in BOOLEAN
  BY <1>1
<1>2. QED
  BY <1>1 DEF Shift

(* The reset value of lfsr8 is eight bits.                                 *)
LEMMA SeedType == Seed \in [0 .. 7 -> BOOLEAN]
BY Zenon DEF Seed

(* The reset value of lfsr8 is not its lock-up state.                      *)
LEMMA SeedNotLockUp == Seed # LockUp
<1>1. 0 \in 0 .. 7 /\ 0 \notin {2, 3, 6}
  BY SMT
<1>2. Seed[0] = FALSE
  BY <1>1, Zenon DEF Seed
<1>3. LockUp[0] = TRUE
  BY <1>1, Zenon DEF LockUp
<1>4. QED
  BY <1>2, <1>3, Zenon

(* The feedback of lfsr8 and skip_clk are bits.                            *)
LEMMA BitOps ==
  ASSUME NEW s, NEW p
  PROVE  Feedback(s, p) \in BOOLEAN /\ SkipClk(s) \in BOOLEAN
BY DEF Feedback, SkipClk, Xor

(* Every step keeps the registers of clkgen within their widths.           *)
LEMMA TypeStep == ClkTypeOK /\ [ClkNext]_clkVars => ClkTypeOK'
<1> SUFFICES ASSUME ClkTypeOK, [ClkNext]_clkVars
             PROVE  ClkTypeOK'
  OBVIOUS
<1>1. ASSUME NEW b \in BOOLEAN, Tick(b)
      PROVE  ClkTypeOK'
  <2>1. state8' \in [0 .. 7 -> BOOLEAN]
    BY <1>1, ShiftType, BitOps DEF Tick, ClkTypeOK
  <2>2. skip_clk_r' \in BOOLEAN
    BY <1>1, BitOps DEF Tick
  <2>3. count' \in 0 .. 31 /\ held' \in Nat
    BY <1>1 DEF Tick, ClkTypeOK, NextCount
  <2>4. rst_n' \in BOOLEAN /\ ptb' \in BOOLEAN /\ ptb_valid' \in BOOLEAN
    BY <1>1 DEF Tick, ClkTypeOK
  <2>5. max_pulse' \in BOOLEAN /\ o_clk' \in BOOLEAN
    BY <1>1 DEF Tick, ClkTypeOK
  <2>6. QED
    BY <2>1, <2>2, <2>3, <2>4, <2>5 DEF ClkTypeOK
<1>2. CASE AssertReset
  <2>1. 0 \in 0 .. 31 /\ 0 \in Nat
    BY SMT
  <2>2. QED
    BY <1>2, <2>1, SeedType, Zenon DEF AssertReset, ClkTypeOK
<1>3. CASE ReleaseReset
  BY <1>3 DEF ReleaseReset, ClkTypeOK
<1>4. CASE UNCHANGED clkVars
  BY <1>4 DEF clkVars, ClkTypeOK
<1>5. QED
  BY <1>1, <1>2, <1>3, <1>4 DEF ClkNext

(* The registers of clkgen stay within their widths.                       *)
THEOREM TypeCorrect == ClkSpec => []ClkTypeOK
<1>1. ClkInit => ClkTypeOK
  <2>1. 0 \in 0 .. 31 /\ 0 \in Nat
    BY SMT
  <2>2. QED
    BY <2>1, SeedType, Zenon DEF ClkInit, ClkTypeOK
<1>2. QED
  BY <1>1, TypeStep, PTL DEF ClkSpec

(* Without a perturbation the shift of an XNOR LFSR reaches all ones from  *)
(* all ones only.                                                          *)
LEMMA UnperturbedShift ==
  ASSUME NEW s \in [0 .. 7 -> BOOLEAN], Shift(s, Feedback(s, FALSE)) = LockUp
  PROVE  s = LockUp
<1> DEFINE f == Feedback(s, FALSE)
<1>1. f = TRUE
  <2>1. 0 \in 0 .. 7
    BY SMT
  <2> HIDE DEF f
  <2>2. Shift(s, f)[0] = f
    BY <2>1, Zenon DEF Shift
  <2>3. LockUp[0] = TRUE
    BY <2>1, Zenon DEF LockUp
  <2>4. QED
    BY <2>2, <2>3, Zenon DEF f
<1>2. ASSUME NEW i \in 0 .. 6
      PROVE  s[i] = TRUE
  <2>1. i + 1 \in 0 .. 7 /\ i + 1 # 0 /\ (i + 1) - 1 = i
    BY SMT
  <2> HIDE DEF f
  <2>2. Shift(s, f)[i + 1] = s[(i + 1) - 1]
    BY <2>1, Zenon DEF Shift
  <2>3. LockUp[i + 1] = TRUE
    BY <2>1, Zenon DEF LockUp
  <2>4. QED
    BY <2>1, <2>2, <2>3, Zenon DEF f
<1>3. 3 \in 0 .. 6 /\ 4 \in 0 .. 6 /\ 5 \in 0 .. 6 /\ 7 \in 0 .. 7
  BY SMT
<1>4. s[3] = TRUE /\ s[4] = TRUE /\ s[5] = TRUE /\ s[7] \in BOOLEAN
  BY <1>2, <1>3, Zenon
<1>5. s[7] = TRUE
  BY <1>1, <1>4, Zenon DEF Feedback, Xor4, Xor
<1>6. ASSUME NEW i \in 0 .. 7
      PROVE  s[i] = TRUE
  <2>1. i \in 0 .. 6 \/ i = 7
    BY SMT
  <2>2. QED
    BY <2>1, <1>2, <1>5, Zenon
<1>7. QED
  BY <1>6, Zenon DEF LockUp

(* lfsr8 enters its lock-up state, in which clkgen freezes the core clock, *)
(* only on a valid perturbation bit.                                       *)
THEOREM LockUpNeedsPerturbation == ClkSpec => LockUpOnlyByPerturbation
<1> DEFINE A == state8' = LockUp => state8 = LockUp \/ (ptb /\ ptb_valid)
<1>1. ClkTypeOK /\ [ClkNext]_clkVars => [A]_clkVars
  <2> SUFFICES ASSUME ClkTypeOK, ClkNext, state8' = LockUp, ~(ptb /\ ptb_valid)
               PROVE  state8 = LockUp
    OBVIOUS
  <2>1. ASSUME NEW b \in BOOLEAN, Tick(b)
        PROVE  state8 = LockUp
    <3>1. (ptb /\ ptb_valid) = FALSE
      OBVIOUS
    <3>2. Shift(state8, Feedback(state8, FALSE)) = LockUp
      BY <2>1, <3>1, Zenon DEF Tick
    <3>3. QED
      BY <3>2, UnperturbedShift DEF ClkTypeOK
  <2>2. CASE AssertReset
    BY <2>2, SeedNotLockUp DEF AssertReset
  <2>3. CASE ReleaseReset
    BY <2>3 DEF ReleaseReset
  <2>4. QED
    BY <2>1, <2>2, <2>3 DEF ClkNext
<1>2. QED
  BY <1>1, TypeCorrect, PTL DEF ClkSpec, LockUpOnlyByPerturbation
=============================================================================
