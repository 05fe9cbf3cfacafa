------------------------------- MODULE ClkGen -------------------------------
(***************************************************************************)
(* clkgen, the clock generator of the noisy core: it hides the rhythm of   *)
(* the core by skipping toggles of the core clock o_clk, chosen by an      *)
(* 8-bit XNOR LFSR that a second LFSR perturbs once every 32 cycles of     *)
(* i_clk.  The core has no other clock, so a generator that stops toggling *)
(* stops the core.                                                         *)
(*                                                                         *)
(* lfsr8, counter_5bit and the skip logic are modelled bit by bit.  The    *)
(* 43-bit state of lfsr43 is abstracted to the only thing that leaves it:  *)
(* a bit that may be 0 or 1 on every cycle and, its sequence being of      *)
(* maximal length, is not 0 at every perturbation forever.                 *)
(***************************************************************************)
EXTENDS Naturals

VARIABLES
  rst_n,       \* the reset input
  state8,      \* o_state of lfsr8
  ptb,         \* o_ptb of lfsr43
  ptb_valid,   \* o_ptb_valid of lfsr43
  count,       \* count of counter_5bit
  max_pulse,   \* max_pulse of counter_5bit
  skip_clk_r,  \* registered skip_clk
  o_clk,       \* the clock of the core
  held         \* observer: i_clk edges on which o_clk has been held in a row,
               \* those with lfsr8 in its lock-up state not counted

clkVars == <<rst_n, state8, ptb, ptb_valid, count, max_pulse, skip_clk_r, o_clk, held>>

-----------------------------------------------------------------------------
Xor(a, b) == a # b
Xor3(a, b, c) == Xor(Xor(a, b), c)
Xor4(a, b, c, d) == Xor(Xor(a, b), Xor(c, d))

Seed == [i \in 0 .. 7 |-> IF i \in {2, 3, 6} THEN TRUE ELSE FALSE]   \* 8'b01001100

(* The state an XNOR LFSR does not leave by itself.                        *)
LockUp == [i \in 0 .. 7 |-> TRUE]

(* Mutants of Feedback: an XOR LFSR; a perturbation that only sets.        *)
FeedbackXor(s, p) == Xor(Xor4(s[7], s[5], s[4], s[3]), p)
FeedbackOr(s, p) == ~Xor4(s[7], s[5], s[4], s[3]) \/ p

(* feedback of lfsr8; p is i_ptb & i_ptb_valid.                            *)
Feedback(s, p) == Xor(~Xor4(s[7], s[5], s[4], s[3]), p)

Shift(s, b) == [i \in 0 .. 7 |-> IF i = 0 THEN b ELSE s[i - 1]]

(* Mutant of SkipClk: select line 00 skips as often as 11.                 *)
SkipClkNoZero(s) ==
  LET p75 == s[7] \/ s[6]
      hi  == Xor3(s[2], s[1], s[0])
      lo  == Xor3(s[5], s[4], s[3])
  IN  \/ ~hi /\ ~lo /\ p75
      \/ ~hi /\ lo /\ s[7] /\ s[6]
      \/ hi /\ ~lo /\ Xor(s[7], s[6])
      \/ hi /\ lo /\ p75

(* skip_clk: the select lines choose how often a toggle is skipped.        *)
SkipClk(s) ==
  LET p25 == s[7] /\ s[6]
      p50 == Xor(s[7], s[6])
      p75 == s[7] \/ s[6]
      hi  == Xor3(s[2], s[1], s[0])
      lo  == Xor3(s[5], s[4], s[3])
  IN  \/ ~hi /\ lo /\ p25
      \/ hi /\ ~lo /\ p50
      \/ hi /\ lo /\ p75

(* Mutant of NextCount: the counter is wider than its register.            *)
NextCountWide(c) == c + 1

(* count of counter_5bit, five bits wide.                                  *)
NextCount(c) == (c + 1) % 32

-----------------------------------------------------------------------------
ClkInit ==
  /\ rst_n = FALSE
  /\ state8 = Seed
  /\ ptb = FALSE /\ ptb_valid = FALSE
  /\ count = 0 /\ max_pulse = FALSE
  /\ skip_clk_r = FALSE
  /\ o_clk = FALSE
  /\ held = 0

(* A rising edge of i_clk; b is the parity lfsr43 registers in o_ptb.      *)
Tick(b) ==
  /\ rst_n
  /\ state8' = Shift(state8, Feedback(state8, ptb /\ ptb_valid))
  /\ ptb' = b
  /\ ptb_valid' = max_pulse
  /\ count' = NextCount(count)
  /\ max_pulse' = (count = 31)
  /\ skip_clk_r' = SkipClk(state8)
  /\ o_clk' = IF skip_clk_r THEN o_clk ELSE ~o_clk
  /\ held' = IF ~skip_clk_r THEN 0 ELSE IF state8 = LockUp THEN held ELSE held + 1
  /\ UNCHANGED rst_n

AssertReset ==
  /\ rst_n
  /\ rst_n' = FALSE
  /\ state8' = Seed
  /\ ptb' = FALSE /\ ptb_valid' = FALSE
  /\ count' = 0 /\ max_pulse' = FALSE
  /\ skip_clk_r' = FALSE
  /\ o_clk' = FALSE
  /\ held' = 0

ReleaseReset ==
  /\ ~rst_n
  /\ rst_n' = TRUE
  /\ UNCHANGED <<state8, ptb, ptb_valid, count, max_pulse, skip_clk_r, o_clk, held>>

ClkNext == (\E b \in BOOLEAN : Tick(b)) \/ AssertReset \/ ReleaseReset

(* i_clk runs; lfsr43 does not deliver a 0 at every perturbation forever   *)
(* (a maximal-length sequence, sampled every 32 of its 2^43 - 1 steps,     *)
(* takes both values).                                                     *)
ClkFairness ==
  /\ WF_clkVars(\E b \in BOOLEAN : Tick(b))
  /\ SF_clkVars(max_pulse /\ Tick(TRUE))

ClkSpec == ClkInit /\ [][ClkNext]_clkVars /\ ClkFairness

-----------------------------------------------------------------------------
(* Registers hold bits, the counter five of them.                          *)
ClkTypeOK ==
  /\ rst_n \in BOOLEAN
  /\ state8 \in [0 .. 7 -> BOOLEAN]
  /\ ptb \in BOOLEAN /\ ptb_valid \in BOOLEAN
  /\ count \in 0 .. 31 /\ max_pulse \in BOOLEAN
  /\ skip_clk_r \in BOOLEAN /\ o_clk \in BOOLEAN
  /\ held \in Nat

(* lfsr8 falls into its lock-up state only when a perturbation arrives;    *)
(* left to itself the XNOR LFSR of clkgen never reaches it.                *)
LockUpOnlyByPerturbation ==
  [][state8' = LockUp => state8 = LockUp \/ (ptb /\ ptb_valid)]_clkVars

(* Outside lock-up the skip logic of clkgen holds o_clk for at most eight  *)
(* edges of i_clk in a row, wherever the perturbations fall.               *)
MaxHold == 8
HoldBounded == held <= MaxHold

(* Unless reset intervenes again and again, the core clock never stops:    *)
(* from every state, lock-up included, it rises and falls again.           *)
CoreClockRuns == <>[]rst_n => ([]<>o_clk /\ []<>~o_clk)
=============================================================================
