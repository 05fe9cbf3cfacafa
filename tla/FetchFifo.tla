------------------------------ MODULE FetchFifo ------------------------------
(***************************************************************************)
(* ibex_fetch_fifo: three word-sized entries, filled with fetched words,   *)
(* from which 16-bit and 32-bit instructions are taken at half-word        *)
(* addresses.  A word that arrives is passed through to the output in the  *)
(* same cycle when the entries below it are empty.                         *)
(*                                                                         *)
(* Addresses count half words, like instr_addr_q[31:1], and wrap around    *)
(* after Words words.  The data of a word is its address and whether the   *)
(* bus reported an error (rdata and err of the code); whether a half word  *)
(* is a compressed instruction is the program's choice.                    *)
(***************************************************************************)
EXTENDS Naturals

CONSTANTS
  Words,      \* number of words of the address space
  Compressed  \* half words whose two low bits are not 11

Word == 0 .. Words - 1
Half == 0 .. 2 * Words - 1
Data == [word : Word, err : BOOLEAN]

ASSUME FetchFifoAssumption ==
  /\ Words \in Nat \ {0}
  /\ Compressed \subseteq Half

VARIABLES
  valid_q,      \* entries that hold a word
  rdata_q,      \* the entries: rdata_q and err_q of the code
  instr_addr_q  \* address of the next instruction

fifoVars == <<valid_q, rdata_q, instr_addr_q>>

DEPTH == 3
Entry == 0 .. DEPTH - 1

-----------------------------------------------------------------------------
(* The output port.  in is the word on the bus, in_valid whether it is one *)
(* for the FIFO.                                                           *)

Unaligned == instr_addr_q % 2 = 1

Rdata(in) == IF valid_q[0] THEN rdata_q[0] ELSE in
Upper(in) == IF valid_q[1] THEN rdata_q[1] ELSE in

(* If there is an error, rdata is unknown.                                 *)
IsCompressed(d, half) == 2 * d.word + half \in Compressed /\ ~d.err
AlignedIsCompressed(in) == IsCompressed(Rdata(in), 0)
UnalignedIsCompressed(in) == IsCompressed(Rdata(in), 1)

(* Mutant of ErrUnaligned: an error of the word after a compressed         *)
(* instruction is blamed on it.                                            *)
ErrUnalignedAny(in) ==
  IF valid_q[1] THEN rdata_q[1].err \/ rdata_q[0].err
  ELSE (valid_q[0] /\ rdata_q[0].err) \/ in.err

ErrUnaligned(in) ==
  IF valid_q[1]
  THEN (rdata_q[1].err /\ ~UnalignedIsCompressed(in)) \/ rdata_q[0].err
  ELSE \/ valid_q[0] /\ rdata_q[0].err
       \/ in.err /\ (~valid_q[0] \/ ~UnalignedIsCompressed(in))

ErrPlus2(in) ==
  IF valid_q[1] THEN rdata_q[1].err /\ ~rdata_q[0].err
  ELSE in.err /\ valid_q[0] /\ ~rdata_q[0].err

(* out_valid_o                                                             *)
OutValid(in_valid, in) ==
  IF Unaligned /\ ~UnalignedIsCompressed(in)
  THEN valid_q[1] \/ (valid_q[0] /\ in_valid)
  ELSE valid_q[0] \/ in_valid

(* out_addr_o, out_rdata_o (the two half words it is made of, low one      *)
(* first), out_err_o and out_err_plus2_o.                                  *)
Out(in) ==
  [addr |-> instr_addr_q,
   low  |-> 2 * Rdata(in).word + (IF Unaligned THEN 1 ELSE 0),
   high |-> IF Unaligned THEN 2 * Upper(in).word ELSE 2 * Rdata(in).word + 1,
   err  |-> IF Unaligned THEN ErrUnaligned(in) ELSE Rdata(in).err,
   plus2 |-> Unaligned /\ ErrPlus2(in)]

AddrIncrTwo(in) ==
  IF Unaligned THEN UnalignedIsCompressed(in) ELSE AlignedIsCompressed(in)

-----------------------------------------------------------------------------
(* The entries.                                                            *)

PopFifo(in_valid, in, ready) ==
  ready /\ OutValid(in_valid, in) /\ (~AlignedIsCompressed(in) \/ Unaligned)

LowestFreeEntry(i) == ~valid_q[i] /\ (i = 0 \/ valid_q[i - 1])
ValidPushed(in_valid, i) == valid_q[i] \/ (in_valid /\ LowestFreeEntry(i))

FifoCycle(clear, addr, in_valid, in, ready) ==
  LET pop  == PopFifo(in_valid, in, ready)
      next(i) == IF i # DEPTH - 1 /\ valid_q[i + 1] THEN rdata_q[i + 1] ELSE in
      en(i) == IF i = DEPTH - 1 THEN in_valid /\ LowestFreeEntry(i)
               ELSE \/ pop /\ ValidPushed(in_valid, i + 1)
                    \/ ~pop /\ in_valid /\ LowestFreeEntry(i)
  IN  /\ valid_q' = [i \in Entry |->
           /\ ~clear
           /\ IF pop THEN i # DEPTH - 1 /\ ValidPushed(in_valid, i + 1)
              ELSE ValidPushed(in_valid, i)]
      /\ rdata_q' = [i \in Entry |-> IF en(i) THEN next(i) ELSE rdata_q[i]]
      /\ instr_addr_q' =
           IF clear THEN addr
           ELSE IF ready /\ OutValid(in_valid, in)
           THEN (instr_addr_q + (IF AddrIncrTwo(in) THEN 1 ELSE 2)) % (2 * Words)
           ELSE instr_addr_q
=============================================================================
