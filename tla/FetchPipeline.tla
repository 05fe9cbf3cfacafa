--------------------------- MODULE FetchPipeline ---------------------------
(***************************************************************************)
(* The prefetch buffer and the pipeline it serves, which branches, stalls  *)
(* and stops fetching when it likes, and the program memory holds.  The    *)
(* instruction bus is left to the modules that extend this one.            *)
(***************************************************************************)
EXTENDS PrefetchBuffer

CONSTANTS
  Faulty,   \* words the bus answers with an error
  Targets,  \* half words the program branches to
  None      \* no instruction, no request

ASSUME FetchPipelineAssumption ==
  /\ Faulty \subseteq Word
  /\ Targets \subseteq Half

VARIABLES
  booted,  \* the controller has branched to the boot address
  pc,      \* observer: address of the instruction the program is to execute next
  got      \* observer: instruction the IF stage took in the last cycle, or None;
           \* out is None if it branched instead

fetchVars == <<pfVars, booted, pc, got>>

-----------------------------------------------------------------------------
(* The program, as the memory holds it.                                    *)

Fetched(w) == [word |-> w, err |-> w \in Faulty]

Next4(h) == (h + 2) % (2 * Words)
Next2(h) == (h + 1) % (2 * Words)
FirstFaulty(h) == h \div 2 \in Faulty

(* The fetch FIFO takes a half word it could not read for a long one.      *)
IsLong(h) == FirstFaulty(h) \/ h \notin Compressed

(* The first half of the instruction at h could be read, the second not.   *)
SecondFaulty(h) ==
  ~FirstFaulty(h) /\ IsLong(h) /\ Next2(h) \div 2 \in Faulty

-----------------------------------------------------------------------------
FetchInit ==
  /\ \E a \in Half : PrefetchInit(a)
  /\ booted = FALSE
  /\ pc = instr_addr_q
  /\ got = None

(* The target of a branch; without one addr_i is not looked at.            *)
Branches == ({TRUE} \X Targets) \cup {<<FALSE, 0>>}

(* instr_valid_id_d of the IF stage: an instruction is taken unless pc_set *)
(* kills it.                                                               *)
Taken(i) == OutValid(FifoValid(i), i.in) /\ i.ready /\ ~i.branch

(* The first thing the controller does is to branch: in RESET without a    *)
(* request, then in BOOT_SET with one.                                     *)
FetchCycle(i) ==
  /\ booted \/ i.branch
  /\ PrefetchCycle(i)
  /\ booted' = (booted \/ i.branch)
  /\ got' = IF i.branch THEN [at |-> i.addr, out |-> None]
            ELSE IF Taken(i) THEN [at |-> pc, out |-> Out(i.in)] ELSE None
  /\ pc' = IF i.branch THEN i.addr
           ELSE IF ~Taken(i) THEN pc
           ELSE IF IsLong(pc) THEN Next4(pc) ELSE Next2(pc)

-----------------------------------------------------------------------------
(* The pipeline gets the instructions of the program, each with the half   *)
(* words memory holds at its address, in the order the program executes    *)
(* them, none twice and none left out, whatever branches, stalls and late  *)
(* answers came before; an instruction is marked faulty exactly when a     *)
(* word it lies in is, and err_plus2_o tells which of the two it was.      *)
InstructionsCorrect ==
  got # None /\ got.out # None =>
    LET o == got.out
        h == got.at
    IN  /\ o.addr = h
        /\ o.err <=> FirstFaulty(h) \/ SecondFaulty(h)
        /\ ~o.err => o.low = h /\ (IsLong(h) => o.high = Next2(h))
        /\ o.err => (o.plus2 <=> h \div 2 # Next2(h) \div 2 /\ SecondFaulty(h))
=============================================================================
