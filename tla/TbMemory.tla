------------------------------ MODULE TbMemory ------------------------------
(***************************************************************************)
(* What the two testbenches of the core have in common: a sparse memory    *)
(* that is written with byte enables and answers without error, and the    *)
(* registers of the responder.                                             *)
(***************************************************************************)
EXTENDS MemPipeline

VARIABLES
  mem,          \* the memory of the testbench
  data_rvalid,  \* response
  data_rdata,   \* data of the response
  arch          \* observer: the memory after the stores that have completed

tbVars == <<pipeVars, mem, data_rvalid, data_rdata, arch>>

mem_rd32(w) == [k \in 0 .. 3 |-> mem[4 * w + k]]

(* Mutant of mem_wr32: the byte enables are ignored.                       *)
mem_wr32NoBe(t) ==
  [a \in Addr |-> IF a \div 4 = t.word THEN t.wdata[a % 4] ELSE mem[a]]

mem_wr32(t) ==
  [a \in Addr |-> IF a \div 4 = t.word /\ a % 4 \in t.be THEN t.wdata[a % 4] ELSE mem[a]]

TbInit ==
  /\ PipeInit
  /\ mem = FreshMem /\ arch = FreshMem
  /\ data_rvalid = FALSE
  /\ data_rdata = [k \in 0 .. 3 |-> Zero]

(* What the program has asked memory to hold: the bytes of the store that  *)
(* completes in this cycle replace those at its addresses.                 *)
Commit(i) ==
  LET a == Responding(i)
  IN  arch' = IF a = None \/ ~a.we THEN arch
              ELSE [b \in Addr |->
                      IF \E k \in DOMAIN BytesOf(a) : BytesOf(a)[k] = b
                      THEN <<"reg", CHOOSE k \in DOMAIN BytesOf(a) : BytesOf(a)[k] = b>>
                      ELSE arch[b]]

-----------------------------------------------------------------------------
(* The assertion NoMemResponseWithoutPendingAccess of ibex_core: a         *)
(* response of the testbench finds an access that waits for it.            *)
NoTbResponseWithoutPendingAccess == data_rvalid => OutstandingResp

(* Program order: a load that has just completed delivered the bytes of    *)
(* the last completed store to each of its addresses.                      *)
LoadsSeeStores ==
  done # None /\ done.rf_we => done.rdata = Loaded(done.access, arch)
=============================================================================
