-------------------------- MODULE TbCombinational --------------------------
(***************************************************************************)
(* The data memory responder of the verification testbench                 *)
(* (Verification_modifiedCoreRTL/masked_core_tb.sv): the grant is the      *)
(* request itself, the response comes in the next cycle.                   *)
(***************************************************************************)
EXTENDS TbMemory

TbCycle ==
  LET j == [gnt |-> FALSE, rvalid |-> data_rvalid, err |-> FALSE, rdata |-> data_rdata]
      data_req == BusReq(LsuReq(j))    \* does not depend on the grant
      i == [j EXCEPT !.gnt = data_req]
  IN  /\ PipeCycle(i)
      /\ data_rvalid' = data_req
      /\ \/ /\ data_req /\ id.we
            /\ mem' = mem_wr32(Transaction)
            /\ data_rdata' = [k \in 0 .. 3 |-> Zero]
         \/ /\ data_req /\ ~id.we
            /\ data_rdata' = mem_rd32(Transaction.word)
            /\ UNCHANGED mem
         \/ ~data_req /\ UNCHANGED <<mem, data_rdata>>
      /\ Commit(i)

TbSpec == TbInit /\ [][TbCycle]_tbVars
=============================================================================
