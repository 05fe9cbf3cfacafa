--------------------------- MODULE DataSideProofs ---------------------------
(***************************************************************************)
(* Proofs about loads and stores for every address space, PMP              *)
(* configuration, program and memory that follows the bus protocol, with   *)
(* and without writeback stage.                                            *)
(*                                                                         *)
(* First: the FSM of the load/store unit always knows how many responses   *)
(* are to come.  BusMatchesFsm is inductive, and the assertion of          *)
(* ibex_core on unexpected responses follows from it.                      *)
(*                                                                         *)
(* Second: loads deliver and stores write their bytes, failed accesses are *)
(* reported with the address of the half that failed, and an ungranted     *)
(* request stays.  These speak of the cycle in which an access is done;    *)
(* Inv says what has to be true in each phase before: which halves were    *)
(* requested, refused or answered, and which registers keep what of them.  *)
(*                                                                         *)
(* Third: with the memory of the verification testbench on the bus, loads  *)
(* see the stores before them in program order.  TbInv says how far the    *)
(* memory is ahead of the completed stores in each phase of an access.     *)
(***************************************************************************)
EXTENDS DataSide, TbCombinational, Integers, SequenceTheorems, TLAPS

-----------------------------------------------------------------------------
(* The queue of the bus.                                                   *)

Count(b) == IF b THEN 1 ELSE 0

(* A sequence, of whatever elements.                                       *)
IsQueue(b) == \E S : b \in Seq(S)

(* What a response and a grant in the same cycle do to the queue.          *)
Queue(b, r, g, e) ==
  (IF r THEN Tail(b) ELSE b) \o (IF g THEN <<e>> ELSE <<>>)

(* The responses to come on the bus are a queue: it has a length, and is   *)
(* empty exactly when this is 0.                                           *)
LEMMA QueueLen ==
  ASSUME NEW b, IsQueue(b)
  PROVE  Len(b) \in Nat /\ (Len(b) = 0 <=> b = <<>>)
BY DEF IsQueue

(* A cycle of the bus takes an answered transaction from the front of the  *)
(* queue and puts a granted one at its end, and the length counts both.    *)
LEMMA QueueStep ==
  ASSUME NEW b, IsQueue(b), NEW r \in BOOLEAN, NEW g \in BOOLEAN, NEW e,
         r => b # <<>>
  PROVE  /\ IsQueue(Queue(b, r, g, e))
         /\ Len(Queue(b, r, g, e)) = Len(b) - Count(r) + Count(g)
<1>1. PICK S : b \in Seq(S)
  BY DEF IsQueue
<1> DEFINE T == S \cup {e}
           h == IF r THEN Tail(b) ELSE b
           t == IF g THEN <<e>> ELSE <<>>
<1>2. h \in Seq(T) /\ Len(h) = Len(b) - Count(r)
  <2>1. b \in Seq(T)
    BY <1>1
  <2>2. QED
    BY <2>1 DEF Count
<1>3. t \in Seq(T) /\ Len(t) = Count(g)
  <2>1. e \in T
    OBVIOUS
  <2>2. <<e>> \in Seq(T) /\ Len(<<e>>) = 1 /\ <<>> \in Seq(T) /\ Len(<<>>) = 0
    BY <2>1
  <2>3. CASE g
    BY <2>2, <2>3 DEF Count
  <2>4. CASE ~g
    BY <2>2, <2>4 DEF Count
  <2>5. QED
    BY <2>3, <2>4
<1> HIDE DEF h, t, T
<1>4. h \o t \in Seq(T) /\ Len(h \o t) = Len(h) + Len(t)
  BY <1>2, <1>3
<1>5. Len(b) \in Nat
  BY <1>1
<1>6. Queue(b, r, g, e) = h \o t
  BY DEF Queue, h, t
<1>7. QED
  BY <1>2, <1>3, <1>4, <1>5, <1>6 DEF IsQueue, Count

-----------------------------------------------------------------------------
(* The inductive invariant.                                                *)

IInv == BusMatchesFsm /\ IsQueue(bus) /\ ls_fsm_cs \in States

(* After reset the LSU is idle and nothing is on the bus.                  *)
LEMMA IInvInit == Init => IInv
<1> SUFFICES ASSUME Init PROVE IInv
  OBVIOUS
<1>1. bus \in Seq({}) /\ Len(bus) = 0
  BY DEF Init
<1>2. QED
  BY <1>1 DEF Init, PipeInit, LsuInit, IInv, BusMatchesFsm, Waiting, IsQueue,
             States

(* One cycle of the data side.                                             *)
LEMMA IInvCycle ==
  ASSUME IInv, NEW gnt \in BOOLEAN, NEW rvalid \in BOOLEAN, NEW err \in BOOLEAN,
         Cycle(gnt, rvalid, err)
  PROVE  IInv'
<1> DEFINE i == [gnt |-> gnt, rvalid |-> rvalid, err |-> err,
                 rdata |-> Rdata(rvalid, err)]
           req == LsuReq(i)
<1>1. /\ rvalid => bus # <<>>
      /\ Bus(i, req)
      /\ LsuCycle(req, i)
      /\ IdWithWb(i) \/ IdWithoutWb(i)
  BY DEF Cycle, PipeCycle
<1>2. i.gnt = gnt /\ i.rvalid = rvalid /\ i.err = err
  OBVIOUS
<1> HIDE DEF i
<1>3. gnt => DataReq(req) /\ ~DataPmpErr
  BY <1>1, <1>2 DEF Bus, BusReq
<1>4. /\ IsQueue(bus')
      /\ Len(bus') = Len(bus) - Count(rvalid) + Count(gnt)
      /\ Len(bus) \in Nat
      /\ rvalid => Len(bus) # 0
  <2> DEFINE e == [half |-> Half, txn |-> Transaction]
  <2>1. bus' = Queue(bus, rvalid, gnt, e)
    BY <1>1, <1>2 DEF Bus, Queue
  <2> HIDE DEF e
  <2>2. QED
    BY <1>1, <2>1, QueueLen, QueueStep DEF IInv
<1>5. BusMatchesFsm /\ WritebackStage \in BOOLEAN
  BY PipelineAssumption DEF IInv
<1>s. ls_fsm_cs' \in States
  BY <1>1 DEF LsuCycle, IdleNoReq, IdleReq, WaitGntMis, WaitRvalidMis, WaitGnt,
              WaitRvalidMisGntsDone, States
<1> SUFFICES BusMatchesFsm'
  BY <1>4, <1>s DEF IInv
<1>6. CASE IdleNoReq(req, i)
  <2>1. ls_fsm_cs = "IDLE" /\ ls_fsm_cs' = "IDLE" /\ ~req /\ ~gnt
    BY <1>3, <1>6 DEF IdleNoReq, DataReq
  <2>a. /\ ~handle_misaligned_q' /\ ~pmp_err_q'
        /\ Len(bus') = Len(bus) - Count(rvalid)
        /\ LsuRespValid(i) <=> rvalid \/ pmp_err_q
    <3>1. handle_misaligned_q' = handle_misaligned_q /\ pmp_err_q' = FALSE
      BY <1>6 DEF IdleNoReq
    <3>2. LsuRespValid(i) <=> rvalid \/ pmp_err_q
      BY <1>2, <2>1 DEF LsuRespValid
    <3>3. QED
      BY <1>4, <1>5, <2>1, <3>1, <3>2 DEF BusMatchesFsm, Count
  <2>2. CASE IdWithWb(i)
    <3>1. WritebackStage /\ wb' = IF LsuRespValid(i) THEN None ELSE wb
      BY <2>1, <2>2 DEF IdWithWb, LsuReqDone
    <3>2. CASE wb # None /\ ~LsuRespValid(i)
      <4>1. wb' # None /\ Len(bus') = 1
        BY <1>4, <1>5, <2>1, <2>a, <3>1, <3>2 DEF BusMatchesFsm, Waiting, Count
      <4>2. QED
        BY <2>1, <2>a, <3>1, <4>1 DEF BusMatchesFsm, Waiting
    <3>3. CASE wb = None \/ LsuRespValid(i)
      <4>1. wb' = None
        BY <3>1, <3>3
      <4>2. Len(bus') = 0
        BY <1>4, <1>5, <2>1, <2>a, <3>1, <3>3 DEF BusMatchesFsm, Waiting, Count
      <4>3. QED
        BY <2>1, <2>a, <3>1, <4>1, <4>2 DEF BusMatchesFsm, Waiting
    <3>4. QED
      BY <3>2, <3>3
  <2>3. CASE IdWithoutWb(i)
    <3>1. ~WritebackStage /\ wb' = None
      BY <2>3 DEF IdWithoutWb
    <3>2. CASE Waiting /\ ~LsuRespValid(i)
      <4>1. id' # None /\ idMulti' /\ Len(bus') = 1
        BY <1>4, <1>5, <2>1, <2>3, <2>a, <3>1, <3>2
        DEF BusMatchesFsm, Waiting, Count, IdWithoutWb
      <4>2. QED
        BY <2>1, <2>a, <3>1, <4>1 DEF BusMatchesFsm, Waiting
    <3>3. CASE ~Waiting \/ LsuRespValid(i)
      <4>1. ~idMulti'
        BY <2>1, <2>3, <3>1, <3>3 DEF IdWithoutWb, Waiting, LsuReq
      <4>2. Len(bus') = 0
        BY <1>4, <1>5, <2>1, <2>a, <3>1, <3>3 DEF BusMatchesFsm, Waiting, Count
      <4>3. QED
        BY <2>1, <2>a, <3>1, <4>1, <4>2 DEF BusMatchesFsm, Waiting
    <3>4. QED
      BY <3>2, <3>3
  <2>4. QED
    BY <1>1, <2>2, <2>3
<1>7. CASE IdleReq(req, i)
  <2>1. /\ ls_fsm_cs = "IDLE" /\ req /\ id # None
        /\ ~handle_misaligned_q /\ ~AddrIncrReq
        /\ DataAddr = id.addr
        /\ SplitMisalignedAccess <=> SplitMisaligned(id.type, id.addr % 4)
    BY <1>5, <1>7
    DEF IdleReq, LsuReq, BusMatchesFsm, AddrIncrReq, DataAddr, DataOffset,
        SplitMisalignedAccess
  <2>2. Len(bus) = Count(rvalid) /\ Len(bus') = Count(gnt)
    <3>1. CASE Waiting
      <4>1. LsuRespValid(i) /\ ~LsuRespErr(i)
        BY <1>5, <2>1, <3>1 DEF Waiting, LsuReq, OutstandingMemoryAccess
      <4>2. rvalid /\ ~pmp_err_q
        BY <1>2, <4>1 DEF LsuRespValid, LsuRespErr, DataOrPmpErr
      <4>3. Len(bus) = 1
        BY <1>5, <2>1, <3>1, <4>2 DEF BusMatchesFsm
      <4>4. QED
        BY <1>4, <4>2, <4>3 DEF Count
    <3>2. CASE ~Waiting
      <4>1. Len(bus) = 0
        BY <1>5, <2>1, <3>2 DEF BusMatchesFsm
      <4>2. QED
        BY <1>4, <4>1 DEF Count
    <3>3. QED
      BY <3>1, <3>2
  <2>3. /\ WritebackStage /\ ls_fsm_cs' = "IDLE" => wb' = id
        /\ WritebackStage /\ ls_fsm_cs' # "IDLE" => wb' = None /\ id' = id
        /\ ~WritebackStage => wb' = None /\ id' = id /\ idMulti' = TRUE
    BY <1>1, <1>2, <1>5, <2>1
    DEF IdWithWb, IdWithoutWb, LsuReqDone, LsuReq, OutstandingMemoryAccess
  <2>4. CASE gnt /\ ~SplitMisalignedAccess
    <3>1. ls_fsm_cs' = "IDLE" /\ ~handle_misaligned_q' /\ ~pmp_err_q'
      BY <1>2, <1>3, <1>7, <2>4 DEF IdleReq
    <3>2. QED
      BY <1>4, <2>1, <2>2, <2>3, <2>4, <3>1 DEF BusMatchesFsm, Waiting, Count
  <2>5. CASE gnt /\ SplitMisalignedAccess
    <3>1. ls_fsm_cs' = "WAIT_RVALID_MIS" /\ ~pmp_err_q'
      BY <1>2, <1>3, <1>7, <2>5 DEF IdleReq
    <3>2. QED
      BY <1>4, <1>5, <2>1, <2>2, <2>3, <2>5, <3>1 DEF BusMatchesFsm, Count
  <2>6. CASE ~gnt
    <3>1. /\ ls_fsm_cs' = IF SplitMisalignedAccess THEN "WAIT_GNT_MIS" ELSE "WAIT_GNT"
          /\ ~handle_misaligned_q' /\ (pmp_err_q' <=> DataPmpErr)
      <4>1. /\ ls_fsm_cs' = IF SplitMisalignedAccess THEN "WAIT_GNT_MIS" ELSE "WAIT_GNT"
            /\ handle_misaligned_q' = handle_misaligned_q
        BY <1>2, <1>7, <2>6 DEF IdleReq
      <4>2. pmp_err_q' = DataPmpErr
        BY <1>7 DEF IdleReq
      <4>3. QED
        BY <2>1, <4>1, <4>2, Zenon
    <3>2. id' = id
      BY <1>5, <2>3, <3>1
    <3>3. DataPmpErr' <=> DataPmpErr
      BY <2>1, <3>1, <3>2 DEF DataPmpErr, DataAddr, AddrIncrReq
    <3>4. QED
      BY <1>4, <1>5, <2>1, <2>2, <2>3, <2>6, <3>1, <3>2, <3>3
      DEF BusMatchesFsm, Count
  <2>7. QED
    BY <2>4, <2>5, <2>6
<1>8. ASSUME ls_fsm_cs # "IDLE"
      PROVE  /\ id # None
             /\ WritebackStage /\ ls_fsm_cs' = "IDLE" => wb' = id
             /\ WritebackStage /\ ls_fsm_cs' # "IDLE" => wb' = None /\ id' = id
             /\ ~WritebackStage => wb' = None /\ id' = id /\ idMulti' = TRUE
  BY <1>1, <1>5, <1>8
  DEF IdWithWb, IdWithoutWb, LsuReqDone, LsuRespValid, LsuRespErr, BusMatchesFsm
<1>9. CASE WaitGntMis(i)
  <2>1. /\ ls_fsm_cs = "WAIT_GNT_MIS" /\ Len(bus) = 0 /\ ~rvalid
        /\ Len(bus') = Count(gnt)
        /\ gnt => ~pmp_err_q
        /\ SplitMisaligned(id.type, id.addr % 4)
    BY <1>3, <1>4, <1>5, <1>9 DEF WaitGntMis, BusMatchesFsm, Count
  <2>2. ls_fsm_cs' # "IDLE" /\ id' = id /\ wb' = None
    BY <1>2, <1>5, <1>8, <1>9, <2>1 DEF WaitGntMis
  <2>3. CASE gnt \/ pmp_err_q
    <3>1. ls_fsm_cs' = "WAIT_RVALID_MIS" /\ pmp_err_q' = pmp_err_q
      BY <1>2, <1>9, <2>3 DEF WaitGntMis
    <3>2. QED
      BY <1>4, <1>5, <1>8, <2>1, <2>2, <2>3, <3>1 DEF BusMatchesFsm, Count
  <2>4. CASE ~(gnt \/ pmp_err_q)
    <3>1. ls_fsm_cs' = ls_fsm_cs /\ pmp_err_q' = pmp_err_q /\ addr_last_q' = addr_last_q
          /\ handle_misaligned_q' = handle_misaligned_q
      BY <1>2, <1>9, <2>4 DEF WaitGntMis
    <3>2. DataPmpErr' <=> DataPmpErr
      BY <2>2, <3>1 DEF DataPmpErr, DataAddr, AddrIncrReq
    <3>3. QED
      BY <1>4, <1>5, <1>8, <2>1, <2>2, <2>4, <3>1, <3>2 DEF BusMatchesFsm, Count
  <2>5. QED
    BY <2>3, <2>4
<1>10. CASE WaitRvalidMis(i)
  <2>1. /\ ls_fsm_cs = "WAIT_RVALID_MIS"
        /\ Len(bus) = IF pmp_err_q THEN 0 ELSE 1
        /\ SplitMisaligned(id.type, id.addr % 4)
        /\ AddrIncrReq
    BY <1>5, <1>10 DEF WaitRvalidMis, BusMatchesFsm, AddrIncrReq
  <2>2. CASE (rvalid \/ pmp_err_q) /\ gnt
    <3>1. ls_fsm_cs' = "IDLE" /\ ~handle_misaligned_q' /\ ~pmp_err_q'
      <4>1. /\ ls_fsm_cs' = "IDLE"
            /\ handle_misaligned_q' = ~i.gnt
            /\ pmp_err_q' = DataPmpErr
        BY <1>2, <1>10, <2>2 DEF WaitRvalidMis
      <4>2. QED
        BY <1>2, <1>3, <2>2, <4>1, Zenon
    <3>2. Len(bus') = 1
      BY <1>4, <2>1, <2>2 DEF Count
    <3>3. QED
      BY <1>4, <1>5, <1>8, <2>1, <3>1, <3>2 DEF BusMatchesFsm, Waiting
  <2>3. CASE (rvalid \/ pmp_err_q) /\ ~gnt
    <3>1. /\ ls_fsm_cs' = "WAIT_GNT" /\ handle_misaligned_q'
          /\ pmp_err_q' = DataPmpErr /\ addr_last_q' = addr_last_q
      BY <1>2, <1>10, <2>3 DEF WaitRvalidMis, AddrUpdate
    <3>2. Len(bus') = 0
      BY <1>4, <2>1, <2>3 DEF Count
    <3>3. id' = id /\ wb' = None
      BY <1>5, <1>8, <2>1, <3>1
    <3>4. DataPmpErr' <=> DataPmpErr
      BY <2>1, <3>1 DEF DataPmpErr, DataAddr, AddrIncrReq
    <3>5. QED
      BY <1>4, <1>5, <1>8, <2>1, <3>1, <3>2, <3>3, <3>4 DEF BusMatchesFsm
  <2>4. CASE ~(rvalid \/ pmp_err_q)
    <3>1. /\ ls_fsm_cs' = IF gnt THEN "WAIT_RVALID_MIS_GNTS_DONE" ELSE "WAIT_RVALID_MIS"
          /\ pmp_err_q' = pmp_err_q /\ addr_last_q' = addr_last_q
          /\ gnt => ~handle_misaligned_q'
      <4>1. handle_misaligned_q' = (handle_misaligned_q /\ ~gnt)
        BY <1>2, <1>10, <2>4, Zenon DEF WaitRvalidMis
      <4>2. gnt => ~handle_misaligned_q'
        BY <4>1, Zenon
      <4>3. QED
        BY <1>2, <1>10, <2>1, <2>4, <4>2 DEF WaitRvalidMis
    <3>2. id' = id /\ wb' = None
      BY <1>5, <1>8, <2>1, <3>1
    <3>3. DataPmpErr' <=> DataPmpErr
      BY <2>1, <3>1 DEF DataPmpErr, DataAddr, AddrIncrReq
    <3>4. Len(bus') = 1 + Count(gnt)
      BY <1>4, <2>1, <2>4 DEF Count
    <3>5. QED
      <4>0. ~pmp_err_q'
        BY <2>4, <3>1
      <4>1. CASE gnt
        <5>1. /\ ls_fsm_cs' = "WAIT_RVALID_MIS_GNTS_DONE" /\ Len(bus') = 2
              /\ ~handle_misaligned_q' /\ ~DataPmpErr'
          BY <1>3, <3>1, <3>3, <3>4, <4>1 DEF Count
        <5>2. QED
          BY <1>5, <1>8, <2>1, <3>2, <4>0, <5>1 DEF BusMatchesFsm
      <4>2. CASE ~gnt
        <5>1. ls_fsm_cs' = "WAIT_RVALID_MIS" /\ Len(bus') = 1
          BY <3>1, <3>4, <4>2 DEF Count
        <5>2. QED
          BY <1>5, <1>8, <2>1, <3>2, <4>0, <5>1 DEF BusMatchesFsm
      <4>3. QED
        BY <4>1, <4>2
  <2>5. QED
    BY <2>2, <2>3, <2>4
<1>11. CASE WaitGnt(i)
  <2>1. /\ ls_fsm_cs = "WAIT_GNT" /\ Len(bus) = 0 /\ ~rvalid
        /\ Len(bus') = Count(gnt)
        /\ gnt => ~pmp_err_q
    BY <1>3, <1>4, <1>5, <1>11 DEF WaitGnt, BusMatchesFsm, Count
  <2>2. CASE gnt \/ pmp_err_q
    <3>1. ls_fsm_cs' = "IDLE" /\ ~handle_misaligned_q' /\ pmp_err_q' = pmp_err_q
      BY <1>2, <1>11, <2>2 DEF WaitGnt
    <3>2. QED
      BY <1>4, <1>5, <1>8, <2>1, <2>2, <3>1 DEF BusMatchesFsm, Waiting, Count
  <2>3. CASE ~(gnt \/ pmp_err_q)
    <3>1. ls_fsm_cs' = ls_fsm_cs /\ pmp_err_q' = pmp_err_q /\ addr_last_q' = addr_last_q
          /\ handle_misaligned_q' = handle_misaligned_q
      BY <1>2, <1>11, <2>3 DEF WaitGnt
    <3>2. id' = id /\ wb' = None
      BY <1>5, <1>8, <2>1, <3>1
    <3>3. DataPmpErr' <=> DataPmpErr
      BY <3>1, <3>2 DEF DataPmpErr, DataAddr, AddrIncrReq
    <3>4. QED
      BY <1>4, <1>5, <1>8, <2>1, <2>3, <3>1, <3>2, <3>3 DEF BusMatchesFsm, Count
  <2>4. QED
    BY <2>2, <2>3
<1>12. CASE WaitRvalidMisGntsDone(i)
  <2>1. /\ ls_fsm_cs = "WAIT_RVALID_MIS_GNTS_DONE" /\ Len(bus) = 2 /\ ~gnt
        /\ ~pmp_err_q /\ ~DataPmpErr
        /\ SplitMisaligned(id.type, id.addr % 4)
        /\ ~handle_misaligned_q
    BY <1>3, <1>5, <1>12 DEF WaitRvalidMisGntsDone, BusMatchesFsm, DataReq
  <2>2. CASE rvalid
    <3>1. ls_fsm_cs' = "IDLE" /\ ~pmp_err_q' /\ handle_misaligned_q' = handle_misaligned_q
      BY <1>2, <1>12, <2>1, <2>2 DEF WaitRvalidMisGntsDone
    <3>2. Len(bus') = 1
      BY <1>4, <2>1, <2>2 DEF Count
    <3>3. QED
      BY <1>4, <1>5, <1>8, <2>1, <3>1, <3>2 DEF BusMatchesFsm, Waiting
  <2>3. CASE ~rvalid
    <3>1. ls_fsm_cs' = ls_fsm_cs /\ pmp_err_q' = pmp_err_q /\ addr_last_q' = addr_last_q
          /\ handle_misaligned_q' = handle_misaligned_q
      BY <1>2, <1>12, <2>3 DEF WaitRvalidMisGntsDone
    <3>2. id' = id /\ wb' = None /\ Len(bus') = 2
      <4>1. Len(bus') = 2
        BY <1>4, <2>1, <2>3 DEF Count
      <4>2. id' = id /\ wb' = None
        BY <1>5, <1>8, <2>1, <3>1
      <4>3. QED
        BY <4>1, <4>2
    <3>3. DataPmpErr' <=> DataPmpErr
      BY <2>1, <3>1 DEF DataPmpErr, DataAddr, AddrIncrReq
    <3>4. QED
      BY <1>4, <1>5, <1>8, <2>1, <3>1, <3>2, <3>3 DEF BusMatchesFsm
  <2>4. QED
    BY <2>2, <2>3
<1>13. QED
  BY <1>1, <1>6, <1>7, <1>9, <1>10, <1>11, <1>12 DEF LsuCycle

(* Every cycle of clk_i keeps the count of the LSU FSM right.              *)
LEMMA IInvStep == IInv /\ [Next]_vars => IInv'
<1> SUFFICES ASSUME IInv, [Next]_vars
             PROVE  IInv'
  OBVIOUS
<1>1. CASE Next
  BY <1>1, IInvCycle DEF Next
<1>2. CASE UNCHANGED vars
  BY <1>2 DEF vars, pipeVars, lsuRegs, IInv, BusMatchesFsm, Waiting, DataPmpErr, DataAddr,
              AddrIncrReq
<1>3. QED
  BY <1>1, <1>2

(* For every address space, PMP configuration, set of accesses and         *)
(* protocol-abiding memory, with or without writeback stage, the state of  *)
(* the LSU determines how many responses are to come.                      *)
THEOREM BusCounted == Spec => []BusMatchesFsm
<1>1. IInv => BusMatchesFsm
  BY DEF IInv
<1>2. QED
  BY <1>1, IInvInit, IInvStep, PTL DEF Spec

(* The assertion NoMemResponseWithoutPendingAccess of ibex_core holds of   *)
(* every such system: no response can come for which no access waits.      *)
THEOREM ResponsesExpected == Spec => []NoMemResponseWithoutPendingAccess
<1>1. IInv => NoMemResponseWithoutPendingAccess
  <2> SUFFICES ASSUME IInv, bus # <<>>
               PROVE  OutstandingResp
    BY DEF NoMemResponseWithoutPendingAccess
  <2>1. Len(bus) # 0
    BY QueueLen DEF IInv
  <2>2. QED
    BY <2>1, PipelineAssumption
    DEF IInv, BusMatchesFsm, Waiting, OutstandingResp, States
<1>2. QED
  BY <1>1, IInvInit, IInvStep, PTL DEF Spec

-----------------------------------------------------------------------------
(* What the LSU is doing: the access in progress, what its halves are on   *)
(* the bus, and how far it has come.                                       *)

(* The access whose response is to come, if one is in progress.            *)
InProgress == ls_fsm_cs # "IDLE" \/ Waiting
Current == IF WritebackStage /\ ls_fsm_cs = "IDLE" THEN wb ELSE id

(* Offset in its word, whether it crosses into the next, and the words.    *)
Off(a) == a.addr % 4
IsSplit(a) == SplitMisaligned(a.type, Off(a))
WordOf(a, h) == IF h = 1 THEN First(a) ELSE Second(a)

(* The lanes, the transaction and the registered control of half h of a.   *)
LanesOf(a, h) ==
  CASE a.type = "word" -> IF h = 1 THEN Off(a) .. 3 ELSE 0 .. Off(a) - 1
    [] a.type = "half" -> IF h = 1 THEN {Off(a), Off(a) + 1} \cap (0 .. 3) ELSE {0}
    [] a.type = "byte" -> {Off(a)}
TxnOf(a, h) ==
  [word |-> WordOf(a, h), we |-> a.we, be |-> LanesOf(a, h),
   wdata |-> [k \in 0 .. 3 |-> <<"reg", (k + 4 - Off(a)) % 4>>]]
PartOf(a, h) == [half |-> h, txn |-> TxnOf(a, h)]
CtrlOf(a) == [offset |-> Off(a), type |-> a.type, sign |-> a.sign, we |-> a.we]

(* What the bus has granted of a half, and of both.                        *)
Asked(a, h) == IF WordOf(a, h) \in Denied THEN <<>> ELSE <<PartOf(a, h)>>
BothAsked(a) ==
  IF First(a) \in Denied THEN Asked(a, 2)
  ELSE IF Second(a) \in Denied THEN <<PartOf(a, 1)>>
  ELSE <<PartOf(a, 1), PartOf(a, 2)>>

(* The first half of a split access has been answered: what is kept of it. *)
FirstAnswered(a) ==
  /\ lsu_err_q <=> First(a) \in Denied \/ 1 \in record.refused
  /\ pmp_err_q <=> Second(a) \in Denied
  /\ record.refused \subseteq {1}
  /\ ~a.we /\ ~lsu_err_q =>
       \A k \in 1 .. 3 : rdata_q[k] = <<"mem", 4 * First(a) + k>>

(* Nothing is in progress.                                                 *)
NothingOut == ~InProgress => bus = <<>> /\ record = NoRecord

(* The first half, or the whole of an access that is not split, is shown.  *)
FirstShown ==
  ls_fsm_cs = "WAIT_GNT_MIS" \/ (ls_fsm_cs = "WAIT_GNT" /\ ~handle_misaligned_q) =>
    /\ ~handle_misaligned_q /\ ~lsu_err_q
    /\ pmp_err_q <=> First(id) \in Denied
    /\ bus = <<>> /\ record = NoRecord
    /\ ls_fsm_cs = "WAIT_GNT" => ~IsSplit(id)

(* The first half is on the bus, the second is shown.                      *)
FirstOut ==
  ls_fsm_cs = "WAIT_RVALID_MIS" =>
    /\ handle_misaligned_q /\ ~lsu_err_q
    /\ pmp_err_q <=> First(id) \in Denied
    /\ addr_last_q = id.addr /\ ctrl_q = CtrlOf(id)
    /\ bus = Asked(id, 1) /\ record = [granted |-> Asked(id, 1), refused |-> {}]

(* Both halves are on the bus.                                             *)
BothOut ==
  ls_fsm_cs = "WAIT_RVALID_MIS_GNTS_DONE" =>
    /\ ~lsu_err_q
    /\ First(id) \notin Denied /\ Second(id) \notin Denied
    /\ addr_last_q = id.addr /\ ctrl_q = CtrlOf(id)
    /\ bus = <<PartOf(id, 1), PartOf(id, 2)>>
    /\ record = [granted |-> <<PartOf(id, 1), PartOf(id, 2)>>, refused |-> {}]

(* The first half has been answered, the second is shown.                  *)
SecondShown ==
  ls_fsm_cs = "WAIT_GNT" /\ handle_misaligned_q =>
    /\ IsSplit(id) /\ FirstAnswered(id)
    /\ addr_last_q = id.addr /\ ctrl_q = CtrlOf(id)
    /\ bus = <<>>
    /\ record = [granted |-> Asked(id, 1), refused |-> record.refused]

(* Only the last answer is to come.                                        *)
LastOut ==
  ls_fsm_cs = "IDLE" /\ Waiting =>
    /\ ctrl_q = CtrlOf(Current)
    /\ ~IsSplit(Current) =>
         /\ ~lsu_err_q
         /\ pmp_err_q <=> First(Current) \in Denied
         /\ addr_last_q = Current.addr
         /\ bus = Asked(Current, 1)
         /\ record = [granted |-> Asked(Current, 1), refused |-> {}]
    /\ IsSplit(Current) =>
         /\ FirstAnswered(Current)
         /\ addr_last_q = IF lsu_err_q THEN Current.addr ELSE 4 * Second(Current)
         /\ bus = Asked(Current, 2)
         /\ record = [granted |-> BothAsked(Current), refused |-> record.refused]

(* A request that was shown and not granted is shown again.                *)
ShownWaits ==
  shown # None /\ ~shown.gnt =>
    /\ ls_fsm_cs \in {"WAIT_GNT_MIS", "WAIT_RVALID_MIS", "WAIT_GNT"}
    /\ ~DataPmpErr /\ shown.txn = Transaction

(* The phases of an access.                                                *)
Phases == /\ NothingOut /\ FirstShown /\ FirstOut /\ BothOut /\ SecondShown /\ LastOut

(* The inductive invariant of the second part.                             *)
Inv == TypeOK /\ IInv /\ Phases /\ ShownWaits
-----------------------------------------------------------------------------
(* Addresses.                                                              *)

(* A number below 2 * m, modulo m.                                         *)
LEMMA ModSmall ==
  ASSUME NEW m \in Nat \ {0}, NEW y \in 0 .. 2 * m - 1
  PROVE  /\ y < m => y % m = y
         /\ ~(y < m) => y % m = y - m
  OBVIOUS

(* How the bytes of an access lie in the two words it may touch, in an     *)
(* address space of w words.                                               *)
LEMMA ByteAddr ==
  ASSUME NEW w \in Nat \ {0}, NEW x \in 0 .. 4 * w - 1
  PROVE  /\ x \div 4 \in 0 .. w - 1
         /\ x = 4 * (x \div 4) + (x % 4) /\ x % 4 \in 0 .. 3
         /\ (x \div 4 + 1) % w = IF x \div 4 + 1 = w THEN 0 ELSE x \div 4 + 1
         /\ \A k \in 0 .. 4 :
              (x + k) % (4 * w) = IF x + k < 4 * w THEN x + k ELSE x + k - 4 * w
<1>1. /\ x \div 4 \in 0 .. w - 1
      /\ x = 4 * (x \div 4) + (x % 4) /\ x % 4 \in 0 .. 3
  OBVIOUS
<1>2. (x \div 4 + 1) % w = IF x \div 4 + 1 = w THEN 0 ELSE x \div 4 + 1
  <2>1. PICK z \in Nat : z = x \div 4 + 1
    BY <1>1
  <2>2. z \in 0 .. 2 * w - 1
    BY <1>1, <2>1
  <2>3. z % w = IF z < w THEN z ELSE z - w
    BY <2>2, ModSmall
  <2>4. z <= w /\ x \div 4 + 1 = z
    BY <1>1, <2>1
  <2>5. QED
    BY <2>3, <2>4
<1>3. ASSUME NEW k \in 0 .. 4
      PROVE  (x + k) % (4 * w) = IF x + k < 4 * w THEN x + k ELSE x + k - 4 * w
  <2>1. PICK z \in Nat : z = x + k
    OBVIOUS
  <2>2. PICK m \in Nat \ {0} : m = 4 * w
    OBVIOUS
  <2>3. z \in 0 .. 2 * m - 1
    BY <2>1, <2>2
  <2>4. z % m = IF z < m THEN z ELSE z - m
    BY <2>3, ModSmall
  <2>5. QED
    BY <2>1, <2>2, <2>4
<1>4. QED
  BY <1>1, <1>2, <1>3

(* Adding four to an address leads to the same offset of the next word.    *)
LEMMA NextWord ==
  ASSUME NEW w \in Nat \ {0}, NEW x \in 0 .. 4 * w - 1
  PROVE  /\ (x + 4) % (4 * w) = 4 * ((x \div 4 + 1) % w) + (x % 4)
         /\ ((x + 4) % (4 * w)) % 4 = x % 4
         /\ ((x + 4) % (4 * w)) \div 4 = (x \div 4 + 1) % w
         /\ (x \div 4 + 1) % w \in 0 .. w - 1
<1> DEFINE q == x \div 4  r == x % 4  s == (q + 1) % w  y == (x + 4) % (4 * w)
<1>1. /\ q \in 0 .. w - 1 /\ r \in 0 .. 3 /\ x = 4 * q + r
      /\ s = IF q + 1 = w THEN 0 ELSE q + 1
  BY ByteAddr, Zenon
<1>0. y = IF x + 4 < 4 * w THEN x + 4 ELSE x + 4 - 4 * w
  <2>1. 4 \in 0 .. 4
    OBVIOUS
  <2>2. QED
    BY <2>1, ByteAddr, Zenon
<1> HIDE DEF q, r, s, y
<1>2. y = 4 * s + r /\ s \in 0 .. w - 1
  <2>1. CASE q + 1 = w
    BY <1>0, <1>1, <2>1
  <2>2. CASE q + 1 # w
    BY <1>0, <1>1, <2>2
  <2>3. QED
    BY <2>1, <2>2
<1>3. y % 4 = r /\ y \div 4 = s
  <2>1. ASSUME NEW u \in Nat, NEW v \in 0 .. 3
        PROVE  (4 * u + v) % 4 = v /\ (4 * u + v) \div 4 = u
    OBVIOUS
  <2>2. QED
    BY <1>1, <1>2, <2>1
<1>4. QED
  BY <1>2, <1>3 DEF q, r, s, y

(* The sequences of at most two transactions that occur.                   *)
LEMMA Small ==
  ASSUME NEW x, NEW y
  PROVE /\ <<>> \o <<x>> = <<x>> /\ <<x>> \o <<>> = <<x>> /\ <<>> \o <<>> = <<>>
        /\ <<x>> \o <<y>> = <<x, y>> /\ Tail(<<x>>) = <<>> /\ Tail(<<x, y>>) = <<y>>
        /\ Head(<<x>>) = x /\ Head(<<x, y>>) = x
        /\ <<x>> # <<>> /\ <<x, y>> # <<>>
<1>1. Head(<<x>>) = x /\ Head(<<x, y>>) = x
  OBVIOUS
<1>2. <<x>> # <<>> /\ <<x, y>> # <<>>
  OBVIOUS
<1>3. Tail(<<x>>) = <<>> /\ Tail(<<x, y>>) = <<y>>
  OBVIOUS
<1>4. <<>> \o <<x>> = <<x>>
  OBVIOUS
<1>5. <<x>> \o <<>> = <<x>>
  OBVIOUS
<1>6. <<>> \o <<>> = <<>>
  OBVIOUS
<1>7. <<x>> \o <<y>> = <<x, y>>
  <2> DEFINE s == <<x>> \o <<y>>
             T == {x, y}
  <2>1. <<x>> \in Seq(T) /\ <<y>> \in Seq(T) /\ Len(<<x>>) = 1 /\ Len(<<y>>) = 1
    OBVIOUS
  <2>2. s \in Seq(T) /\ Len(s) = 2 /\ s[1] = x /\ s[2] = y
    <3> HIDE DEF T
    <3>1. QED
      BY <2>1
  <2>3. <<x, y>> \in Seq(T) /\ Len(<<x, y>>) = 2 /\ <<x, y>>[1] = x /\ <<x, y>>[2] = y
    OBVIOUS
  <2> HIDE DEF s, T
  <2>4. \A k \in 1 .. 2 : s[k] = <<x, y>>[k]
    BY <2>2, <2>3
  <2>5. s = <<x, y>>
    BY <2>2, <2>3, <2>4, SeqEqual
  <2>6. QED
    BY <2>5 DEF s
<1>8. QED
  BY <1>1, <1>2, <1>3, <1>4, <1>5, <1>6, <1>7

(* The fields of an access, and where it lies.                             *)
LEMMA AccessFields ==
  ASSUME NEW a \in Access
  PROVE  /\ a.addr \in 0 .. 4 * Words - 1 /\ a.type \in Types
         /\ a.we \in BOOLEAN /\ a.sign \in BOOLEAN
         /\ First(a) \in 0 .. Words - 1 /\ Second(a) \in 0 .. Words - 1
         /\ Off(a) \in 0 .. 3 /\ a.addr = 4 * First(a) + Off(a)
<1>1. /\ a.addr \in 0 .. 4 * Words - 1 /\ a.type \in Types
      /\ a.we \in BOOLEAN /\ a.sign \in BOOLEAN
  BY DEF Access, Addr
<1>2. Words \in Nat \ {0}
  BY LsuAssumption
<1>3. /\ a.addr \div 4 \in 0 .. Words - 1
      /\ a.addr = 4 * (a.addr \div 4) + (a.addr % 4) /\ a.addr % 4 \in 0 .. 3
  BY <1>1, <1>2, ByteAddr, Zenon
<1>4. (a.addr \div 4 + 1) % Words \in 0 .. Words - 1
  BY <1>1, <1>2, NextWord, Zenon
<1>5. QED
  BY <1>1, <1>3, <1>4, Zenon DEF First, Second, Off

(* What is on the bus while the first half is shown.                       *)
LEMMA SignalsFirst ==
  ASSUME id \in Access, ~AddrIncrReq
  PROVE  /\ Half = 1 /\ DataAddr = id.addr /\ DataOffset = Off(id)
         /\ DataPmpErr <=> First(id) \in Denied
         /\ SplitMisalignedAccess <=> IsSplit(id)
         /\ ~handle_misaligned_q => Transaction = TxnOf(id, 1)
<1>1. Half = 1 /\ DataAddr = id.addr /\ DataOffset = Off(id)
  BY DEF Half, DataAddr, DataOffset, Off
<1>2. DataPmpErr <=> First(id) \in Denied
  BY <1>1 DEF DataPmpErr, First
<1>3. SplitMisalignedAccess <=> IsSplit(id)
  BY <1>1 DEF SplitMisalignedAccess, IsSplit
<1>4. ASSUME ~handle_misaligned_q PROVE Transaction = TxnOf(id, 1)
  <2>1. DataBe = LanesOf(id, 1)
    <3>1. id.type \in {"word", "half", "byte"}
      BY AccessFields DEF Types
    <3>2. QED
      BY <1>1, <1>4, <3>1 DEF DataBe, LanesOf
  <2>2. DataAddr \div 4 = WordOf(id, 1)
    BY <1>1 DEF WordOf, First
  <2>3. DataWdata = [k \in 0 .. 3 |-> <<"reg", (k + 4 - Off(id)) % 4>>]
    BY <1>1 DEF DataWdata
  <2>4. QED
    BY <2>1, <2>2, <2>3 DEF Transaction, TxnOf
<1>5. QED
  BY <1>1, <1>2, <1>3, <1>4

(* What is on the bus while the second half is shown.                      *)
LEMMA SignalsSecond ==
  ASSUME id \in Access, AddrIncrReq, addr_last_q = id.addr
  PROVE  /\ Half = 2 /\ DataOffset = Off(id) /\ DataAddrWAligned = 4 * Second(id)
         /\ DataPmpErr <=> Second(id) \in Denied
         /\ handle_misaligned_q => Transaction = TxnOf(id, 2)
<1>1. Half = 2 /\ DataAddr = (id.addr + 4) % (4 * Words)
  BY DEF Half, DataAddr
<1>2. /\ (id.addr + 4) % (4 * Words) = 4 * Second(id) + Off(id)
      /\ ((id.addr + 4) % (4 * Words)) % 4 = Off(id)
      /\ ((id.addr + 4) % (4 * Words)) \div 4 = Second(id)
  <2>1. Words \in Nat \ {0} /\ id.addr \in 0 .. 4 * Words - 1
    BY LsuAssumption, AccessFields
  <2>2. QED
    BY <2>1, NextWord, Zenon DEF Second, First, Off
<1>3. DataOffset = Off(id) /\ DataAddr \div 4 = Second(id) /\ DataAddr = 4 * Second(id) + Off(id)
  BY <1>1, <1>2, Zenon DEF DataOffset
<1>4. DataAddrWAligned = 4 * Second(id)
  BY <1>3, AccessFields DEF DataAddrWAligned
<1>5. DataPmpErr <=> Second(id) \in Denied
  BY <1>3 DEF DataPmpErr
<1>6. ASSUME handle_misaligned_q PROVE Transaction = TxnOf(id, 2)
  <2>1. DataBe = LanesOf(id, 2)
    <3>1. id.type \in {"word", "half", "byte"}
      BY AccessFields DEF Types
    <3>2. QED
      BY <1>3, <1>6, <3>1 DEF DataBe, LanesOf
  <2>2. DataAddr \div 4 = WordOf(id, 2)
    BY <1>3 DEF WordOf
  <2>3. DataWdata = [k \in 0 .. 3 |-> <<"reg", (k + 4 - Off(id)) % 4>>]
    BY <1>3 DEF DataWdata
  <2>4. QED
    BY <2>1, <2>2, <2>3 DEF Transaction, TxnOf
<1>7. QED
  BY <1>1, <1>3, <1>4, <1>5, <1>6

-----------------------------------------------------------------------------
(* One cycle.                                                              *)

(* The data bus in a cycle.                                                *)
Signals(gnt, rvalid, err) ==
  [gnt |-> gnt, rvalid |-> rvalid, err |-> err, rdata |-> Rdata(rvalid, err)]

(* The transaction of this cycle.                                          *)
NewPart == [half |-> Half, txn |-> Transaction]

(* The parts of a cycle.                                                   *)
LEMMA CycleParts ==
  ASSUME NEW gnt \in BOOLEAN, NEW rvalid \in BOOLEAN, NEW err \in BOOLEAN,
         Cycle(gnt, rvalid, err), NEW i, i = Signals(gnt, rvalid, err)
  PROVE  /\ i.gnt = gnt /\ i.rvalid = rvalid /\ i.err = err /\ i.rdata = Rdata(rvalid, err)
         /\ rvalid => bus # <<>>
         /\ Bus(i, LsuReq(i)) /\ PipeCycle(i) /\ Observe(i)
<1>1. i.gnt = gnt /\ i.rvalid = rvalid /\ i.err = err /\ i.rdata = Rdata(rvalid, err)
  BY DEF Signals
<1>2. QED
  BY <1>1 DEF Cycle, Signals

(* What the bus answers and grants.                                        *)
LEMMA BusFacts ==
  ASSUME NEW gnt \in BOOLEAN, NEW rvalid \in BOOLEAN, NEW err \in BOOLEAN,
         Cycle(gnt, rvalid, err), NEW i, i = Signals(gnt, rvalid, err)
  PROVE  /\ i.gnt = gnt /\ i.rvalid = rvalid /\ i.err = err /\ i.rdata = Rdata(rvalid, err)
         /\ rvalid => bus # <<>>
         /\ gnt => DataReq(LsuReq(i)) /\ ~DataPmpErr
         /\ bus' = (IF rvalid THEN Tail(bus) ELSE bus) \o (IF gnt THEN <<NewPart>> ELSE <<>>)
         /\ shown' = IF BusReq(LsuReq(i)) THEN [txn |-> Transaction, gnt |-> gnt] ELSE None
<1>1. /\ i.gnt = gnt /\ i.rvalid = rvalid /\ i.err = err /\ i.rdata = Rdata(rvalid, err)
      /\ rvalid => bus # <<>>
      /\ Bus(i, LsuReq(i)) /\ PipeCycle(i) /\ Observe(i)
  BY CycleParts
<1>2. QED
  BY <1>1 DEF Bus, BusReq, NewPart

(* The record of a cycle without a response to the access in progress.     *)
LEMMA RecordStep ==
  ASSUME NEW gnt \in BOOLEAN, NEW rvalid \in BOOLEAN, NEW err \in BOOLEAN,
         Cycle(gnt, rvalid, err), NEW i, i = Signals(gnt, rvalid, err),
         Responding(i) = None
  PROVE  /\ done' = None
         /\ record' = [granted |-> record.granted \o (IF gnt THEN <<NewPart>> ELSE <<>>),
                       refused |-> record.refused \cup
                                     (IF rvalid /\ err THEN {Head(bus).half} ELSE {})]
<1>1. /\ i.gnt = gnt /\ i.rvalid = rvalid /\ i.err = err /\ i.rdata = Rdata(rvalid, err)
      /\ rvalid => bus # <<>>
      /\ Bus(i, LsuReq(i)) /\ PipeCycle(i) /\ Observe(i)
  BY CycleParts
<1>2. QED
  BY <1>1 DEF Observe, PipeCycle, NewPart

(* The records of a cycle with the response to the access in progress.     *)
LEMMA ResponseStep ==
  ASSUME NEW gnt \in BOOLEAN, NEW rvalid \in BOOLEAN, NEW err \in BOOLEAN,
         Cycle(gnt, rvalid, err), NEW i, i = Signals(gnt, rvalid, err),
         Responding(i) # None
  PROVE  /\ done' = [access |-> Responding(i), err |-> LsuRespErr(i),
                     rf_we |-> LsuRdataValid(i), rdata |-> LsuRdata(i)]
         /\ record' = [granted |-> IF gnt THEN <<NewPart>> ELSE <<>>, refused |-> {}]
         /\ closed' = [record EXCEPT !.refused = record.refused \cup
                                     (IF rvalid /\ err THEN {Head(bus).half} ELSE {})]
<1>1. /\ i.gnt = gnt /\ i.rvalid = rvalid /\ i.err = err /\ i.rdata = Rdata(rvalid, err)
      /\ rvalid => bus # <<>>
      /\ Bus(i, LsuReq(i)) /\ PipeCycle(i) /\ Observe(i)
  BY CycleParts
<1>2. QED
  BY <1>1 DEF Observe, PipeCycle, NewPart

(* While the FSM is not idle, the access stays where it is.                *)
LEMMA BusyStep ==
  ASSUME Inv, NEW gnt \in BOOLEAN, NEW rvalid \in BOOLEAN, NEW err \in BOOLEAN,
         Cycle(gnt, rvalid, err), NEW i, i = Signals(gnt, rvalid, err),
         ls_fsm_cs # "IDLE"
  PROVE  /\ Responding(i) = None /\ done' = None /\ id \in Access
         /\ ls_fsm_cs' # "IDLE" => id' = id
         /\ ls_fsm_cs' = "IDLE" => Waiting' /\ Current' = id
<1>1. /\ BusMatchesFsm /\ LsuTypeOK /\ WritebackStage \in BOOLEAN
  BY PipelineAssumption DEF Inv, IInv, TypeOK
<1>2. ~LsuRespValid(i) /\ ~LsuRespErr(i)
  BY DEF LsuRespValid, LsuRespErr
<1>3. Responding(i) = None /\ done' = None
  BY <1>2, RecordStep DEF Responding
<1>4. id # None /\ id \in Access
  BY <1>1 DEF BusMatchesFsm, LsuTypeOK
<1>5. /\ WritebackStage /\ ls_fsm_cs' = "IDLE" => wb' = id
      /\ WritebackStage /\ ls_fsm_cs' # "IDLE" => id' = id
      /\ ~WritebackStage => id' = id /\ idMulti' = TRUE
  <2>1. IdWithWb(i) \/ IdWithoutWb(i)
    BY CycleParts DEF PipeCycle
  <2>2. QED
    BY <1>2, <1>4, <2>1 DEF IdWithWb, IdWithoutWb, LsuReqDone
<1>6. QED
  BY <1>1, <1>3, <1>4, <1>5 DEF Waiting, Current

(* The first half of a split access waits for its grant.                   *)
LEMMA WaitGntMisStep ==
  ASSUME Inv, NEW gnt \in BOOLEAN, NEW rvalid \in BOOLEAN, NEW err \in BOOLEAN,
         Cycle(gnt, rvalid, err), NEW i, i = Signals(gnt, rvalid, err),
         WaitGntMis(i)
  PROVE  Phases'
<1> DEFINE e == PartOf(id, 1)
<1>1. ls_fsm_cs = "WAIT_GNT_MIS"
  BY DEF WaitGntMis
<1>2. /\ Responding(i) = None /\ id \in Access
      /\ ls_fsm_cs' # "IDLE" => id' = id
  BY <1>1, BusyStep
<1>3. /\ ~handle_misaligned_q /\ ~lsu_err_q /\ bus = <<>> /\ record = NoRecord
      /\ pmp_err_q <=> First(id) \in Denied
      /\ IsSplit(id)
  BY <1>1 DEF Inv, Phases, FirstShown, IInv, BusMatchesFsm, IsSplit, Off
<1>4. ~AddrIncrReq
  BY <1>1 DEF AddrIncrReq
<1>5. /\ Half = 1 /\ DataAddr = id.addr /\ DataOffset = Off(id)
      /\ DataPmpErr <=> First(id) \in Denied
      /\ Transaction = TxnOf(id, 1)
  BY <1>2, <1>3, <1>4, SignalsFirst
<1>6. /\ i.gnt = gnt /\ i.rvalid = rvalid /\ ~rvalid /\ (gnt => ~DataPmpErr)
      /\ bus' = bus \o (IF gnt THEN <<e>> ELSE <<>>)
      /\ record' = [granted |-> record.granted \o (IF gnt THEN <<e>> ELSE <<>>),
                    refused |-> record.refused]
  <2>1. e = NewPart
    BY <1>5 DEF PartOf, NewPart
  <2> HIDE DEF e
  <2>2. ~rvalid
    BY <1>3, BusFacts
  <2>3. record.refused \cup {} = record.refused
    OBVIOUS
  <2>4. QED
    BY <1>2, <2>1, <2>2, <2>3, BusFacts, RecordStep, ZenonT(60)
<1>7. bus' = IF gnt THEN <<e>> ELSE <<>>
  BY <1>3, <1>6, Small
<1>8. record' = [granted |-> IF gnt THEN <<e>> ELSE <<>>, refused |-> {}]
  BY <1>3, <1>6, Small DEF NoRecord
<1>9. CASE gnt \/ pmp_err_q
  <2>1. /\ ls_fsm_cs' = "WAIT_RVALID_MIS" /\ handle_misaligned_q' = TRUE
        /\ pmp_err_q' = pmp_err_q /\ lsu_err_q' = lsu_err_q
        /\ ctrl_q' = CtrlOf(id) /\ addr_last_q' = id.addr
    BY <1>4, <1>5, <1>6, <1>9 DEF WaitGntMis, CtrlUpdate, AddrUpdate, CtrlOf
  <2>2. (IF gnt THEN <<e>> ELSE <<>>) = Asked(id, 1)
    BY <1>3, <1>5, <1>6, <1>9 DEF Asked, WordOf
  <2>3. QED
    BY <1>2, <1>3, <1>7, <1>8, <2>1, <2>2
       DEF Phases, NothingOut, InProgress, FirstShown, FirstOut, BothOut, SecondShown, LastOut
<1>10. CASE ~(gnt \/ pmp_err_q)
  <2>1. /\ ls_fsm_cs' = "WAIT_GNT_MIS" /\ handle_misaligned_q' = handle_misaligned_q
        /\ pmp_err_q' = pmp_err_q /\ lsu_err_q' = lsu_err_q
    BY <1>1, <1>6, <1>10 DEF WaitGntMis
  <2>2. QED
    BY <1>2, <1>3, <1>7, <1>8, <1>10, <2>1
       DEF Phases, NothingOut, InProgress, FirstShown, FirstOut, BothOut, SecondShown, LastOut,
           NoRecord
<1>11. QED
  BY <1>9, <1>10

(* How the last phase is reached: the state is idle, a in progress.        *)
LEMMA ToLastOut ==
  ASSUME NEW a, ls_fsm_cs' = "IDLE", Waiting', Current' = a,
         ctrl_q' = CtrlOf(a),
         ~IsSplit(a) =>
           /\ ~lsu_err_q' /\ (pmp_err_q' <=> First(a) \in Denied)
           /\ addr_last_q' = a.addr
           /\ bus' = Asked(a, 1)
           /\ record' = [granted |-> Asked(a, 1), refused |-> {}],
         IsSplit(a) =>
           /\ FirstAnswered(a)'
           /\ addr_last_q' = IF lsu_err_q' THEN a.addr ELSE 4 * Second(a)
           /\ bus' = Asked(a, 2)
           /\ record' = [granted |-> BothAsked(a), refused |-> record.refused']
  PROVE  Phases'
<1>1. NothingOut' /\ FirstShown' /\ FirstOut' /\ BothOut' /\ SecondShown'
  BY DEF NothingOut, InProgress, FirstShown, FirstOut, BothOut, SecondShown
<1>2. LastOut'
  BY DEF LastOut, FirstAnswered
<1>3. QED
  BY <1>1, <1>2 DEF Phases

(* The first half is on the bus or was refused, the second is shown.       *)
LEMMA WaitRvalidMisStep ==
  ASSUME Inv, NEW gnt \in BOOLEAN, NEW rvalid \in BOOLEAN, NEW err \in BOOLEAN,
         Cycle(gnt, rvalid, err), NEW i, i = Signals(gnt, rvalid, err),
         WaitRvalidMis(i), NEW a, a = id
  PROVE  Phases'
<1> DEFINE e == PartOf(a, 2)
           new == IF gnt THEN <<e>> ELSE <<>>
<1>1. ls_fsm_cs = "WAIT_RVALID_MIS"
  BY DEF WaitRvalidMis
<1>2. /\ Responding(i) = None /\ a \in Access
      /\ ls_fsm_cs' # "IDLE" => id' = a
      /\ ls_fsm_cs' = "IDLE" => Waiting' /\ Current' = a
  BY <1>1, BusyStep
<1>3. /\ handle_misaligned_q /\ ~lsu_err_q
      /\ pmp_err_q <=> First(a) \in Denied
      /\ addr_last_q = a.addr /\ ctrl_q = CtrlOf(a)
      /\ bus = Asked(a, 1) /\ record = [granted |-> Asked(a, 1), refused |-> {}]
      /\ IsSplit(a)
  BY <1>1 DEF Inv, Phases, FirstOut, IInv, BusMatchesFsm, IsSplit, Off
<1>4. AddrIncrReq
  BY <1>1 DEF AddrIncrReq
<1>5. /\ Half = 2 /\ DataAddrWAligned = 4 * Second(a)
      /\ DataPmpErr <=> Second(a) \in Denied
      /\ Transaction = TxnOf(a, 2)
  BY <1>2, <1>3, <1>4, SignalsSecond
<1>6. /\ i.gnt = gnt /\ i.rvalid = rvalid /\ i.err = err /\ i.rdata = Rdata(rvalid, err)
      /\ (gnt => Second(a) \notin Denied)
      /\ rvalid => bus # <<>>
      /\ bus' = (IF rvalid THEN Tail(bus) ELSE bus) \o new
      /\ record' = [granted |-> record.granted \o new,
                    refused |-> record.refused \cup
                                  (IF rvalid /\ err THEN {Head(bus).half} ELSE {})]
  <2>1. e = NewPart
    BY <1>5 DEF PartOf, NewPart
  <2> HIDE DEF e
  <2>2. gnt => ~DataPmpErr
    BY BusFacts
  <2>3. /\ i.gnt = gnt /\ i.rvalid = rvalid /\ i.err = err /\ i.rdata = Rdata(rvalid, err)
        /\ rvalid => bus # <<>>
    BY CycleParts
  <2>4. bus' = (IF rvalid THEN Tail(bus) ELSE bus) \o new
    BY <2>1, BusFacts, ZenonT(60)
  <2>5. record' = [granted |-> record.granted \o new,
                   refused |-> record.refused \cup
                                 (IF rvalid /\ err THEN {Head(bus).half} ELSE {})]
    BY <1>2, <2>1, RecordStep
  <2>6. QED
    BY <1>5, <2>2, <2>3, <2>4, <2>5
<1>7. rvalid => First(a) \notin Denied
  BY <1>3, <1>6 DEF Asked, WordOf
<1>8. First(a) \notin Denied => /\ bus = <<PartOf(a, 1)>> /\ Asked(a, 1) = <<PartOf(a, 1)>>
                                /\ Head(bus) = PartOf(a, 1) /\ Tail(bus) = <<>>
  <2>1. First(a) \notin Denied =>
           bus = <<PartOf(a, 1)>> /\ Asked(a, 1) = <<PartOf(a, 1)>>
    BY <1>3 DEF Asked, WordOf
  <2>2. QED
    BY <2>1, Small
<1>9. First(a) \in Denied => bus = <<>> /\ Asked(a, 1) = <<>>
  BY <1>3 DEF Asked, WordOf
<1>10. PartOf(a, 1).half = 1 /\ PartOf(a, 1).txn.word = First(a) /\ PartOf(a, 1).txn.we = a.we
  BY DEF PartOf, TxnOf, WordOf
<1>11. CASE rvalid \/ pmp_err_q
  <2>1. /\ pmp_err_q' = DataPmpErr /\ lsu_err_q' = (err \/ pmp_err_q)
        /\ RdataUpdate(i)
        /\ ls_fsm_cs' = IF gnt THEN "IDLE" ELSE "WAIT_GNT"
        /\ AddrUpdate(gnt /\ ~(err \/ pmp_err_q))
        /\ handle_misaligned_q' = ~gnt /\ ctrl_q' = CtrlOf(a)
    BY <1>3, <1>6, <1>11 DEF WaitRvalidMis
  <2>2. bus' = new
    <3>1. bus' = <<>> \o new
      BY <1>3, <1>6, <1>7, <1>8, <1>9, <1>11
    <3>2. QED
      BY <3>1, Small
  <2>3. record'.refused = IF rvalid /\ err THEN {1} ELSE {}
    BY <1>3, <1>6, <1>7, <1>8, <1>10
  <2>4. lsu_err_q' <=> First(a) \in Denied \/ 1 \in record'.refused
    <3>1. lsu_err_q' <=> err \/ pmp_err_q
      BY <2>1
    <3>2. CASE pmp_err_q
      BY <1>3, <3>1, <3>2
    <3>3. CASE ~pmp_err_q
      BY <1>3, <1>11, <2>3, <3>1, <3>3
    <3>4. QED
      BY <3>2, <3>3
  <2>5. ASSUME ~a.we, ~lsu_err_q', NEW k \in 1 .. 3
        PROVE  rdata_q'[k] = <<"mem", 4 * First(a) + k>>
    <3>1. rvalid /\ ~err
      BY <1>11, <2>1, <2>5
    <3>2. rdata_q'[k] = i.rdata[k]
      BY <1>3, <2>1, <2>5 DEF RdataUpdate, CtrlOf
    <3>3. i.rdata[k] = <<"mem", 4 * Head(bus).txn.word + k>>
      BY <1>6, <1>7, <1>8, <1>10, <2>5, <3>1 DEF Rdata
    <3>4. QED
      BY <1>7, <1>8, <1>10, <3>1, <3>2, <3>3
  <2>6. FirstAnswered(a)'
    BY <1>5, <2>1, <2>3, <2>4, <2>5 DEF FirstAnswered
  <2>7. CASE gnt
    <3>0. Second(a) \notin Denied
      BY <1>6, <2>7
    <3>1. bus' = Asked(a, 2)
      BY <2>2, <2>7, <3>0 DEF Asked, WordOf
    <3>2. Asked(a, 1) \o new = BothAsked(a)
      <4>1. CASE First(a) \in Denied
        BY <1>6, <1>9, <2>7, <4>1, Small DEF BothAsked, Asked, WordOf
      <4>2. CASE First(a) \notin Denied
        BY <1>6, <1>8, <2>7, <4>2, Small, ZenonT(60) DEF BothAsked
      <4>3. QED
        BY <4>1, <4>2
    <3>3. record' = [granted |-> BothAsked(a), refused |-> record'.refused]
      BY <1>3, <1>6, <3>2
    <3>4. addr_last_q' = IF lsu_err_q' THEN a.addr ELSE 4 * Second(a)
      BY <1>3, <1>4, <1>5, <2>1, <2>7 DEF AddrUpdate
    <3>5. QED
      BY <1>2, <1>3, <2>1, <2>6, <2>7, <3>1, <3>3, <3>4, ToLastOut
  <2>8. CASE ~gnt
    <3>1. Asked(a, 1) \o new = Asked(a, 1)
      BY <1>8, <1>9, <2>8, Small
    <3>2. /\ ls_fsm_cs' = "WAIT_GNT" /\ handle_misaligned_q' /\ id' = a
          /\ addr_last_q' = a.addr /\ ctrl_q' = CtrlOf(a) /\ bus' = <<>>
          /\ record' = [granted |-> Asked(a, 1), refused |-> record'.refused]
      BY <1>2, <1>3, <1>6, <2>1, <2>2, <2>8, <3>1 DEF AddrUpdate
    <3>3. SecondShown'
      BY <1>3, <2>6, <3>2 DEF SecondShown, FirstAnswered
    <3>4. QED
      BY <3>2, <3>3 DEF Phases, NothingOut, InProgress, FirstShown, FirstOut, BothOut, LastOut
  <2>9. QED
    BY <2>7, <2>8
<1>12. CASE ~(rvalid \/ pmp_err_q)
  <2>1. /\ pmp_err_q' = pmp_err_q /\ lsu_err_q' = lsu_err_q
        /\ ls_fsm_cs' = IF gnt THEN "WAIT_RVALID_MIS_GNTS_DONE" ELSE "WAIT_RVALID_MIS"
        /\ addr_last_q' = addr_last_q /\ ctrl_q' = ctrl_q
        /\ handle_misaligned_q' = (handle_misaligned_q /\ ~gnt)
    BY <1>1, <1>3, <1>6, <1>12 DEF WaitRvalidMis
  <2>2. First(a) \notin Denied
    BY <1>3, <1>12
  <2>3. bus' = <<PartOf(a, 1)>> \o new
    BY <1>6, <1>8, <1>12, <2>2
  <2>4. record' = [granted |-> <<PartOf(a, 1)>> \o new, refused |-> {}]
    BY <1>3, <1>6, <1>8, <1>12, <2>2
  <2>5. CASE gnt
    <3>1. <<PartOf(a, 1)>> \o new = <<PartOf(a, 1), PartOf(a, 2)>>
      BY <2>5, Small
    <3>2. QED
      BY <1>2, <1>3, <1>6, <2>1, <2>2, <2>3, <2>4, <2>5, <3>1
         DEF Phases, NothingOut, InProgress, FirstShown, FirstOut, BothOut, SecondShown, LastOut
  <2>6. CASE ~gnt
    <3>1. <<PartOf(a, 1)>> \o new = Asked(a, 1)
      BY <1>8, <2>2, <2>6, Small
    <3>2. handle_misaligned_q'
      BY <1>3, <2>1, <2>6
    <3>3. QED
      BY <1>2, <1>3, <1>6, <2>1, <2>2, <2>3, <2>4, <2>6, <3>1, <3>2
         DEF Phases, NothingOut, InProgress, FirstShown, FirstOut, BothOut, SecondShown, LastOut
  <2>7. QED
    BY <2>5, <2>6
<1>13. QED
  BY <1>11, <1>12

(* A whole access or the second half of one waits for its grant.           *)
LEMMA WaitGntStep ==
  ASSUME Inv, NEW gnt \in BOOLEAN, NEW rvalid \in BOOLEAN, NEW err \in BOOLEAN,
         Cycle(gnt, rvalid, err), NEW i, i = Signals(gnt, rvalid, err),
         WaitGnt(i), NEW a, a = id
  PROVE  Phases'
<1> DEFINE h == IF handle_misaligned_q THEN 2 ELSE 1
           e == PartOf(a, h)
           new == IF gnt THEN <<e>> ELSE <<>>
<1>1. ls_fsm_cs = "WAIT_GNT"
  BY DEF WaitGnt
<1>2. /\ Responding(i) = None /\ a \in Access
      /\ ls_fsm_cs' # "IDLE" => id' = a
      /\ ls_fsm_cs' = "IDLE" => Waiting' /\ Current' = a
  BY <1>1, BusyStep
<1>3. CASE ~handle_misaligned_q
  <2>1. /\ ~lsu_err_q /\ bus = <<>> /\ record = NoRecord
        /\ pmp_err_q <=> First(a) \in Denied
        /\ ~IsSplit(a)
    BY <1>1, <1>3 DEF Inv, Phases, FirstShown
  <2>2. ~AddrIncrReq
    BY <1>1, <1>3 DEF AddrIncrReq
  <2>3. /\ Half = 1 /\ DataAddr = a.addr /\ DataOffset = Off(a)
        /\ DataPmpErr <=> First(a) \in Denied
        /\ Transaction = TxnOf(a, 1)
    BY <1>2, <1>3, <2>2, SignalsFirst
  <2>4. i.gnt = gnt /\ i.rvalid = rvalid /\ ~rvalid /\ (gnt => First(a) \notin Denied)
    BY <2>1, <2>3, BusFacts
  <2>5. e = NewPart
    BY <1>3, <2>3 DEF PartOf, NewPart
  <2> HIDE DEF e
  <2>6. bus' = new
    BY <2>1, <2>4, <2>5, BusFacts, Small
  <2>7. record' = [granted |-> new, refused |-> {}]
    <3>1. record' = [granted |-> record.granted \o new, refused |-> record.refused \cup {}]
      BY <1>2, <2>4, <2>5, RecordStep
    <3>2. <<>> \o new = new
      BY Small
    <3>3. QED
      BY <2>1, <3>1, <3>2 DEF NoRecord
  <2>8. CASE gnt \/ pmp_err_q
    <3>1. /\ ls_fsm_cs' = "IDLE" /\ pmp_err_q' = pmp_err_q /\ lsu_err_q' = lsu_err_q
          /\ ctrl_q' = CtrlOf(a) /\ addr_last_q' = a.addr
      BY <2>1, <2>2, <2>3, <2>4, <2>8 DEF WaitGnt, CtrlUpdate, AddrUpdate, CtrlOf
    <3>2. new = Asked(a, 1)
      BY <1>3, <2>1, <2>4, <2>8 DEF Asked, WordOf, e
    <3>3. QED
      BY <1>2, <2>1, <2>6, <2>7, <3>1, <3>2, ToLastOut
  <2>9. CASE ~(gnt \/ pmp_err_q)
    <3>1. /\ ls_fsm_cs' = "WAIT_GNT" /\ handle_misaligned_q' = handle_misaligned_q
          /\ pmp_err_q' = pmp_err_q /\ lsu_err_q' = lsu_err_q
      BY <1>1, <2>4, <2>9 DEF WaitGnt
    <3>2. QED
      BY <1>2, <1>3, <2>1, <2>6, <2>7, <2>9, <3>1
         DEF Phases, NothingOut, InProgress, FirstShown, FirstOut, BothOut, SecondShown, LastOut,
             NoRecord
  <2>10. QED
    BY <2>8, <2>9
<1>4. CASE handle_misaligned_q
  <2>1. /\ IsSplit(a) /\ FirstAnswered(a)
        /\ addr_last_q = a.addr /\ ctrl_q = CtrlOf(a)
        /\ bus = <<>>
        /\ record = [granted |-> Asked(a, 1), refused |-> record.refused]
    BY <1>1, <1>4 DEF Inv, Phases, SecondShown
  <2>2. AddrIncrReq
    BY <1>1, <1>4 DEF AddrIncrReq
  <2>3. /\ Half = 2 /\ DataOffset = Off(a) /\ DataAddrWAligned = 4 * Second(a)
        /\ DataPmpErr <=> Second(a) \in Denied
        /\ Transaction = TxnOf(a, 2)
    BY <1>2, <1>4, <2>1, <2>2, SignalsSecond
  <2>4. i.gnt = gnt /\ i.rvalid = rvalid /\ ~rvalid /\ (gnt => Second(a) \notin Denied)
    BY <2>1, <2>3, BusFacts
  <2>5. e = NewPart
    BY <1>4, <2>3 DEF PartOf, NewPart
  <2>a. pmp_err_q <=> Second(a) \in Denied
    BY <2>1 DEF FirstAnswered
  <2> HIDE DEF e
  <2>6. bus' = new
    BY <2>1, <2>4, <2>5, BusFacts, Small
  <2>7. record' = [granted |-> Asked(a, 1) \o new, refused |-> record.refused]
    <3>1. record' = [granted |-> record.granted \o new, refused |-> record.refused \cup {}]
      BY <1>2, <2>4, <2>5, RecordStep
    <3>2. record.granted = Asked(a, 1) /\ record.refused \cup {} = record.refused
      BY <2>1
    <3>3. QED
      BY <3>1, <3>2
  <2>b. record'.refused = record.refused
    BY <2>7
  <2>c. /\ lsu_err_q' = lsu_err_q /\ pmp_err_q' = pmp_err_q /\ rdata_q' = rdata_q
    BY DEF WaitGnt
  <2>d. FirstAnswered(a)'
    BY <2>1, <2>b, <2>c DEF FirstAnswered
  <2>8. CASE gnt \/ pmp_err_q
    <3>1. /\ ls_fsm_cs' = "IDLE"
          /\ ctrl_q' = CtrlOf(a)
          /\ addr_last_q' = IF lsu_err_q' THEN a.addr ELSE 4 * Second(a)
      BY <2>1, <2>2, <2>3, <2>4, <2>8, <2>c DEF WaitGnt, CtrlUpdate, AddrUpdate, CtrlOf
    <3>2. new = Asked(a, 2)
      BY <1>4, <2>4, <2>8, <2>a DEF Asked, WordOf, e
    <3>3. Asked(a, 1) \o Asked(a, 2) = BothAsked(a)
      <4> DEFINE p == PartOf(a, 1)
                 q == PartOf(a, 2)
      <4>1. /\ Asked(a, 1) = IF First(a) \in Denied THEN <<>> ELSE <<p>>
            /\ Asked(a, 2) = IF Second(a) \in Denied THEN <<>> ELSE <<q>>
            /\ BothAsked(a) = IF First(a) \in Denied THEN Asked(a, 2)
                              ELSE IF Second(a) \in Denied THEN <<p>> ELSE <<p, q>>
        BY DEF Asked, BothAsked, WordOf
      <4> HIDE DEF p, q
      <4>2. QED
        BY <4>1, Small, ZenonT(60)
    <3>4. QED
      BY <1>2, <2>1, <2>6, <2>7, <2>b, <2>d, <3>1, <3>2, <3>3, ToLastOut
  <2>9. CASE ~(gnt \/ pmp_err_q)
    <3>1. /\ ls_fsm_cs' = "WAIT_GNT" /\ handle_misaligned_q' = handle_misaligned_q
          /\ addr_last_q' = addr_last_q /\ ctrl_q' = ctrl_q
      BY <1>1, <2>4, <2>9 DEF WaitGnt
    <3>2. Asked(a, 1) \o new = Asked(a, 1)
      BY <2>9, Small DEF Asked
    <3>3. SecondShown'
      BY <1>2, <2>1, <2>6, <2>7, <2>9, <2>b, <2>d, <3>1, <3>2 DEF SecondShown, FirstAnswered
    <3>4. QED
      BY <1>4, <3>1, <3>3
         DEF Phases, NothingOut, InProgress, FirstShown, FirstOut, BothOut, LastOut
  <2>10. QED
    BY <2>8, <2>9
<1>5. QED
  BY <1>3, <1>4

(* Both halves are on the bus.                                             *)
LEMMA GntsDoneStep ==
  ASSUME Inv, NEW gnt \in BOOLEAN, NEW rvalid \in BOOLEAN, NEW err \in BOOLEAN,
         Cycle(gnt, rvalid, err), NEW i, i = Signals(gnt, rvalid, err),
         WaitRvalidMisGntsDone(i), NEW a, a = id
  PROVE  Phases'
<1> DEFINE p == PartOf(a, 1)
           q == PartOf(a, 2)
<1>1. ls_fsm_cs = "WAIT_RVALID_MIS_GNTS_DONE"
  BY DEF WaitRvalidMisGntsDone
<1>2. /\ Responding(i) = None /\ a \in Access
      /\ ls_fsm_cs' # "IDLE" => id' = a
      /\ ls_fsm_cs' = "IDLE" => Waiting' /\ Current' = a
  BY <1>1, BusyStep
<1>3. /\ ~lsu_err_q
      /\ First(a) \notin Denied /\ Second(a) \notin Denied
      /\ addr_last_q = a.addr /\ ctrl_q = CtrlOf(a)
      /\ bus = <<p, q>>
      /\ record = [granted |-> <<p, q>>, refused |-> {}]
      /\ IsSplit(a)
  BY <1>1 DEF Inv, Phases, BothOut, IInv, BusMatchesFsm, IsSplit, Off
<1>4. AddrIncrReq
  BY <1>1 DEF AddrIncrReq
<1>5. DataAddrWAligned = 4 * Second(a) /\ (DataPmpErr <=> Second(a) \in Denied)
  BY <1>2, <1>3, <1>4, SignalsSecond
<1>6. ~gnt
  BY <1>1, BusFacts DEF DataReq
<1>7. /\ p.half = 1 /\ p.txn.word = First(a) /\ p.txn.we = a.we
  BY DEF PartOf, TxnOf, WordOf
<1>8. Asked(a, 2) = <<q>> /\ BothAsked(a) = <<p, q>>
  BY <1>3 DEF Asked, BothAsked, WordOf
<1> HIDE DEF p, q
<1>9. /\ Head(bus) = p /\ Tail(bus) = <<q>>
      /\ <<p, q>> \o <<>> = <<p, q>> /\ <<q>> \o <<>> = <<q>>
  <2>1. <<p, q>> \in Seq({p, q}) /\ <<q>> \in Seq({p, q})
    OBVIOUS
  <2>2. <<p, q>> \o <<>> = <<p, q>> /\ <<q>> \o <<>> = <<q>>
    BY <2>1, ConcatEmptySeq
  <2>3. QED
    BY <1>3, <2>2, Small
<1>10. /\ i.gnt = gnt /\ i.rvalid = rvalid /\ i.err = err /\ i.rdata = Rdata(rvalid, err)
  BY CycleParts
<1>11. bus' = IF rvalid THEN <<q>> ELSE <<p, q>>
  BY <1>3, <1>6, <1>9, BusFacts
<1>12. record' = [granted |-> <<p, q>>, refused |-> IF rvalid /\ err THEN {1} ELSE {}]
  <2>1. record' = [granted |-> record.granted \o <<>>,
                   refused |-> record.refused \cup
                                 (IF rvalid /\ err THEN {Head(bus).half} ELSE {})]
    BY <1>2, <1>6, RecordStep
  <2>2. QED
    BY <1>3, <1>7, <1>9, <2>1
<1>13. CASE rvalid
  <2>1. /\ pmp_err_q' = DataPmpErr /\ lsu_err_q' = err
        /\ RdataUpdate(i) /\ AddrUpdate(~err)
        /\ ls_fsm_cs' = "IDLE" /\ ctrl_q' = CtrlOf(a)
    BY <1>3, <1>10, <1>13 DEF WaitRvalidMisGntsDone
  <2>2. ASSUME ~a.we, ~lsu_err_q', NEW k \in 1 .. 3
        PROVE  rdata_q'[k] = <<"mem", 4 * First(a) + k>>
    <3>1. ~err
      BY <2>1, <2>2
    <3>2. rdata_q'[k] = i.rdata[k]
      BY <1>3, <2>1, <2>2 DEF RdataUpdate, CtrlOf
    <3>3. i.rdata[k] = <<"mem", 4 * Head(bus).txn.word + k>>
      BY <1>7, <1>9, <1>10, <1>13, <2>2, <3>1 DEF Rdata
    <3>4. QED
      BY <1>7, <1>9, <3>2, <3>3
  <2>3. record'.refused = IF err THEN {1} ELSE {}
    BY <1>12, <1>13
  <2>4. FirstAnswered(a)'
    BY <1>3, <1>5, <2>1, <2>2, <2>3 DEF FirstAnswered
  <2>5. addr_last_q' = IF lsu_err_q' THEN a.addr ELSE 4 * Second(a)
    BY <1>3, <1>4, <1>5, <2>1 DEF AddrUpdate
  <2>6. record' = [granted |-> BothAsked(a), refused |-> record'.refused]
    BY <1>8, <1>12
  <2>7. QED
    BY <1>2, <1>3, <1>8, <1>11, <1>13, <2>1, <2>4, <2>5, <2>6, ToLastOut
<1>14. CASE ~rvalid
  <2>1. /\ pmp_err_q' = pmp_err_q /\ lsu_err_q' = lsu_err_q
        /\ addr_last_q' = addr_last_q /\ ctrl_q' = ctrl_q
        /\ ls_fsm_cs' = ls_fsm_cs
    BY <1>10, <1>14 DEF WaitRvalidMisGntsDone
  <2>2. BothOut'
    BY <1>1, <1>2, <1>3, <1>11, <1>12, <1>14, <2>1 DEF BothOut, p, q
  <2>3. QED
    BY <1>1, <2>1, <2>2 DEF Phases, NothingOut, InProgress, FirstShown, FirstOut, SecondShown, LastOut
<1>15. QED
  BY <1>13, <1>14

(* What the answer to the last transaction of an access leaves on the bus. *)
LEMMA LastAnswer ==
  ASSUME Inv, ls_fsm_cs = "IDLE", Waiting
  PROVE  /\ Current \in Access /\ Current # None
         /\ pmp_err_q => bus = <<>>
         /\ ~pmp_err_q => /\ bus = <<PartOf(Current, IF IsSplit(Current) THEN 2 ELSE 1)>>
                          /\ Tail(bus) = <<>> /\ bus \o <<>> = bus
                          /\ Head(bus) = PartOf(Current, IF IsSplit(Current) THEN 2 ELSE 1)
<1>1. Current \in Access /\ Current # None
  BY DEF Inv, TypeOK, LsuTypeOK, Waiting, Current
<1>2. LastOut
  BY DEF Inv, Phases
<1>3. /\ pmp_err_q => bus = <<>>
      /\ ~pmp_err_q => bus = <<PartOf(Current, IF IsSplit(Current) THEN 2 ELSE 1)>>
  <2>1. CASE IsSplit(Current)
    BY <1>2, <2>1 DEF LastOut, FirstAnswered, Asked, WordOf
  <2>2. CASE ~IsSplit(Current)
    BY <1>2, <2>2 DEF LastOut, Asked, WordOf
  <2>3. QED
    BY <2>1, <2>2
<1>4. QED
  BY <1>1, <1>3, Small

(* Nothing is requested.                                                   *)
LEMMA IdleNoReqStep ==
  ASSUME Inv, NEW gnt \in BOOLEAN, NEW rvalid \in BOOLEAN, NEW err \in BOOLEAN,
         Cycle(gnt, rvalid, err), NEW i, i = Signals(gnt, rvalid, err),
         IdleNoReq(LsuReq(i), i), NEW a, a = Current
  PROVE  Phases'
<1>1. /\ ls_fsm_cs = "IDLE" /\ ls_fsm_cs' = "IDLE" /\ ~LsuReq(i) /\ pmp_err_q' = FALSE
      /\ lsu_err_q' = lsu_err_q /\ addr_last_q' = addr_last_q /\ ctrl_q' = ctrl_q
      /\ rdata_q' = rdata_q
  BY DEF IdleNoReq
<1>2. ~gnt
  BY <1>1, BusFacts, ZenonT(60) DEF DataReq
<1>3. i.gnt = gnt /\ i.rvalid = rvalid /\ (rvalid => bus # <<>>)
  BY CycleParts
<1>4. bus' = (IF rvalid THEN Tail(bus) ELSE bus) \o <<>>
  BY <1>2, BusFacts
<1>5. WritebackStage \in BOOLEAN /\ BusMatchesFsm /\ Phases
  BY PipelineAssumption DEF Inv, IInv
<1>6. LsuRespValid(i) <=> rvalid \/ pmp_err_q
  BY <1>1, <1>3 DEF LsuRespValid
<1>7. /\ WritebackStage => wb' = IF LsuRespValid(i) THEN None ELSE wb
      /\ ~WritebackStage /\ id # None /\ idMulti /\ ~LsuRespValid(i) => id' = id /\ idMulti'
      /\ ~WritebackStage /\ id # None /\ idMulti /\ LsuRespValid(i) => ~idMulti'
      /\ ~WritebackStage /\ id = None => ~idMulti'
  <2>1. IdWithWb(i) \/ IdWithoutWb(i)
    BY CycleParts DEF PipeCycle
  <2>2. QED
    BY <1>1, <2>1 DEF IdWithWb, IdWithoutWb, LsuReqDone
<1>8. CASE Waiting /\ LsuRespValid(i)
  <2>1. ~Waiting'
    BY <1>5, <1>7, <1>8 DEF Waiting
  <2>2. Responding(i) # None
    BY <1>8 DEF Responding, Waiting
  <2>3. record' = NoRecord
    BY <1>2, <2>2, ResponseStep DEF NoRecord
  <2>4. bus' = <<>>
    <3>1. CASE pmp_err_q
      <4>1. bus = <<>>
        BY <1>1, <1>8, <3>1, LastAnswer
      <4>2. QED
        BY <1>3, <1>4, <4>1, Small
    <3>2. CASE ~pmp_err_q
      <4>1. Tail(bus) = <<>>
        BY <1>1, <1>8, <3>2, LastAnswer
      <4>2. QED
        BY <1>4, <1>6, <1>8, <3>2, <4>1, Small
    <3>3. QED
      BY <3>1, <3>2
  <2>5. QED
    BY <1>1, <2>1, <2>3, <2>4
       DEF Phases, NothingOut, FirstShown, FirstOut, BothOut, SecondShown, LastOut
<1>9. CASE Waiting /\ ~LsuRespValid(i)
  <2>1. Waiting' /\ Current' = a
    BY <1>1, <1>5, <1>7, <1>9 DEF Waiting, Current
  <2>2. Responding(i) = None
    BY <1>9 DEF Responding
  <2>3. ~rvalid /\ ~pmp_err_q
    BY <1>6, <1>9
  <2>4. bus' = bus
    BY <1>1, <1>4, <1>9, <2>3, LastAnswer
  <2>5. record' = record
    <3>1. record' = [granted |-> record.granted \o <<>>, refused |-> record.refused \cup {}]
      BY <1>2, <2>2, <2>3, RecordStep
    <3>2. record = [granted |-> record.granted, refused |-> record.refused]
          /\ record.granted \o <<>> = record.granted
      <4>1. /\ record = [granted |-> record.granted, refused |-> record.refused]
            /\ record.granted = Asked(a, 1) \/ record.granted = BothAsked(a)
        BY <1>1, <1>5, <1>9 DEF Phases, LastOut
      <4>2. \E S : record.granted \in Seq(S)
        <5> DEFINE p == PartOf(a, 1)
                   q == PartOf(a, 2)
        <5>1. record.granted \in {<<>>, <<p>>, <<q>>, <<p, q>>}
          BY <4>1 DEF Asked, BothAsked, WordOf
        <5> HIDE DEF p, q
        <5>2. <<>> \in Seq({p, q}) /\ <<p>> \in Seq({p, q}) /\ <<q>> \in Seq({p, q})
              /\ <<p, q>> \in Seq({p, q})
          OBVIOUS
        <5>3. record.granted \in Seq({p, q})
          BY <5>1, <5>2
        <5>4. QED
          BY <5>3
      <4>3. QED
        BY <4>1, <4>2, ConcatEmptySeq
    <3>3. QED
      BY <3>1, <3>2
  <2>6. LastOut
    BY <1>5 DEF Phases
  <2>7. /\ ctrl_q' = CtrlOf(a)
        /\ ~IsSplit(a) =>
             /\ ~lsu_err_q' /\ (pmp_err_q' <=> First(a) \in Denied)
             /\ addr_last_q' = a.addr
             /\ bus' = Asked(a, 1)
             /\ record' = [granted |-> Asked(a, 1), refused |-> {}]
        /\ IsSplit(a) =>
             /\ FirstAnswered(a)'
             /\ addr_last_q' = IF lsu_err_q' THEN a.addr ELSE 4 * Second(a)
             /\ bus' = Asked(a, 2)
             /\ record' = [granted |-> BothAsked(a), refused |-> record'.refused]
    BY <1>1, <1>9, <2>3, <2>4, <2>5, <2>6 DEF LastOut, FirstAnswered
  <2>8. QED
    BY <1>1, <2>1, <2>7, ToLastOut
<1>10. CASE ~Waiting
  <2>1. bus = <<>> /\ record = NoRecord /\ ~pmp_err_q /\ ~rvalid
    BY <1>1, <1>3, <1>5, <1>10 DEF Phases, NothingOut, InProgress, BusMatchesFsm
  <2>2. Responding(i) = None /\ ~LsuRespValid(i)
    BY <1>6, <2>1 DEF Responding
  <2>3. ~Waiting'
    <3>1. ~WritebackStage => id = None
      BY <1>1, <1>10 DEF Waiting, LsuReq
    <3>2. QED
      BY <1>5, <1>7, <1>10, <2>2, <3>1 DEF Waiting
  <2>4. bus' = <<>>
    BY <1>4, <2>1, Small
  <2>5. record' = NoRecord
    <3>1. record' = [granted |-> record.granted \o <<>>, refused |-> record.refused \cup {}]
      BY <1>2, <2>1, <2>2, RecordStep
    <3>2. QED
      BY <2>1, <3>1, Small DEF NoRecord
  <2>6. QED
    BY <1>1, <2>3, <2>4, <2>5
       DEF Phases, NothingOut, FirstShown, FirstOut, BothOut, SecondShown, LastOut
<1>11. QED
  BY <1>8, <1>9, <1>10

(* A new access is requested, alone or in the cycle of the last response.  *)
LEMMA IdleReqStep ==
  ASSUME Inv, NEW gnt \in BOOLEAN, NEW rvalid \in BOOLEAN, NEW err \in BOOLEAN,
         Cycle(gnt, rvalid, err), NEW i, i = Signals(gnt, rvalid, err),
         IdleReq(LsuReq(i), i), NEW a, a = id
  PROVE  Phases'
<1> DEFINE e == PartOf(a, 1)
           new == IF gnt THEN <<e>> ELSE <<>>
<1>1. ls_fsm_cs = "IDLE" /\ LsuReq(i)
  BY DEF IdleReq
<1>2. WritebackStage \in BOOLEAN /\ BusMatchesFsm /\ Phases /\ LsuTypeOK
  BY PipelineAssumption DEF Inv, IInv, TypeOK
<1>3. a # None /\ a \in Access /\ ~handle_misaligned_q /\ ~AddrIncrReq
  BY <1>1, <1>2 DEF LsuReq, LsuTypeOK, BusMatchesFsm, AddrIncrReq
<1>4. /\ Half = 1 /\ DataAddr = a.addr /\ DataOffset = Off(a)
      /\ DataPmpErr <=> First(a) \in Denied
      /\ SplitMisalignedAccess <=> IsSplit(a)
      /\ Transaction = TxnOf(a, 1)
  BY <1>3, SignalsFirst
<1>5. /\ i.gnt = gnt /\ i.rvalid = rvalid /\ i.err = err /\ (rvalid => bus # <<>>)
  BY CycleParts
<1>6. gnt => First(a) \notin Denied
  BY <1>4, BusFacts
<1>7. e = NewPart
  BY <1>4 DEF PartOf, NewPart
<1>8. new = IF gnt THEN <<NewPart>> ELSE <<>>
  BY <1>7
<1>9. bus' = new /\ record' = [granted |-> new, refused |-> {}]
  <2> HIDE DEF new
  <2>0. <<>> \o new = new
    BY Small DEF new
  <2>1. CASE Waiting
    <3>1. LsuRespValid(i) /\ ~LsuRespErr(i) /\ WritebackStage
      BY <1>1, <1>2, <2>1 DEF Waiting, LsuReq, OutstandingMemoryAccess
    <3>2. rvalid /\ ~pmp_err_q
      BY <1>5, <3>1 DEF LsuRespValid, LsuRespErr, DataOrPmpErr
    <3>3. Tail(bus) = <<>>
      BY <1>1, <2>1, <3>2, LastAnswer
    <3>4. Responding(i) # None
      BY <2>1, <3>1 DEF Responding, Waiting
    <3>5. bus' = Tail(bus) \o new
      BY <1>8, <3>2, BusFacts, ZenonT(60)
    <3>6. record' = [granted |-> new, refused |-> {}]
      BY <1>8, <3>4, ResponseStep
    <3>7. QED
      BY <2>0, <3>3, <3>5, <3>6
  <2>2. CASE ~Waiting
    <3>1. bus = <<>> /\ record = NoRecord /\ ~pmp_err_q /\ ~rvalid
      BY <1>1, <1>2, <1>5, <2>2 DEF Phases, NothingOut, InProgress, BusMatchesFsm
    <3>2. Responding(i) = None
      BY <1>5, <3>1 DEF Responding, LsuRespValid
    <3>3. bus' = bus \o new
      BY <1>8, <3>1, BusFacts
    <3>4. record' = [granted |-> record.granted \o new, refused |-> record.refused \cup {}]
      BY <1>8, <3>1, <3>2, RecordStep
    <3>5. QED
      BY <2>0, <3>1, <3>3, <3>4 DEF NoRecord
  <2>3. QED
    BY <2>1, <2>2
<1>10. /\ WritebackStage /\ ls_fsm_cs' = "IDLE" => wb' = a
       /\ WritebackStage /\ ls_fsm_cs' # "IDLE" => id' = a
       /\ ~WritebackStage => id' = a /\ idMulti' = TRUE
  <2>1. IdWithWb(i) \/ IdWithoutWb(i)
    BY CycleParts DEF PipeCycle
  <2>2. WritebackStage => ~LsuRespErr(i)
    BY <1>1 DEF LsuReq
  <2>3. ~WritebackStage => ~idMulti
    BY <1>1 DEF LsuReq
  <2>4. QED
    BY <1>1, <1>3, <2>1, <2>2, <2>3 DEF IdWithWb, IdWithoutWb, LsuReqDone
<1>11. ls_fsm_cs' # "IDLE" => id' = a
  BY <1>2, <1>10
<1>12. ls_fsm_cs' = "IDLE" => Waiting' /\ Current' = a
  BY <1>2, <1>3, <1>10 DEF Waiting, Current
<1>13. pmp_err_q' = DataPmpErr /\ lsu_err_q' = FALSE
  BY DEF IdleReq
<1>14. CASE gnt
  <2>1. /\ ctrl_q' = CtrlOf(a) /\ addr_last_q' = a.addr
        /\ handle_misaligned_q' = SplitMisalignedAccess
        /\ ls_fsm_cs' = IF SplitMisalignedAccess THEN "WAIT_RVALID_MIS" ELSE "IDLE"
    BY <1>3, <1>4, <1>5, <1>14 DEF IdleReq, CtrlUpdate, AddrUpdate, CtrlOf
  <2>2. new = Asked(a, 1)
    BY <1>6, <1>14 DEF Asked, WordOf
  <2> HIDE DEF new
  <2>3. CASE IsSplit(a)
    <3>1. ls_fsm_cs' = "WAIT_RVALID_MIS" /\ handle_misaligned_q'
      BY <1>4, <2>1, <2>3
    <3>2. QED
      BY <1>4, <1>9, <1>11, <1>13, <2>1, <2>2, <3>1
         DEF Phases, NothingOut, InProgress, FirstShown, FirstOut, BothOut, SecondShown, LastOut
  <2>4. CASE ~IsSplit(a)
    <3>1. ls_fsm_cs' = "IDLE"
      BY <1>4, <2>1, <2>4
    <3>2. QED
      BY <1>4, <1>9, <1>12, <1>13, <2>1, <2>2, <2>4, <3>1, ToLastOut
  <2>5. QED
    BY <2>3, <2>4
<1>15. CASE ~gnt
  <2>1. /\ handle_misaligned_q' = handle_misaligned_q
        /\ ls_fsm_cs' = IF SplitMisalignedAccess THEN "WAIT_GNT_MIS" ELSE "WAIT_GNT"
    BY <1>5, <1>15 DEF IdleReq
  <2>2. ls_fsm_cs' = "WAIT_GNT" => ~IsSplit(a)
    BY <1>4, <2>1
  <2>3. FirstShown'
    BY <1>3, <1>4, <1>9, <1>11, <1>13, <1>15, <2>1, <2>2 DEF FirstShown, NoRecord
  <2>4. QED
    BY <1>3, <2>1, <2>3
       DEF Phases, NothingOut, InProgress, FirstOut, BothOut, SecondShown, LastOut
<1>16. QED
  BY <1>14, <1>15

-----------------------------------------------------------------------------
(* What the halves of an access read and write.                            *)

(* The byte addresses of an access, in its first and its second word.      *)
LEMMA ByteAt ==
  ASSUME NEW a \in Access, NEW k \in 0 .. 3
  PROVE  /\ Off(a) + k <= 3 => (a.addr + k) % (4 * Words) = 4 * First(a) + (Off(a) + k)
         /\ ~(Off(a) + k <= 3) =>
              (a.addr + k) % (4 * Words) = 4 * Second(a) + (Off(a) + k - 4)
         /\ (a.addr + k) % (4 * Words) \in Addr
<1>1. Words \in Nat \ {0} /\ a.addr \in 0 .. 4 * Words - 1
  BY LsuAssumption, AccessFields
<1>2. /\ First(a) \in 0 .. Words - 1 /\ Off(a) \in 0 .. 3 /\ a.addr = 4 * First(a) + Off(a)
  BY AccessFields
<1>3. Second(a) = IF First(a) + 1 = Words THEN 0 ELSE First(a) + 1
  BY <1>1, ByteAddr DEF First, Second
<1>4. (a.addr + k) % (4 * Words) =
        IF a.addr + k < 4 * Words THEN a.addr + k ELSE a.addr + k - 4 * Words
  <2>1. k \in 0 .. 4
    OBVIOUS
  <2>2. QED
    BY <1>1, <2>1, ByteAddr, Zenon
<1>5. PICK f : f = First(a)
  OBVIOUS
<1>6. PICK o : o = Off(a)
  OBVIOUS
<1>7. PICK b : b = (a.addr + k) % (4 * Words)
  OBVIOUS
<1>8. PICK s : s = Second(a)
  OBVIOUS
<1>9. /\ f \in 0 .. Words - 1 /\ o \in 0 .. 3 /\ s = IF f + 1 = Words THEN 0 ELSE f + 1
      /\ b = IF 4 * f + o + k < 4 * Words THEN 4 * f + o + k ELSE 4 * f + o + k - 4 * Words
  BY <1>2, <1>3, <1>4, <1>5, <1>6, <1>7, <1>8
<1>10. /\ o + k <= 3 => b = 4 * f + (o + k)
       /\ ~(o + k <= 3) => b = 4 * s + (o + k - 4)
       /\ b \in 0 .. 4 * Words - 1
  BY <1>1, <1>9
<1>11. QED
  BY <1>5, <1>6, <1>7, <1>8, <1>10, Zenon DEF Addr

(* SizeOf, by type.                                                        *)
LEMMA Sizes ==
  ASSUME NEW a \in Access
  PROVE  /\ a.type = "word" => SizeOf(a) = 4
         /\ a.type = "half" => SizeOf(a) = 2
         /\ a.type = "byte" => SizeOf(a) = 1
         /\ a.type \in {"word", "half", "byte"}
  BY AccessFields DEF SizeOf, Types

(* What a load must produce from a memory, byte by byte.                   *)
LEMMA LoadedBytes ==
  ASSUME NEW a \in Access, NEW m
  PROVE  Loaded(a, m) =
           [k \in 0 .. 3 |->
              IF k <= SizeOf(a) - 1 THEN m[(a.addr + k) % (4 * Words)]
              ELSE IF a.sign
              THEN Sign(m[(a.addr + (SizeOf(a) - 1)) % (4 * Words)]) ELSE Zero]
<1>1. SizeOf(a) \in {1, 2, 4}
  BY Sizes
<1>2. ASSUME NEW k \in 0 .. SizeOf(a) - 1
      PROVE  BytesOf(a)[k] = (a.addr + k) % (4 * Words)
  BY DEF BytesOf
<1>3. SizeOf(a) - 1 \in 0 .. SizeOf(a) - 1
  BY <1>1
<1>4. ASSUME NEW k \in 0 .. 3, k <= SizeOf(a) - 1
      PROVE  k \in 0 .. SizeOf(a) - 1
  BY <1>1, <1>4
<1>5. QED
  BY <1>2, <1>3, <1>4 DEF Loaded

(* The bytes of a memory no store has changed.                             *)
LEMMA FreshBytes ==
  \A w \in 0 .. Words - 1 : \A k \in 0 .. 3 : FreshMem[4 * w + k] = <<"mem", 4 * w + k>>
<1> SUFFICES ASSUME NEW w \in 0 .. Words - 1, NEW k \in 0 .. 3
             PROVE  FreshMem[4 * w + k] = <<"mem", 4 * w + k>>
  OBVIOUS
<1>1. 4 * w + k \in Addr
  BY LsuAssumption DEF Addr
<1>2. QED
  BY <1>1 DEF FreshMem

(* lsu_rdata_o, from the word on the bus and the bytes kept in rdata_q.    *)
LEMMA RdataCorrect ==
  ASSUME NEW a \in Access, ctrl_q = CtrlOf(a), NEW i, NEW m,
         \A k \in 0 .. 3 :
           i.rdata[k] = m[4 * (IF IsSplit(a) THEN Second(a) ELSE First(a)) + k],
         IsSplit(a) => \A k \in 1 .. 3 : rdata_q[k] = m[4 * First(a) + k]
  PROVE  LsuRdata(i) = Loaded(a, m)
<1> DEFINE off == Off(a)
           byte(j) == m[(a.addr + j) % (4 * Words)]
           split(j) == IF off + j <= 3 THEN rdata_q[off + j] ELSE i.rdata[off + j - 4]
<1>1. off \in 0 .. 3 /\ ctrl_q.offset = off /\ ctrl_q.type = a.type /\ ctrl_q.sign = a.sign
  BY AccessFields DEF CtrlOf
<1>2. ASSUME ~IsSplit(a), NEW j \in 0 .. 3, off + j <= 3
      PROVE  i.rdata[off + j] = byte(j)
  <2>1. off + j \in 0 .. 3
    BY <1>1, <1>2
  <2>2. (a.addr + j) % (4 * Words) = 4 * First(a) + (off + j)
    BY <1>2, ByteAt
  <2>3. QED
    BY <1>2, <2>1, <2>2
<1>3. ASSUME IsSplit(a), off # 0, NEW j \in 0 .. 3
      PROVE  split(j) = byte(j)
  <2>1. CASE off + j <= 3
    <3>1. off + j \in 1 .. 3
      BY <1>1, <1>3, <2>1
    <3>2. (a.addr + j) % (4 * Words) = 4 * First(a) + (off + j)
      BY <2>1, ByteAt
    <3>3. QED
      BY <1>3, <2>1, <3>1, <3>2
  <2>2. CASE ~(off + j <= 3)
    <3>1. off + j - 4 \in 0 .. 3
      BY <1>1, <2>2
    <3>2. (a.addr + j) % (4 * Words) = 4 * Second(a) + (off + j - 4)
      BY <2>2, ByteAt
    <3>3. QED
      BY <1>3, <2>2, <3>1, <3>2
  <2>3. QED
    BY <2>1, <2>2
<1>4. LsuRdata(i) =
        CASE a.type = "word" ->
               [j \in 0 .. 3 |-> IF off = 0 THEN i.rdata[off + j] ELSE split(j)]
          [] a.type = "half" ->
               LET h == [j \in 0 .. 1 |-> IF off = 3 THEN split(j) ELSE i.rdata[off + j]]
               IN  Extend(h, h[1])
          [] a.type = "byte" ->
               LET b == [j \in {0} |-> i.rdata[off + j]] IN Extend(b, b[0])
  BY <1>1 DEF LsuRdata
<1>5. Loaded(a, m) =
           [k \in 0 .. 3 |->
              IF k <= SizeOf(a) - 1 THEN byte(k)
              ELSE IF a.sign THEN Sign(byte(SizeOf(a) - 1)) ELSE Zero]
  BY LoadedBytes
<1>6. IsSplit(a) <=> \/ a.type = "word" /\ off # 0
                     \/ a.type = "half" /\ off = 3
  BY DEF IsSplit, SplitMisaligned
<1> HIDE DEF off, byte, split
<1>7. CASE a.type = "word"
  <2>1. \A j \in 0 .. 3 : (IF off = 0 THEN i.rdata[off + j] ELSE split(j)) = byte(j)
    BY <1>1, <1>2, <1>3, <1>6, <1>7
  <2>2. SizeOf(a) = 4
    BY <1>7, Sizes
  <2>3. QED
    BY <1>4, <1>5, <1>7, <2>1, <2>2
<1>8. CASE a.type = "half"
  <2> DEFINE h == [j \in 0 .. 1 |-> IF off = 3 THEN split(j) ELSE i.rdata[off + j]]
  <2>1. \A j \in 0 .. 1 : h[j] = byte(j)
    BY <1>1, <1>2, <1>3, <1>6, <1>8
  <2>2. SizeOf(a) = 2
    BY <1>8, Sizes
  <2>3. DOMAIN h = 0 .. 1
    OBVIOUS
  <2>4. LsuRdata(i) = Extend(h, h[1])
    BY <1>4, <1>8
  <2> HIDE DEF h
  <2>5. Extend(h, h[1]) = [k \in 0 .. 3 |-> IF k \in 0 .. 1 THEN h[k]
                            ELSE IF a.sign THEN Sign(h[1]) ELSE Zero]
    BY <1>1, <2>3 DEF Extend
  <2>6. \A k \in 0 .. 3 : (k \in 0 .. 1 <=> k <= 2 - 1)
    OBVIOUS
  <2>7. h[1] = byte(1) /\ 2 - 1 = 1
    BY <2>1
  <2>8. QED
    BY <1>5, <2>1, <2>2, <2>4, <2>5, <2>6, <2>7
<1>9. CASE a.type = "byte"
  <2> DEFINE b == [j \in {0} |-> i.rdata[off + j]]
  <2>1. b[0] = byte(0)
    BY <1>1, <1>2, <1>6, <1>9
  <2>2. SizeOf(a) = 1
    BY <1>9, Sizes
  <2>3. DOMAIN b = {0}
    OBVIOUS
  <2>4. LsuRdata(i) = Extend(b, b[0])
    BY <1>4, <1>9
  <2> HIDE DEF b
  <2>5. Extend(b, b[0]) = [k \in 0 .. 3 |-> IF k \in {0} THEN b[k]
                            ELSE IF a.sign THEN Sign(b[0]) ELSE Zero]
    BY <1>1, <2>3 DEF Extend
  <2>6. \A k \in 0 .. 3 : (k \in {0} <=> k <= 1 - 1)
    OBVIOUS
  <2>7. 1 - 1 = 0
    OBVIOUS
  <2>8. QED
    BY <1>5, <2>1, <2>2, <2>4, <2>5, <2>6, <2>7
<1>10. QED
  BY <1>7, <1>8, <1>9, Sizes

(* The bytes half h of a store writes.                                     *)
PartBytes(a, h) ==
  {<<4 * WordOf(a, h) + k, <<"reg", (k + 4 - Off(a)) % 4>>>> : k \in LanesOf(a, h)}

(* The lanes of a half, by offset and byte of the register.                *)
LEMMA LaneFacts ==
  ASSUME NEW a \in Access
  PROVE  /\ LanesOf(a, 1) \subseteq 0 .. 3 /\ LanesOf(a, 2) \subseteq 0 .. 3
         /\ \A k \in LanesOf(a, 1) : k - Off(a) \in 0 .. SizeOf(a) - 1
         /\ \A j \in 0 .. SizeOf(a) - 1 : Off(a) + j <= 3 => Off(a) + j \in LanesOf(a, 1)
         /\ IsSplit(a) =>
              /\ \A k \in LanesOf(a, 2) : k + 4 - Off(a) \in 0 .. SizeOf(a) - 1
              /\ \A j \in 0 .. SizeOf(a) - 1 :
                   ~(Off(a) + j <= 3) => Off(a) + j - 4 \in LanesOf(a, 2)
         /\ ~IsSplit(a) => \A j \in 0 .. SizeOf(a) - 1 : Off(a) + j <= 3
<1>1. PICK off \in 0 .. 3 : off = Off(a)
  BY AccessFields
<1>2. IsSplit(a) <=> \/ a.type = "word" /\ off # 0
                     \/ a.type = "half" /\ off = 3
  BY <1>1 DEF IsSplit, SplitMisaligned
<1>3. CASE a.type = "word"
  <2>1. /\ SizeOf(a) = 4 /\ LanesOf(a, 1) = off .. 3 /\ LanesOf(a, 2) = 0 .. off - 1
        /\ IsSplit(a) <=> off # 0
    BY <1>1, <1>2, <1>3, Sizes DEF LanesOf
  <2>2. LanesOf(a, 1) \subseteq 0 .. 3 /\ LanesOf(a, 2) \subseteq 0 .. 3
    BY <2>1
  <2>3. /\ \A k \in LanesOf(a, 1) : k - off \in 0 .. SizeOf(a) - 1
        /\ \A j \in 0 .. SizeOf(a) - 1 : off + j <= 3 => off + j \in LanesOf(a, 1)
    BY <2>1
  <2>4. IsSplit(a) =>
          /\ \A k \in LanesOf(a, 2) : k + 4 - off \in 0 .. SizeOf(a) - 1
          /\ \A j \in 0 .. SizeOf(a) - 1 : ~(off + j <= 3) => off + j - 4 \in LanesOf(a, 2)
    BY <2>1
  <2>5. ~IsSplit(a) => \A j \in 0 .. SizeOf(a) - 1 : off + j <= 3
    BY <2>1
  <2>6. QED
    BY <1>1, <2>2, <2>3, <2>4, <2>5
<1>4. CASE a.type = "half"
  <2>1. /\ SizeOf(a) = 2 /\ LanesOf(a, 1) = {off, off + 1} \cap (0 .. 3) /\ LanesOf(a, 2) = {0}
        /\ IsSplit(a) <=> off = 3
    BY <1>1, <1>2, <1>4, Sizes DEF LanesOf
  <2>2. LanesOf(a, 1) \subseteq 0 .. 3 /\ LanesOf(a, 2) \subseteq 0 .. 3
    BY <2>1
  <2>3. /\ \A k \in LanesOf(a, 1) : k - off \in 0 .. SizeOf(a) - 1
        /\ \A j \in 0 .. SizeOf(a) - 1 : off + j <= 3 => off + j \in LanesOf(a, 1)
    <3>1. ASSUME NEW k \in LanesOf(a, 1) PROVE k - off \in 0 .. SizeOf(a) - 1
      <4>1. k = off \/ k = off + 1
        BY <2>1
      <4>2. QED
        BY <2>1, <4>1
    <3>2. ASSUME NEW j \in 0 .. SizeOf(a) - 1, off + j <= 3 PROVE off + j \in LanesOf(a, 1)
      <4>1. j = 0 \/ j = 1
        BY <2>1
      <4>2. off + j \in {off, off + 1} /\ off + j \in 0 .. 3
        BY <3>2, <4>1
      <4>3. QED
        BY <2>1, <4>2
    <3>3. QED
      BY <3>1, <3>2
  <2>4. IsSplit(a) =>
          /\ \A k \in LanesOf(a, 2) : k + 4 - off \in 0 .. SizeOf(a) - 1
          /\ \A j \in 0 .. SizeOf(a) - 1 : ~(off + j <= 3) => off + j - 4 \in LanesOf(a, 2)
    BY <2>1
  <2>5. ~IsSplit(a) => \A j \in 0 .. SizeOf(a) - 1 : off + j <= 3
    BY <2>1
  <2>6. QED
    BY <1>1, <2>2, <2>3, <2>4, <2>5
<1>5. CASE a.type = "byte"
  <2>1. /\ SizeOf(a) = 1 /\ LanesOf(a, 1) = {off} /\ LanesOf(a, 2) = {off}
        /\ ~IsSplit(a)
    BY <1>1, <1>2, <1>5, Sizes DEF LanesOf
  <2>2. LanesOf(a, 1) \subseteq 0 .. 3 /\ LanesOf(a, 2) \subseteq 0 .. 3
    BY <2>1
  <2>3. /\ \A k \in LanesOf(a, 1) : k - off \in 0 .. SizeOf(a) - 1
        /\ \A j \in 0 .. SizeOf(a) - 1 : off + j <= 3 => off + j \in LanesOf(a, 1)
    BY <2>1
  <2>4. IsSplit(a) =>
          /\ \A k \in LanesOf(a, 2) : k + 4 - off \in 0 .. SizeOf(a) - 1
          /\ \A j \in 0 .. SizeOf(a) - 1 : ~(off + j <= 3) => off + j - 4 \in LanesOf(a, 2)
    BY <2>1
  <2>5. ~IsSplit(a) => \A j \in 0 .. SizeOf(a) - 1 : off + j <= 3
    BY <2>1
  <2>6. QED
    BY <1>1, <2>2, <2>3, <2>4, <2>5
<1>6. QED
  BY <1>3, <1>4, <1>5, Sizes

(* A store is its first half or, if it is split, both its halves.          *)
LEMMA StoredParts ==
  ASSUME NEW a \in Access
  PROVE  /\ PartBytes(a, 1) \subseteq Stored(a)
         /\ IsSplit(a) => /\ PartBytes(a, 2) \subseteq Stored(a)
                          /\ Stored(a) = PartBytes(a, 1) \cup PartBytes(a, 2)
         /\ ~IsSplit(a) => Stored(a) = PartBytes(a, 1)
<1> DEFINE off == Off(a)
           n == SizeOf(a)
           byte(j) == <<(a.addr + j) % (4 * Words), <<"reg", j>>>>
<1>1. off \in 0 .. 3 /\ n \in {1, 2, 4}
  BY AccessFields, Sizes
<1>2. Stored(a) = {byte(j) : j \in 0 .. n - 1}
  <2>1. DOMAIN BytesOf(a) = 0 .. n - 1
    BY DEF BytesOf
  <2>2. \A j \in 0 .. n - 1 : <<BytesOf(a)[j], <<"reg", j>>>> = byte(j)
    BY DEF BytesOf
  <2>3. QED
    BY <2>1, <2>2 DEF Stored
<1>3. ASSUME NEW k \in 0 .. 3, NEW j \in 0 .. n - 1, j = k - off
      PROVE  <<4 * First(a) + k, <<"reg", (k + 4 - off) % 4>>>> = byte(j)
  <2>1. (k + 4 - off) % 4 = j /\ off + j = k /\ j \in 0 .. 3
    BY <1>1, <1>3
  <2>2. (a.addr + j) % (4 * Words) = 4 * First(a) + k
    BY <2>1, ByteAt
  <2>3. QED
    BY <2>1, <2>2
<1>4. ASSUME NEW k \in 0 .. 3, NEW j \in 0 .. n - 1, j = k + 4 - off
      PROVE  <<4 * Second(a) + k, <<"reg", (k + 4 - off) % 4>>>> = byte(j)
  <2>1. (k + 4 - off) % 4 = j /\ off + j - 4 = k /\ ~(off + j <= 3) /\ j \in 0 .. 3
    BY <1>1, <1>4
  <2>2. (a.addr + j) % (4 * Words) = 4 * Second(a) + k
    BY <2>1, ByteAt
  <2>3. QED
    BY <2>1, <2>2
<1>5. ASSUME NEW x \in PartBytes(a, 1) PROVE x \in Stored(a)
  <2>1. PICK k \in LanesOf(a, 1) : x = <<4 * First(a) + k, <<"reg", (k + 4 - off) % 4>>>>
    BY <1>5 DEF PartBytes, WordOf
  <2>2. k \in 0 .. 3 /\ k - off \in 0 .. n - 1
    BY LaneFacts
  <2>3. x = byte(k - off)
    BY <1>3, <2>1, <2>2
  <2>4. QED
    BY <1>2, <2>2, <2>3
<1>6. ASSUME IsSplit(a), NEW x \in PartBytes(a, 2) PROVE x \in Stored(a)
  <2>1. PICK k \in LanesOf(a, 2) : x = <<4 * Second(a) + k, <<"reg", (k + 4 - off) % 4>>>>
    BY <1>6 DEF PartBytes, WordOf
  <2>2. k \in 0 .. 3 /\ k + 4 - off \in 0 .. n - 1
    BY <1>6, LaneFacts
  <2>3. x = byte(k + 4 - off)
    BY <1>4, <2>1, <2>2
  <2>4. QED
    BY <1>2, <2>2, <2>3
<1>7. ASSUME NEW j \in 0 .. n - 1, off + j <= 3 PROVE byte(j) \in PartBytes(a, 1)
  <2>1. PICK k \in Int : k = off + j
    BY <1>1
  <2>2. k \in LanesOf(a, 1) /\ k \in 0 .. 3 /\ j = k - off
    BY <1>1, <1>7, <2>1, LaneFacts
  <2>3. byte(j) = <<4 * First(a) + k, <<"reg", (k + 4 - off) % 4>>>>
    BY <1>3, <2>2
  <2>4. QED
    BY <2>2, <2>3 DEF PartBytes, WordOf
<1>8. ASSUME IsSplit(a), NEW j \in 0 .. n - 1, ~(off + j <= 3)
      PROVE  byte(j) \in PartBytes(a, 2)
  <2>1. PICK k \in Int : k = off + j - 4
    BY <1>1
  <2>2. k \in LanesOf(a, 2) /\ k \in 0 .. 3 /\ j = k + 4 - off
    BY <1>1, <1>8, <2>1, LaneFacts
  <2>3. byte(j) = <<4 * Second(a) + k, <<"reg", (k + 4 - off) % 4>>>>
    BY <1>4, <2>2
  <2>4. QED
    BY <2>2, <2>3 DEF PartBytes, WordOf
<1>9. ~IsSplit(a) => \A j \in 0 .. n - 1 : off + j <= 3
  BY LaneFacts
<1> HIDE DEF off, byte, n
<1>10. ~IsSplit(a) => Stored(a) \subseteq PartBytes(a, 1)
  BY <1>2, <1>7, <1>9
<1>11. IsSplit(a) => Stored(a) \subseteq PartBytes(a, 1) \cup PartBytes(a, 2)
  BY <1>2, <1>7, <1>8
<1>12. QED
  BY <1>5, <1>6, <1>10, <1>11

(* The bytes a sequence of granted transactions writes.                    *)
BytesWritten(g) ==
  UNION {{<<4 * t.txn.word + k, t.txn.wdata[k]>> : k \in t.txn.be} :
           t \in {g[n] : n \in DOMAIN g}}

(* The halves of a store write the bytes of their lanes.                   *)
LEMMA WrittenParts ==
  ASSUME NEW a \in Access
  PROVE  /\ BytesWritten(<<>>) = {}
         /\ BytesWritten(<<PartOf(a, 1)>>) = PartBytes(a, 1)
         /\ BytesWritten(<<PartOf(a, 2)>>) = PartBytes(a, 2)
         /\ BytesWritten(<<PartOf(a, 1), PartOf(a, 2)>>) = PartBytes(a, 1) \cup PartBytes(a, 2)
<1> DEFINE W(t) == {<<4 * t.txn.word + k, t.txn.wdata[k]>> : k \in t.txn.be}
<1>1. ASSUME NEW h \in {1, 2} PROVE W(PartOf(a, h)) = PartBytes(a, h)
  <2>1. /\ PartOf(a, h).txn.word = WordOf(a, h) /\ PartOf(a, h).txn.be = LanesOf(a, h)
        /\ \A k \in 0 .. 3 : PartOf(a, h).txn.wdata[k] = <<"reg", (k + 4 - Off(a)) % 4>>
    BY DEF PartOf, TxnOf
  <2>2. LanesOf(a, h) \subseteq 0 .. 3
    BY LaneFacts
  <2>3. QED
    BY <2>1, <2>2 DEF PartBytes
<1>2. \A g : BytesWritten(g) = UNION {W(t) : t \in {g[n] : n \in DOMAIN g}}
  BY DEF BytesWritten
<1> HIDE DEF W
<1>3. ASSUME NEW p, NEW q
      PROVE  /\ {<<>>[n] : n \in DOMAIN <<>>} = {}
             /\ {<<p>>[n] : n \in DOMAIN <<p>>} = {p}
             /\ {<<p, q>>[n] : n \in DOMAIN <<p, q>>} = {p, q}
  OBVIOUS
<1>4. BytesWritten(<<>>) = {}
  BY <1>2, <1>3
<1>5. ASSUME NEW p, NEW q
      PROVE  BytesWritten(<<p>>) = W(p) /\ BytesWritten(<<p, q>>) = W(p) \cup W(q)
  <2>1. UNION {W(t) : t \in {p}} = W(p) /\ UNION {W(t) : t \in {p, q}} = W(p) \cup W(q)
    OBVIOUS
  <2>2. /\ BytesWritten(<<p>>) = UNION {W(t) : t \in {<<p>>[n] : n \in DOMAIN <<p>>}}
        /\ BytesWritten(<<p, q>>) = UNION {W(t) : t \in {<<p, q>>[n] : n \in DOMAIN <<p, q>>}}
    BY <1>2, Zenon
  <2>3. QED
    BY <1>3, <2>1, <2>2, Zenon
<1>6. QED
  BY <1>1, <1>4, <1>5

-----------------------------------------------------------------------------
(* Types.                                                                  *)

(* The adder of the ALU produces addresses.                                *)
LEMMA AddrTypes ==
  ASSUME id \in Access, addr_last_q \in Addr
  PROVE  DataAddr \in Addr /\ DataOffset \in 0 .. 3 /\ DataAddrWAligned \in Addr
<1>1. Words \in Nat \ {0}
  BY LsuAssumption
<1>2. DataAddr \in 0 .. 4 * Words - 1
  <2>1. CASE AddrIncrReq
    <3>1. addr_last_q \in 0 .. 4 * Words - 1
      BY DEF Addr
    <3>2. 4 \in 0 .. 4
      OBVIOUS
    <3>3. (addr_last_q + 4) % (4 * Words) =
            IF addr_last_q + 4 < 4 * Words THEN addr_last_q + 4 ELSE addr_last_q + 4 - 4 * Words
      BY <1>1, <3>1, <3>2, ByteAddr, Zenon
    <3>4. (addr_last_q + 4) % (4 * Words) \in 0 .. 4 * Words - 1
      BY <1>1, <3>1, <3>3
    <3>5. QED
      BY <2>1, <3>4, Zenon DEF DataAddr
  <2>2. CASE ~AddrIncrReq
    BY <2>2, AccessFields DEF DataAddr
  <2>3. QED
    BY <2>1, <2>2
<1>3. DataAddr % 4 \in 0 .. 3 /\ DataAddr - (DataAddr % 4) \in 0 .. 4 * Words - 1
  <2>1. PICK x \in 0 .. 4 * Words - 1 : x = DataAddr
    BY <1>2
  <2>2. x % 4 \in 0 .. 3 /\ x - (x % 4) \in 0 .. 4 * Words - 1
    BY <1>1
  <2>3. QED
    BY <2>1, <2>2
<1>4. QED
  BY <1>2, <1>3 DEF DataOffset, DataAddrWAligned, Addr

(* The LSU and the pipeline keep to their types.                           *)
LEMMA TypeStep ==
  ASSUME Inv, NEW gnt \in BOOLEAN, NEW rvalid \in BOOLEAN, NEW err \in BOOLEAN,
         Cycle(gnt, rvalid, err), NEW i, i = Signals(gnt, rvalid, err), IInv'
  PROVE  TypeOK'
<1>1. TypeOK /\ LsuTypeOK /\ BusMatchesFsm /\ Phases /\ WritebackStage \in BOOLEAN
  BY PipelineAssumption DEF Inv, TypeOK, IInv
<1>2. /\ i.gnt = gnt /\ i.rvalid = rvalid /\ i.err = err /\ i.rdata = Rdata(rvalid, err)
      /\ (rvalid => bus # <<>>)
      /\ PipeCycle(i)
  BY CycleParts
<1>3. LsuCycle(LsuReq(i), i) /\ (IdWithWb(i) \/ IdWithoutWb(i))
  BY <1>2 DEF PipeCycle
<1>4. Len(bus') <= 2 /\ ls_fsm_cs' \in States
  <2>1. BusMatchesFsm' /\ ls_fsm_cs' \in States
    BY DEF IInv
  <2>2. Len(bus') \in {0, 1, 2}
    BY <2>1 DEF BusMatchesFsm, States
  <2>3. PICK n \in {0, 1, 2} : n = Len(bus')
    BY <2>2, Zenon
  <2>4. n <= 2
    OBVIOUS
  <2>5. QED
    BY <2>1, <2>3, <2>4, Zenon
<1>5. LsuReq(i) => id # None
  BY DEF LsuReq
<1>6. ls_fsm_cs # "IDLE" \/ LsuReq(i) => id \in Access
  BY <1>1, <1>5 DEF BusMatchesFsm, LsuTypeOK
<1>7. id' \in Access \cup {None} /\ wb' \in Access \cup {None} /\ idMulti' \in BOOLEAN
  <2>1. Fetched \subseteq Access \cup {None}
    BY PipelineAssumption DEF Fetched
  <2>2. id \in Access \cup {None} /\ wb \in Access \cup {None} /\ idMulti \in BOOLEAN
    BY <1>1 DEF TypeOK, LsuTypeOK
  <2>3. CASE IdWithWb(i)
    <3>1. id' \in Access \cup {None} /\ wb' \in Access \cup {None}
      BY <2>1, <2>2, <2>3 DEF IdWithWb
    <3>2. LsuReq(i) \in BOOLEAN
      BY DEF LsuReq, OutstandingMemoryAccess
    <3>3. idMulti' \in BOOLEAN
      BY <2>2, <2>3, <3>2 DEF IdWithWb
    <3>4. QED
      BY <3>1, <3>3
  <2>4. CASE IdWithoutWb(i)
    BY <2>1, <2>2, <2>4 DEF IdWithoutWb
  <2>5. QED
    BY <1>3, <2>3, <2>4
<1>8. /\ handle_misaligned_q' \in BOOLEAN /\ pmp_err_q' \in BOOLEAN /\ lsu_err_q' \in BOOLEAN
  <2>1. DataPmpErr \in BOOLEAN /\ SplitMisalignedAccess \in BOOLEAN
    BY DEF DataPmpErr, SplitMisalignedAccess, SplitMisaligned
  <2>2. handle_misaligned_q \in BOOLEAN /\ pmp_err_q \in BOOLEAN /\ lsu_err_q \in BOOLEAN
    BY <1>1 DEF LsuTypeOK
  <2>3. QED
    BY <1>2, <1>3, <2>1, <2>2
       DEF LsuCycle, IdleNoReq, IdleReq, WaitGntMis, WaitRvalidMis, WaitGnt, WaitRvalidMisGntsDone
<1>9. addr_last_q' \in Addr /\ ctrl_q' \in Ctrl
  <2>1. addr_last_q \in Addr /\ ctrl_q \in Ctrl
    BY <1>1 DEF LsuTypeOK
  <2>2. CASE id \in Access
    <3>1. DataAddr \in Addr /\ DataOffset \in 0 .. 3 /\ DataAddrWAligned \in Addr
      BY <2>1, <2>2, AddrTypes
    <3>2. [offset |-> DataOffset, type |-> id.type, sign |-> id.sign, we |-> id.we] \in Ctrl
      BY <2>2, <3>1, AccessFields DEF Ctrl
    <3>3. CtrlUpdate => ctrl_q' \in Ctrl
      BY <3>2 DEF CtrlUpdate
    <3>4. \A u \in BOOLEAN : AddrUpdate(u) => addr_last_q' \in Addr
      BY <2>1, <3>1 DEF AddrUpdate
    <3>5. (gnt /\ ~(err \/ pmp_err_q)) \in BOOLEAN /\ (~lsu_err_q) \in BOOLEAN /\ (~err) \in BOOLEAN
      OBVIOUS
    <3>6. QED
      BY <1>2, <1>3, <2>1, <3>3, <3>4, <3>5
         DEF LsuCycle, IdleNoReq, IdleReq, WaitGntMis, WaitRvalidMis, WaitGnt,
             WaitRvalidMisGntsDone
  <2>3. CASE id \notin Access
    <3>1. IdleNoReq(LsuReq(i), i)
      BY <1>3, <1>6, <2>3
         DEF LsuCycle, IdleReq, WaitGntMis, WaitRvalidMis, WaitGnt, WaitRvalidMisGntsDone
    <3>2. QED
      BY <2>1, <3>1 DEF IdleNoReq
  <2>4. QED
    BY <2>2, <2>3
<1>10. rdata_q' \in [1 .. 3 -> Byte]
  <2>1. rdata_q \in [1 .. 3 -> Byte]
    BY <1>1 DEF LsuTypeOK
  <2>2. CASE ls_fsm_cs \in {"WAIT_RVALID_MIS", "WAIT_RVALID_MIS_GNTS_DONE"}
    <3>1. id \in Access
      BY <1>6, <2>2
    <3>2. rvalid => Head(bus) = PartOf(id, 1)
      <4>1. CASE ls_fsm_cs = "WAIT_RVALID_MIS"
        BY <1>1, <1>2, <4>1, Small DEF Phases, FirstOut, Asked
      <4>2. CASE ls_fsm_cs = "WAIT_RVALID_MIS_GNTS_DONE"
        BY <1>1, <1>2, <4>2, Small DEF Phases, BothOut
      <4>3. QED
        BY <2>2, <4>1, <4>2
    <3>3. PartOf(id, 1).txn.word = First(id)
      BY DEF PartOf, TxnOf, WordOf
    <3>4. \A k \in 1 .. 3 : <<"mem", 4 * First(id) + k>> \in Byte
      <4>1. ASSUME NEW k \in 1 .. 3 PROVE 4 * First(id) + k \in Addr
        BY <3>1, LsuAssumption, AccessFields DEF Addr
      <4>2. QED
        BY <4>1 DEF Byte
    <3>5. \A k \in 1 .. 3 : i.rdata[k] \in Byte
      <4>1. Junk \in Byte
        BY DEF Byte
      <4>2. QED
        BY <1>2, <3>2, <3>3, <3>4, <4>1 DEF Rdata
    <3>6. [k \in 1 .. 3 |-> i.rdata[k]] \in [1 .. 3 -> Byte]
      BY <3>5
    <3>7. RdataUpdate(i) => rdata_q' \in [1 .. 3 -> Byte]
      BY <2>1, <3>6 DEF RdataUpdate
    <3>8. RdataUpdate(i) \/ rdata_q' = rdata_q
      BY <1>3, <2>2
         DEF LsuCycle, IdleNoReq, IdleReq, WaitGntMis, WaitRvalidMis, WaitGnt,
             WaitRvalidMisGntsDone
    <3>9. QED
      BY <2>1, <3>7, <3>8
  <2>3. CASE ls_fsm_cs \notin {"WAIT_RVALID_MIS", "WAIT_RVALID_MIS_GNTS_DONE"}
    BY <1>3, <2>1, <2>3
       DEF LsuCycle, IdleNoReq, IdleReq, WaitGntMis, WaitRvalidMis, WaitGnt, WaitRvalidMisGntsDone
  <2>4. QED
    BY <2>2, <2>3
<1>11. QED
  BY <1>4, <1>7, <1>8, <1>9, <1>10 DEF TypeOK, LsuTypeOK

-----------------------------------------------------------------------------
(* Requests.                                                               *)

(* A request that is not granted is the same in the next cycle.            *)
LEMMA ShownStep ==
  ASSUME Inv, NEW gnt \in BOOLEAN, NEW rvalid \in BOOLEAN, NEW err \in BOOLEAN,
         Cycle(gnt, rvalid, err), NEW i, i = Signals(gnt, rvalid, err)
  PROVE  ShownWaits'
<1> SUFFICES ASSUME shown' # None, ~shown'.gnt
             PROVE  /\ ls_fsm_cs' \in {"WAIT_GNT_MIS", "WAIT_RVALID_MIS", "WAIT_GNT"}
                    /\ ~DataPmpErr' /\ shown'.txn = Transaction'
  BY DEF ShownWaits
<1>1. /\ DataReq(LsuReq(i)) /\ ~DataPmpErr /\ ~gnt
      /\ shown'.txn = Transaction
  <2>1. shown' = IF BusReq(LsuReq(i)) THEN [txn |-> Transaction, gnt |-> gnt] ELSE None
    <3>1. i.gnt = gnt /\ Bus(i, LsuReq(i))
      BY CycleParts
    <3>2. QED
      BY <3>1 DEF Bus
  <2>2. BusReq(LsuReq(i)) /\ shown' = [txn |-> Transaction, gnt |-> gnt]
    BY <2>1
  <2>3. QED
    BY <2>2 DEF BusReq
<1>2. BusMatchesFsm /\ Phases /\ WritebackStage \in BOOLEAN
  BY PipelineAssumption DEF Inv, IInv
<1>3. i.gnt = gnt /\ PipeCycle(i)
  BY CycleParts
<1>4. /\ ls_fsm_cs = "IDLE" => LsuReq(i)
      /\ ls_fsm_cs \in {"WAIT_GNT_MIS", "WAIT_GNT"} => ~pmp_err_q
      /\ ls_fsm_cs = "IDLE" => ~handle_misaligned_q
      /\ ls_fsm_cs = "WAIT_RVALID_MIS" => handle_misaligned_q
      /\ ls_fsm_cs # "WAIT_RVALID_MIS_GNTS_DONE"
  BY <1>1, <1>2 DEF DataReq, BusMatchesFsm, Phases, FirstOut
<1>5. LsuCycle(LsuReq(i), i) /\ (IdWithWb(i) \/ IdWithoutWb(i))
  BY <1>3 DEF PipeCycle
<1>6. /\ ls_fsm_cs' \in {"WAIT_GNT_MIS", "WAIT_RVALID_MIS", "WAIT_GNT"}
      /\ addr_last_q' = addr_last_q /\ (handle_misaligned_q' <=> handle_misaligned_q)
      /\ AddrIncrReq' <=> AddrIncrReq
  <2>1. CASE IdleReq(LsuReq(i), i)
    <3>1. /\ ls_fsm_cs = "IDLE" /\ ls_fsm_cs' \in {"WAIT_GNT_MIS", "WAIT_GNT"}
          /\ addr_last_q' = addr_last_q /\ handle_misaligned_q' = handle_misaligned_q
      BY <1>1, <1>3, <2>1 DEF IdleReq
    <3>2. QED
      BY <1>4, <3>1 DEF AddrIncrReq
  <2>2. CASE WaitGntMis(i)
    <3>1. /\ ls_fsm_cs = "WAIT_GNT_MIS" /\ ls_fsm_cs' = "WAIT_GNT_MIS"
          /\ addr_last_q' = addr_last_q /\ handle_misaligned_q' = handle_misaligned_q
      BY <1>1, <1>3, <1>4, <2>2 DEF WaitGntMis
    <3>2. QED
      BY <3>1 DEF AddrIncrReq
  <2>3. CASE WaitRvalidMis(i)
    <3>1. CASE i.rvalid \/ pmp_err_q
      <4>1. ls_fsm_cs' = "WAIT_GNT" /\ handle_misaligned_q' = ~gnt /\ addr_last_q' = addr_last_q
        BY <1>1, <1>3, <2>3, <3>1 DEF WaitRvalidMis, AddrUpdate
      <4>2. QED
        BY <1>1, <1>4, <2>3, <4>1 DEF WaitRvalidMis, AddrIncrReq
    <3>2. CASE ~(i.rvalid \/ pmp_err_q)
      <4>1. /\ ls_fsm_cs' = "WAIT_RVALID_MIS" /\ addr_last_q' = addr_last_q
            /\ handle_misaligned_q' = (handle_misaligned_q /\ ~gnt)
        BY <1>1, <1>3, <2>3, <3>2 DEF WaitRvalidMis
      <4>2. QED
        BY <1>1, <1>4, <2>3, <4>1 DEF WaitRvalidMis, AddrIncrReq
    <3>3. QED
      BY <3>1, <3>2
  <2>4. CASE WaitGnt(i)
    BY <1>1, <1>3, <1>4, <2>4 DEF WaitGnt, AddrIncrReq
  <2>5. QED
    BY <1>4, <1>5, <2>1, <2>2, <2>3, <2>4 DEF LsuCycle, IdleNoReq, WaitRvalidMisGntsDone
<1>7. id' = id
  <2>1. ls_fsm_cs = "IDLE" => id # None /\ (WritebackStage => ~LsuRespErr(i))
                              /\ (~WritebackStage => ~idMulti)
    BY <1>4 DEF LsuReq
  <2>2. ls_fsm_cs # "IDLE" => id # None /\ ~LsuRespErr(i) /\ ~LsuRespValid(i)
    BY <1>2 DEF LsuRespErr, LsuRespValid, BusMatchesFsm
  <2>3. QED
    BY <1>2, <1>5, <1>6, <2>1, <2>2 DEF IdWithWb, IdWithoutWb, LsuReqDone
<1>8. DataAddr' = DataAddr
  BY <1>6, <1>7 DEF DataAddr
<1>9. DataOffset' = DataOffset /\ (DataPmpErr' <=> DataPmpErr)
  BY <1>8 DEF DataOffset, DataPmpErr
<1>10. DataBe' = DataBe /\ DataWdata' = DataWdata
  BY <1>6, <1>7, <1>9 DEF DataBe, DataWdata
<1>11. Transaction' = Transaction
  BY <1>7, <1>8, <1>10 DEF Transaction
<1>12. QED
  BY <1>1, <1>6, <1>9, <1>11

-----------------------------------------------------------------------------
(* Responses.                                                              *)

(* The access that gets its response is the one in progress, and is done.  *)
LEMMA Responds ==
  ASSUME Inv, NEW gnt \in BOOLEAN, NEW rvalid \in BOOLEAN, NEW err \in BOOLEAN,
         Cycle(gnt, rvalid, err), NEW i, i = Signals(gnt, rvalid, err),
         Responding(i) # None
  PROVE  /\ ls_fsm_cs = "IDLE" /\ Waiting /\ Responding(i) = Current
         /\ rvalid \/ pmp_err_q
         /\ LsuRespErr(i) <=> lsu_err_q \/ err \/ pmp_err_q
         /\ LsuRdataValid(i) <=> rvalid /\ ~(lsu_err_q \/ err \/ pmp_err_q) /\ ~ctrl_q.we
         /\ LsuRespErr(i) => addr_last_q' = addr_last_q
<1>1. i.gnt = gnt /\ i.rvalid = rvalid /\ i.err = err /\ PipeCycle(i)
  BY CycleParts
<1>2. LsuRespValid(i) /\ ls_fsm_cs = "IDLE" /\ WritebackStage \in BOOLEAN
  BY PipelineAssumption DEF Responding, LsuRespValid
<1>3. Waiting /\ Responding(i) = Current
  BY <1>2 DEF Responding, Waiting, Current
<1>4. /\ rvalid \/ pmp_err_q
      /\ LsuRespErr(i) <=> lsu_err_q \/ err \/ pmp_err_q
      /\ LsuRdataValid(i) <=> rvalid /\ ~(lsu_err_q \/ err \/ pmp_err_q) /\ ~ctrl_q.we
  BY <1>1, <1>2 DEF LsuRespValid, LsuRespErr, DataOrPmpErr, LsuRdataValid
<1>5. ASSUME LsuRespErr(i) PROVE addr_last_q' = addr_last_q
  <2>1. ~LsuReq(i)
    BY <1>2, <1>3, <1>5 DEF LsuReq, Waiting
  <2>2. IdleNoReq(LsuReq(i), i)
    BY <1>1, <1>2, <2>1
       DEF PipeCycle, LsuCycle, IdleReq, WaitGntMis, WaitRvalidMis, WaitGnt,
           WaitRvalidMisGntsDone
  <2>3. QED
    BY <2>2 DEF IdleNoReq
<1>6. QED
  BY <1>2, <1>3, <1>4, <1>5

(* The record of the access that gets its response, when it is closed.     *)
LEMMA ClosedRecord ==
  ASSUME Inv, NEW gnt \in BOOLEAN, NEW rvalid \in BOOLEAN, NEW err \in BOOLEAN,
         Cycle(gnt, rvalid, err), NEW i, i = Signals(gnt, rvalid, err),
         Responding(i) # None, NEW a, a = Current
  PROVE  /\ closed'.granted = IF IsSplit(a) THEN BothAsked(a) ELSE Asked(a, 1)
         /\ IsSplit(a) =>
              /\ 1 \in closed'.refused <=> 1 \in record.refused
              /\ 2 \in closed'.refused <=> rvalid /\ err
              /\ closed'.refused \subseteq {1, 2}
         /\ ~IsSplit(a) =>
              closed'.refused = IF rvalid /\ err THEN {1} ELSE {}
<1>1. ls_fsm_cs = "IDLE" /\ Waiting
  BY Responds
<1>2. LastOut /\ BusMatchesFsm
  BY DEF Inv, Phases, IInv
<1>3. record = [granted |-> IF IsSplit(a) THEN BothAsked(a) ELSE Asked(a, 1),
                refused |-> record.refused]
      /\ (IsSplit(a) => record.refused \subseteq {1})
      /\ (~IsSplit(a) => record.refused = {})
  BY <1>1, <1>2 DEF LastOut, FirstAnswered
<1>4. PICK r : r = record.refused \cup (IF rvalid /\ err THEN {Head(bus).half} ELSE {})
  OBVIOUS
<1>5. closed' = [record EXCEPT !.refused = r]
  BY <1>4, ResponseStep
<1>6. closed'.granted = (IF IsSplit(a) THEN BothAsked(a) ELSE Asked(a, 1)) /\ closed'.refused = r
  BY <1>3, <1>5
<1>7. rvalid => Head(bus).half = IF IsSplit(a) THEN 2 ELSE 1
  <2>1. ASSUME rvalid PROVE ~pmp_err_q
    <3>1. bus # <<>>
      BY <2>1, BusFacts
    <3>2. QED
      BY <1>1, <3>1, LastAnswer
  <2>2. rvalid => Head(bus) = PartOf(a, IF IsSplit(a) THEN 2 ELSE 1)
    BY <1>1, <2>1, LastAnswer
  <2>3. QED
    BY <2>2 DEF PartOf
<1>8. r = record.refused \cup (IF rvalid /\ err THEN {IF IsSplit(a) THEN 2 ELSE 1} ELSE {})
  BY <1>4, <1>7
<1>9. QED
  BY <1>3, <1>6, <1>8

(* The errors of an access are reported when it is done.                   *)
LEMMA ErrorsStep ==
  ASSUME Inv, NEW gnt \in BOOLEAN, NEW rvalid \in BOOLEAN, NEW err \in BOOLEAN,
         Cycle(gnt, rvalid, err), NEW i, i = Signals(gnt, rvalid, err)
  PROVE  ErrorsReported' /\ MtvalCorrect'
<1>1. CASE Responding(i) = None
  <2>1. done' = None
    BY <1>1, RecordStep
  <2>2. QED
    BY <2>1 DEF ErrorsReported, MtvalCorrect
<1>2. CASE Responding(i) # None
  <2>1. PICK a : a = Current
    OBVIOUS
  <2>2. /\ ls_fsm_cs = "IDLE" /\ Waiting /\ Responding(i) = a
        /\ rvalid \/ pmp_err_q
        /\ LsuRespErr(i) <=> lsu_err_q \/ err \/ pmp_err_q
        /\ LsuRdataValid(i) <=> rvalid /\ ~(lsu_err_q \/ err \/ pmp_err_q) /\ ~ctrl_q.we
        /\ LsuRespErr(i) => addr_last_q' = addr_last_q
    BY <1>2, <2>1, Responds
  <2>3. /\ done'.access = a /\ (done'.err <=> LsuRespErr(i)) /\ (done'.rf_we <=> LsuRdataValid(i))
    <3>1. done' = [access |-> Responding(i), err |-> LsuRespErr(i),
                   rf_we |-> LsuRdataValid(i), rdata |-> LsuRdata(i)]
      BY <1>2, ResponseStep
    <3>2. done'.access = Responding(i) /\ done'.err = LsuRespErr(i) /\ done'.rf_we = LsuRdataValid(i)
      BY <3>1
    <3>3. QED
      BY <2>2, <3>2
  <2>4. a \in Access /\ (rvalid => ~pmp_err_q)
    <3>1. rvalid => bus # <<>>
      BY BusFacts
    <3>2. QED
      BY <2>1, <2>2, <3>1, LastAnswer
  <2>5. ctrl_q.we = a.we
    BY <2>1, <2>2 DEF Inv, Phases, LastOut, CtrlOf
  <2>6. /\ 1 \in Failed(a)' <=> First(a) \in Denied \/ 1 \in closed'.refused
        /\ IsSplit(a) => (2 \in Failed(a)' <=> Second(a) \in Denied \/ 2 \in closed'.refused)
        /\ Failed(a)' \subseteq (IF IsSplit(a) THEN {1, 2} ELSE {1}) \cup closed'.refused
    <3>1. Halves(a) = IF IsSplit(a) THEN {1, 2} ELSE {1}
      BY DEF Halves, IsSplit, Off
    <3>2. QED
      BY <3>1 DEF Failed
  <2>7. /\ done'.err <=> Failed(a)' # {}
        /\ done'.err => addr_last_q' = IF 1 \in Failed(a)' THEN a.addr ELSE 4 * Second(a)
    <3>1. CASE IsSplit(a)
      <4>1. /\ lsu_err_q <=> First(a) \in Denied \/ 1 \in record.refused
            /\ pmp_err_q <=> Second(a) \in Denied
            /\ addr_last_q = IF lsu_err_q THEN a.addr ELSE 4 * Second(a)
        BY <2>1, <2>2, <3>1 DEF Inv, Phases, LastOut, FirstAnswered
      <4>2. /\ 1 \in closed'.refused <=> 1 \in record.refused
            /\ 2 \in closed'.refused <=> rvalid /\ err
            /\ closed'.refused \subseteq {1, 2}
        BY <1>2, <2>1, <3>1, ClosedRecord
      <4>3. 1 \in Failed(a)' <=> lsu_err_q
        BY <2>6, <4>1, <4>2
      <4>4. 2 \in Failed(a)' <=> pmp_err_q \/ (rvalid /\ err)
        BY <2>6, <3>1, <4>1, <4>2
      <4>5. Failed(a)' # {} <=> 1 \in Failed(a)' \/ 2 \in Failed(a)'
        BY <2>6, <3>1, <4>2
      <4>6. QED
        BY <2>2, <2>3, <4>1, <4>3, <4>4, <4>5
    <3>2. CASE ~IsSplit(a)
      <4>1. /\ ~lsu_err_q /\ (pmp_err_q <=> First(a) \in Denied) /\ addr_last_q = a.addr
        BY <2>1, <2>2, <3>2 DEF Inv, Phases, LastOut
      <4>2. closed'.refused = IF rvalid /\ err THEN {1} ELSE {}
        BY <1>2, <2>1, <3>2, ClosedRecord
      <4>3. 1 \in Failed(a)' <=> pmp_err_q \/ (rvalid /\ err)
        BY <2>6, <4>1, <4>2
      <4>4. Failed(a)' # {} <=> 1 \in Failed(a)'
        BY <2>6, <3>2, <4>2
      <4>5. QED
        BY <2>2, <2>3, <4>1, <4>3, <4>4
    <3>3. QED
      BY <3>1, <3>2
  <2>8. done'.rf_we <=> ~a.we /\ ~done'.err
    BY <2>2, <2>3, <2>5
  <2>9. ErrorsReported'
    BY <2>3, <2>7, <2>8 DEF ErrorsReported, Failed
  <2>10. MtvalCorrect'
    BY <2>3, <2>7 DEF MtvalCorrect, Failed
  <2>11. QED
    BY <2>9, <2>10
<1>3. QED
  BY <1>1, <1>2

(* A load that is done delivers its bytes.                                 *)
LEMMA LoadStep ==
  ASSUME Inv, NEW gnt \in BOOLEAN, NEW rvalid \in BOOLEAN, NEW err \in BOOLEAN,
         Cycle(gnt, rvalid, err), NEW i, i = Signals(gnt, rvalid, err)
  PROVE  LoadCorrect'
<1>1. CASE Responding(i) = None
  <2>1. done' = None
    BY <1>1, RecordStep
  <2>2. QED
    BY <2>1 DEF LoadCorrect
<1>2. CASE Responding(i) # None /\ LsuRdataValid(i)
  <2>1. PICK a : a = Current
    OBVIOUS
  <2>2. /\ ls_fsm_cs = "IDLE" /\ Waiting /\ Responding(i) = a
        /\ rvalid /\ ~err /\ ~lsu_err_q /\ ~pmp_err_q /\ ~ctrl_q.we
    BY <1>2, <2>1, Responds
  <2>3. /\ a \in Access
        /\ Head(bus) = PartOf(a, IF IsSplit(a) THEN 2 ELSE 1)
    BY <2>1, <2>2, LastAnswer
  <2>4. ctrl_q = CtrlOf(a) /\ ~a.we
    BY <2>1, <2>2 DEF Inv, Phases, LastOut, CtrlOf
  <2>5. Head(bus).txn.word = (IF IsSplit(a) THEN Second(a) ELSE First(a)) /\ ~Head(bus).txn.we
    BY <2>3, <2>4 DEF PartOf, TxnOf, WordOf
  <2>6. i.rdata = Rdata(rvalid, err)
    BY CycleParts
  <2>f. \A w \in 0 .. Words - 1 : \A k \in 0 .. 3 : FreshMem[4 * w + k] = <<"mem", 4 * w + k>>
    BY FreshBytes
  <2>w. First(a) \in 0 .. Words - 1 /\ Second(a) \in 0 .. Words - 1
    BY <2>3, AccessFields
  <2>7. \A k \in 0 .. 3 :
          i.rdata[k] = FreshMem[4 * (IF IsSplit(a) THEN Second(a) ELSE First(a)) + k]
    <3>1. \A k \in 0 .. 3 :
            i.rdata[k] = <<"mem", 4 * (IF IsSplit(a) THEN Second(a) ELSE First(a)) + k>>
      BY <2>2, <2>5, <2>6 DEF Rdata
    <3>2. QED
      BY <2>f, <2>w, <3>1
  <2>8. IsSplit(a) => \A k \in 1 .. 3 : rdata_q[k] = FreshMem[4 * First(a) + k]
    <3>1. IsSplit(a) => \A k \in 1 .. 3 : rdata_q[k] = <<"mem", 4 * First(a) + k>>
      BY <2>1, <2>2, <2>4 DEF Inv, Phases, LastOut, FirstAnswered
    <3>2. \A k \in 1 .. 3 : k \in 0 .. 3
      OBVIOUS
    <3>3. QED
      BY <2>f, <2>w, <3>1, <3>2
  <2>9. LsuRdata(i) = Loaded(a, FreshMem)
    BY <2>3, <2>4, <2>7, <2>8, RdataCorrect
  <2>10. done' = [access |-> Responding(i), err |-> LsuRespErr(i),
                  rf_we |-> LsuRdataValid(i), rdata |-> LsuRdata(i)]
    BY <1>2, ResponseStep
  <2>11. done'.access = a /\ done'.rdata = Loaded(a, FreshMem)
    BY <2>2, <2>9, <2>10
  <2>12. QED
    BY <2>11, SMTT(30) DEF LoadCorrect, Loaded, BytesOf, SizeOf
<1>3. CASE Responding(i) # None /\ ~LsuRdataValid(i)
  <2>1. done' = [access |-> Responding(i), err |-> LsuRespErr(i),
                 rf_we |-> LsuRdataValid(i), rdata |-> LsuRdata(i)]
    BY <1>3, ResponseStep
  <2>2. ~done'.rf_we
    BY <1>3, <2>1
  <2>3. QED
    BY <2>2 DEF LoadCorrect
<1>4. QED
  BY <1>1, <1>2, <1>3

(* A store that is done has written its bytes.                             *)
LEMMA StoreStep ==
  ASSUME Inv, NEW gnt \in BOOLEAN, NEW rvalid \in BOOLEAN, NEW err \in BOOLEAN,
         Cycle(gnt, rvalid, err), NEW i, i = Signals(gnt, rvalid, err)
  PROVE  StoreCorrect'
<1>1. CASE Responding(i) = None
  <2>1. done' = None
    BY <1>1, RecordStep
  <2>2. QED
    BY <2>1 DEF StoreCorrect
<1>2. CASE Responding(i) # None
  <2>1. PICK a : a = Current
    OBVIOUS
  <2>2. /\ ls_fsm_cs = "IDLE" /\ Waiting /\ Responding(i) = a
        /\ LsuRespErr(i) <=> lsu_err_q \/ err \/ pmp_err_q
    BY <1>2, <2>1, Responds
  <2>3. a \in Access
    BY <2>1, <2>2, LastAnswer
  <2>4. done' = [access |-> Responding(i), err |-> LsuRespErr(i),
                 rf_we |-> LsuRdataValid(i), rdata |-> LsuRdata(i)]
    BY <1>2, ResponseStep
  <2>5. done'.access = a /\ (done'.err <=> LsuRespErr(i))
    <3>1. done'.access = a /\ done'.err = LsuRespErr(i)
      BY <2>2, <2>4
    <3>2. QED
      BY <3>1
  <2>6. PICK g : g = closed'.granted
    OBVIOUS
  <2>7. g = IF IsSplit(a) THEN BothAsked(a) ELSE Asked(a, 1)
    BY <1>2, <2>1, <2>6, ClosedRecord
  <2>8. Written' = BytesWritten(g)
    BY <2>6 DEF Written, BytesWritten
  <2>9. /\ ~done'.err => /\ First(a) \notin Denied
                         /\ IsSplit(a) => Second(a) \notin Denied
    BY <2>1, <2>2, <2>5 DEF Inv, Phases, LastOut, FirstAnswered
  <2>10. /\ g = <<>> \/ g = <<PartOf(a, 1)>>
            \/ (IsSplit(a) /\ (g = <<PartOf(a, 2)>> \/ g = <<PartOf(a, 1), PartOf(a, 2)>>))
         /\ ~done'.err => g = IF IsSplit(a) THEN <<PartOf(a, 1), PartOf(a, 2)>>
                              ELSE <<PartOf(a, 1)>>
    BY <2>7, <2>9 DEF BothAsked, Asked, WordOf
  <2>11. /\ BytesWritten(g) \subseteq Stored(a)
         /\ ~done'.err => BytesWritten(g) = Stored(a)
    <3>1. /\ BytesWritten(<<>>) = {}
          /\ BytesWritten(<<PartOf(a, 1)>>) = PartBytes(a, 1)
          /\ BytesWritten(<<PartOf(a, 2)>>) = PartBytes(a, 2)
          /\ BytesWritten(<<PartOf(a, 1), PartOf(a, 2)>>) = PartBytes(a, 1) \cup PartBytes(a, 2)
      BY <2>3, WrittenParts
    <3>2. /\ PartBytes(a, 1) \subseteq Stored(a)
          /\ IsSplit(a) => /\ PartBytes(a, 2) \subseteq Stored(a)
                           /\ Stored(a) = PartBytes(a, 1) \cup PartBytes(a, 2)
          /\ ~IsSplit(a) => Stored(a) = PartBytes(a, 1)
      BY <2>3, StoredParts
    <3>3. QED
      BY <2>10, <3>1, <3>2
  <2>12. \A m, n \in DOMAIN g : m # n => g[m].half # g[n].half
    <3>1. PartOf(a, 1).half = 1 /\ PartOf(a, 2).half = 2
      BY DEF PartOf
    <3>2. ASSUME NEW p, NEW q, p.half = 1, q.half = 2
          PROVE  /\ \A m, n \in DOMAIN <<p, q>> : m # n => <<p, q>>[m].half # <<p, q>>[n].half
                 /\ \A m, n \in DOMAIN <<p>> : m = n
                 /\ \A m, n \in DOMAIN <<q>> : m = n
                 /\ \A m, n \in DOMAIN <<>> : m = n
      <4>1. /\ DOMAIN <<p, q>> = {1, 2} /\ DOMAIN <<p>> = {1} /\ DOMAIN <<q>> = {1}
            /\ DOMAIN <<>> = {} /\ <<p, q>>[1] = p /\ <<p, q>>[2] = q
        OBVIOUS
      <4>2. QED
        BY <3>2, <4>1
    <3>3. QED
      BY <2>10, <3>1, <3>2
  <2>13. QED
    BY <2>5, <2>6, <2>8, <2>11, <2>12 DEF StoreCorrect, Stored, BytesOf, SizeOf
<1>3. QED
  BY <1>1, <1>2

-----------------------------------------------------------------------------
(* The theorems.                                                           *)

(* After reset nothing is in progress.                                     *)
LEMMA InvInit ==
  ASSUME Init
  PROVE  Inv /\ ErrorsReported /\ MtvalCorrect /\ LoadCorrect /\ StoreCorrect
<1>1. /\ ls_fsm_cs = "IDLE" /\ ~handle_misaligned_q /\ ~pmp_err_q /\ ~lsu_err_q
      /\ addr_last_q = 0 /\ id = None /\ idMulti = FALSE /\ wb = None /\ done = None
      /\ bus = <<>> /\ shown = None /\ record = NoRecord
  BY DEF Init, PipeInit, LsuInit
<1>2. TypeOK
  <2>1. handle_misaligned_q \in BOOLEAN /\ pmp_err_q \in BOOLEAN /\ lsu_err_q \in BOOLEAN
    BY DEF Init, PipeInit, LsuInit
  <2>2. 0 \in Addr
    BY LsuAssumption DEF Addr
  <2>3. ctrl_q \in Ctrl
    BY DEF Init, PipeInit, LsuInit, Ctrl, Types
  <2>4. rdata_q \in [1 .. 3 -> Byte]
    <3>1. Zero \in Byte
      BY DEF Byte
    <3>2. QED
      BY <3>1 DEF Init, PipeInit, LsuInit
  <2>5. Len(bus) <= 2
    BY <1>1
  <2>6. QED
    BY <1>1, <2>1, <2>2, <2>3, <2>4, <2>5 DEF TypeOK, LsuTypeOK, States
<1>3. Phases
  <2>1. ~Waiting
    BY <1>1 DEF Waiting
  <2>2. QED
    BY <1>1, <2>1 DEF Phases, NothingOut, FirstShown, FirstOut, BothOut, SecondShown, LastOut
<1>4. ShownWaits
  BY <1>1 DEF ShownWaits
<1>5. ErrorsReported /\ MtvalCorrect /\ LoadCorrect /\ StoreCorrect
  BY <1>1 DEF ErrorsReported, MtvalCorrect, LoadCorrect, StoreCorrect
<1>6. QED
  BY <1>2, <1>3, <1>4, <1>5, IInvInit DEF Inv

(* Every cycle takes the access in progress to its next phase.             *)
LEMMA PhaseStep ==
  ASSUME Inv, NEW gnt \in BOOLEAN, NEW rvalid \in BOOLEAN, NEW err \in BOOLEAN,
         Cycle(gnt, rvalid, err)
  PROVE  Phases'
<1>1. PICK i : i = Signals(gnt, rvalid, err)
  OBVIOUS
<1>2. LsuCycle(LsuReq(i), i)
  <2>1. PipeCycle(i)
    BY <1>1, CycleParts
  <2>2. QED
    BY <2>1 DEF PipeCycle
<1>3. QED
  BY <1>1, <1>2, IdleNoReqStep, IdleReqStep, WaitGntMisStep, WaitRvalidMisStep, WaitGntStep,
     GntsDoneStep DEF LsuCycle

(* Every cycle keeps the invariant, and what is done in it is done right.  *)
LEMMA CycleStep ==
  ASSUME Inv, NEW gnt \in BOOLEAN, NEW rvalid \in BOOLEAN, NEW err \in BOOLEAN,
         Cycle(gnt, rvalid, err)
  PROVE  /\ Inv'
         /\ ErrorsReported' /\ MtvalCorrect' /\ LoadCorrect' /\ StoreCorrect'
<1>1. PICK i : i = Signals(gnt, rvalid, err)
  OBVIOUS
<1>2. IInv'
  BY IInvCycle DEF Inv
<1>3. TypeOK' /\ ShownWaits' /\ Phases'
  BY <1>1, <1>2, TypeStep, ShownStep, PhaseStep
<1>4. ErrorsReported' /\ MtvalCorrect' /\ LoadCorrect' /\ StoreCorrect'
  BY <1>1, ErrorsStep, LoadStep, StoreStep
<1>5. QED
  BY <1>2, <1>3, <1>4 DEF Inv

(* What is proved of every state.                                          *)
Correct == Inv /\ ErrorsReported /\ MtvalCorrect /\ LoadCorrect /\ StoreCorrect

(* The same for every step.                                                *)
LEMMA CorrectStep == Correct /\ [Next]_vars => Correct'
<1> SUFFICES ASSUME Correct, [Next]_vars PROVE Correct'
  OBVIOUS
<1>1. CASE Next
  BY <1>1, CycleStep DEF Next, Correct
<1>2. CASE UNCHANGED vars
  <2>1. /\ id' = id /\ idMulti' = idMulti /\ wb' = wb /\ done' = done
        /\ ls_fsm_cs' = ls_fsm_cs /\ handle_misaligned_q' = handle_misaligned_q
        /\ pmp_err_q' = pmp_err_q /\ lsu_err_q' = lsu_err_q /\ addr_last_q' = addr_last_q
        /\ ctrl_q' = ctrl_q /\ rdata_q' = rdata_q
        /\ bus' = bus /\ shown' = shown /\ record' = record /\ closed' = closed
    BY <1>2 DEF vars, pipeVars, lsuRegs
  <2>2. TypeOK'
    BY <2>1 DEF Correct, Inv, TypeOK, LsuTypeOK
  <2>3. IInv'
    BY <1>2, IInvStep DEF Correct, Inv
  <2>4. Phases'
    BY <2>1 DEF Correct, Inv, Phases, NothingOut, FirstShown, FirstOut, BothOut, SecondShown,
                LastOut, FirstAnswered, InProgress, Waiting, Current
  <2>5. ShownWaits'
    BY <2>1 DEF Correct, Inv, ShownWaits, DataPmpErr, Transaction, DataAddr, AddrIncrReq,
                DataOffset, DataBe, DataWdata
  <2>6. ErrorsReported' /\ MtvalCorrect'
    BY <2>1 DEF Correct, ErrorsReported, MtvalCorrect, Failed
  <2>7. LoadCorrect' /\ StoreCorrect'
    BY <2>1 DEF Correct, LoadCorrect, StoreCorrect, Written
  <2>8. QED
    BY <2>2, <2>3, <2>4, <2>5, <2>6, <2>7 DEF Correct, Inv
<1>3. QED
  BY <1>1, <1>2

(* The phases and the results of the accesses are as they should be in     *)
(* every reachable state of every data side.                               *)
THEOREM AlwaysCorrect == Spec => []Correct
<1>1. Init => Correct
  BY InvInit DEF Correct
<1>2. QED
  BY <1>1, CorrectStep, PTL DEF Spec

(* Registers keep their widths, an access is reported as failed exactly    *)
(* when the PMP or the bus refused a half of it, a load writes the         *)
(* register file exactly when it did not fail, and addr_last_o (mtval)     *)
(* names the first half that failed.                                       *)
THEOREM SpecErrorsPrecise == Spec => []ErrorsPrecise
<1>1. Correct => ErrorsPrecise
  BY DEF Correct, Inv, ErrorsPrecise
<1>2. QED
  BY <1>1, AlwaysCorrect, PTL

(* Every load of whatever size, alignment and signedness that does not     *)
(* fail delivers the bytes at its addresses.                               *)
THEOREM SpecLoadCorrect == Spec => []LoadCorrect
<1>1. Correct => LoadCorrect
  BY DEF Correct
<1>2. QED
  BY <1>1, AlwaysCorrect, PTL

(* Every store writes the bytes of its register to its own addresses and   *)
(* to no other, no half of it twice, and all of them unless it fails.      *)
THEOREM SpecStoreCorrect == Spec => []StoreCorrect
<1>1. Correct => StoreCorrect
  BY DEF Correct
<1>2. QED
  BY <1>1, AlwaysCorrect, PTL

(* Bus protocol: a request that is not granted is shown again unchanged.   *)
THEOREM SpecRequestStable == Spec => RequestStable
<1>1. Correct /\ [Next]_vars =>
        [shown # None /\ ~shown.gnt => shown' # None /\ shown'.txn = shown.txn]_vars
  <2> SUFFICES ASSUME Correct, Next, shown # None, ~shown.gnt
               PROVE  shown' # None /\ shown'.txn = shown.txn
    OBVIOUS
  <2>1. PICK gnt \in BOOLEAN, rvalid \in BOOLEAN, err \in BOOLEAN : Cycle(gnt, rvalid, err)
    BY DEF Next
  <2>2. PICK i : i = Signals(gnt, rvalid, err)
    OBVIOUS
  <2>3. /\ ls_fsm_cs \in {"WAIT_GNT_MIS", "WAIT_RVALID_MIS", "WAIT_GNT"}
        /\ ~DataPmpErr /\ shown.txn = Transaction
        /\ BusMatchesFsm /\ TypeOK
    BY DEF Correct, Inv, IInv, ShownWaits
  <2>4. BusReq(LsuReq(i))
    BY <2>3 DEF BusReq, DataReq
  <2>5. shown' = [txn |-> Transaction, gnt |-> gnt]
    <3>1. i.gnt = gnt /\ Bus(i, LsuReq(i))
      BY <2>1, <2>2, CycleParts
    <3>2. QED
      BY <2>4, <3>1 DEF Bus
  <2>6. id \in Access /\ addr_last_q \in Addr
    BY <2>3 DEF BusMatchesFsm, TypeOK, LsuTypeOK
  <2>7. DataAddr \in 0 .. 4 * Words - 1 /\ DataOffset \in 0 .. 3
    BY <2>6, AddrTypes DEF Addr
  <2>8. DataAddr \div 4 \in 0 .. Words - 1 /\ id.we \in BOOLEAN /\ id.type \in Types
    BY <2>6, <2>7, LsuAssumption, ByteAddr, AccessFields
  <2>9. DataBe \in SUBSET (0 .. 3)
    BY <2>7, <2>8 DEF DataBe, Types
  <2>10. DataWdata \in [0 .. 3 -> {"reg"} \X (0 .. 3)]
    <3>1. \A k \in 0 .. 3 : (k + 4 - DataOffset) % 4 \in 0 .. 3
      BY <2>7
    <3>2. QED
      BY <3>1 DEF DataWdata
  <2>11. shown' # None
    <3> DEFINE W == [0 .. 3 -> {"reg"} \X (0 .. 3)]
               T == [word : 0 .. Words - 1, we : BOOLEAN, be : SUBSET (0 .. 3), wdata : W]
    <3>1. None \notin [txn : T, gnt : BOOLEAN]
      BY ShownAssumption
    <3>2. DataWdata \in W
      BY <2>10
    <3> HIDE DEF W
    <3>3. Transaction \in T
      BY <2>8, <2>9, <3>2 DEF Transaction
    <3> HIDE DEF T
    <3>4. [txn |-> Transaction, gnt |-> gnt] \in [txn : T, gnt : BOOLEAN]
      BY <3>3
    <3>5. QED
      BY <2>5, <3>1, <3>4
  <2>12. QED
    BY <2>3, <2>5, <2>11
<1>2. QED
  BY <1>1, AlwaysCorrect, PTL DEF Spec, RequestStable

-----------------------------------------------------------------------------
(* The memory of the testbench.  Its responder grants what is shown and    *)
(* answers in the next cycle, so that an access is always one cycle ahead  *)
(* of its answer: mem already holds the bytes of the store in progress     *)
(* that arch, the memory of the completed stores, does not hold yet.       *)

(* The answer to half h of a, if the PMP let it pass.                      *)
Answer(a, h) ==
  /\ data_rvalid <=> WordOf(a, h) \notin Denied
  /\ ~a.we /\ data_rvalid =>
       \A k \in 0 .. 3 : data_rdata[k] = arch[4 * WordOf(a, h) + k]

(* What is kept of the first half of a split access.                       *)
FirstKept(a) ==
  /\ lsu_err_q <=> First(a) \in Denied
  /\ ~a.we /\ ~lsu_err_q => \A k \in 1 .. 3 : rdata_q[k] = arch[4 * First(a) + k]

(* Where an access can be while the FSM is in its states.                  *)
TbStages ==
  /\ id \in Access \cup {None} /\ wb \in Access \cup {None}
  /\ ls_fsm_cs \in {"IDLE", "WAIT_GNT_MIS", "WAIT_RVALID_MIS", "WAIT_GNT"}
  /\ ls_fsm_cs # "IDLE" => id \in Access /\ wb = None /\ (WritebackStage \/ idMulti)
  /\ ls_fsm_cs = "IDLE" => ~handle_misaligned_q
  /\ ~WritebackStage => wb = None
  /\ ~InProgress => ~data_rvalid /\ ~pmp_err_q

(* Only what the PMP refused waits for a grant.                            *)
TbRefused ==
  ls_fsm_cs = "WAIT_GNT_MIS" \/ (ls_fsm_cs = "WAIT_GNT" /\ ~handle_misaligned_q) =>
    /\ ~handle_misaligned_q /\ ~lsu_err_q /\ pmp_err_q /\ ~data_rvalid
    /\ First(id) \in Denied
    /\ IsSplit(id) <=> ls_fsm_cs = "WAIT_GNT_MIS"

(* The answer to the first half is there, the second is shown.             *)
TbFirstOut ==
  ls_fsm_cs = "WAIT_RVALID_MIS" =>
    /\ handle_misaligned_q /\ ~lsu_err_q
    /\ pmp_err_q <=> First(id) \in Denied
    /\ IsSplit(id) /\ addr_last_q = id.addr /\ ctrl_q = CtrlOf(id)
    /\ Answer(id, 1)

(* The second half was refused, after the first was granted or refused.    *)
TbSecondRefused ==
  ls_fsm_cs = "WAIT_GNT" /\ handle_misaligned_q =>
    /\ IsSplit(id) /\ addr_last_q = id.addr /\ FirstKept(id)
    /\ Second(id) \in Denied /\ pmp_err_q /\ ~data_rvalid

(* The last answer is there, or the last half was refused.                 *)
LastHalf(a) == IF IsSplit(a) THEN 2 ELSE 1
TbLastOut ==
  ls_fsm_cs = "IDLE" /\ Waiting =>
    /\ ctrl_q = CtrlOf(Current)
    /\ Answer(Current, LastHalf(Current))
    /\ pmp_err_q <=> WordOf(Current, LastHalf(Current)) \in Denied
    /\ IsSplit(Current) => FirstKept(Current)
    /\ ~IsSplit(Current) => ~lsu_err_q

(* The halves of the access in progress that have been requested, the      *)
(* bytes half h of a store writes, and memory m after halves H of it.      *)
Issued ==
  IF ls_fsm_cs = "IDLE" THEN IF Waiting THEN Halves(Current) ELSE {}
  ELSE IF handle_misaligned_q THEN {1} ELSE {}
Touches(a, h, b) == a.we /\ b \div 4 = WordOf(a, h) /\ b % 4 \in LanesOf(a, h)
After(a, H, m, b) ==
  IF \E h \in H : Touches(a, h, b) THEN <<"reg", ((b % 4) + 4 - Off(a)) % 4>> ELSE m[b]

(* How far mem is ahead of arch, in the words the PMP lets pass.           *)
Ahead(a, H, m, n) == \A b \in Addr : b \div 4 \notin Denied => n[b] = After(a, H, m, b)
TbMem == Ahead(Current, Issued, arch, mem)

(* The inductive invariant of the third part.                              *)
TbInv == TbStages /\ TbRefused /\ TbFirstOut /\ TbSecondRefused /\ TbLastOut /\ TbMem

-----------------------------------------------------------------------------
(* One half of a store, or a store the PMP refused, in the memory.         *)
LEMMA AheadOfHalf ==
  ASSUME NEW a \in Access, NEW h \in {1, 2}, NEW H, NEW m, Ahead(a, H, m, mem),
         \/ mem' = mem /\ (~a.we \/ WordOf(a, h) \in Denied)
         \/ a.we /\ mem' = mem_wr32(TxnOf(a, h))
  PROVE  Ahead(a, H \cup {h}, m, mem')
<1> SUFFICES ASSUME NEW b \in Addr, b \div 4 \notin Denied
             PROVE  mem'[b] = After(a, H \cup {h}, m, b)
  BY DEF Ahead
<1>1. mem[b] = After(a, H, m, b)
  BY DEF Ahead
<1>2. (\E g \in H \cup {h} : Touches(a, g, b)) <=>
         (\E g \in H : Touches(a, g, b)) \/ Touches(a, h, b)
  OBVIOUS
<1>3. CASE mem' = mem /\ (~a.we \/ WordOf(a, h) \in Denied)
  <2>1. ~Touches(a, h, b)
    BY <1>3 DEF Touches
  <2>2. QED
    BY <1>1, <1>2, <1>3, <2>1 DEF After
<1>4. CASE a.we /\ mem' = mem_wr32(TxnOf(a, h))
  <2>1. /\ TxnOf(a, h).word = WordOf(a, h) /\ TxnOf(a, h).be = LanesOf(a, h)
        /\ \A k \in 0 .. 3 : TxnOf(a, h).wdata[k] = <<"reg", (k + 4 - Off(a)) % 4>>
    BY DEF TxnOf
  <2>2. mem'[b] = IF b \div 4 = TxnOf(a, h).word /\ b % 4 \in TxnOf(a, h).be
                  THEN TxnOf(a, h).wdata[b % 4] ELSE mem[b]
    BY <1>4 DEF mem_wr32
  <2>3. b % 4 \in 0 .. 3
    BY LsuAssumption DEF Addr
  <2>4. mem'[b] = IF Touches(a, h, b) THEN <<"reg", ((b % 4) + 4 - Off(a)) % 4>> ELSE mem[b]
    BY <1>4, <2>1, <2>2, <2>3 DEF Touches
  <2>5. QED
    BY <1>1, <1>2, <2>4 DEF After
<1>5. QED
  BY <1>3, <1>4

(* A store that completes: the bytes at its addresses are those its halves *)
(* have written.                                                           *)
LEMMA CommittedHalves ==
  ASSUME NEW a \in Access, a.we, NEW b \in Addr, NEW m
  PROVE  After(a, Halves(a), m, b) =
           IF \E k \in DOMAIN BytesOf(a) : BytesOf(a)[k] = b
           THEN <<"reg", CHOOSE k \in DOMAIN BytesOf(a) : BytesOf(a)[k] = b>>
           ELSE m[b]
<1> DEFINE off == Off(a)
           n == SizeOf(a)
           lane == b % 4
           j == (lane + 4 - off) % 4
           P(k) == BytesOf(a)[k] = b
<1>1. off \in 0 .. 3 /\ n \in {1, 2, 4} /\ lane \in 0 .. 3 /\ b = 4 * (b \div 4) + lane
  <2>1. Words \in Nat \ {0} /\ b \in 0 .. 4 * Words - 1
    BY LsuAssumption DEF Addr
  <2>2. b = 4 * (b \div 4) + lane /\ lane \in 0 .. 3
    BY <2>1, ByteAddr, Zenon
  <2>3. QED
    BY <2>2, AccessFields, Sizes
<1>2. DOMAIN BytesOf(a) = 0 .. n - 1 /\ \A k \in 0 .. n - 1 : P(k) <=> (a.addr + k) % (4 * Words) = b
  BY DEF BytesOf
<1>3. Halves(a) = IF IsSplit(a) THEN {1, 2} ELSE {1}
  BY DEF Halves, IsSplit, Off
<1>4. First(a) \in 0 .. Words - 1 /\ Second(a) \in 0 .. Words - 1 /\ b \div 4 \in Int
  BY AccessFields, <1>1 DEF Addr
<1>d. ASSUME NEW u \in Nat, NEW v \in 0 .. 3, b = 4 * u + v
      PROVE  b \div 4 = u /\ lane = v
  BY <1>d
<1>5. ASSUME NEW k \in 0 .. n - 1, P(k)
      PROVE  k = j /\ \E h \in Halves(a) : Touches(a, h, b)
  <2>1. (a.addr + k) % (4 * Words) = b /\ k \in 0 .. 3
    BY <1>1, <1>2, <1>5
  <2>2. CASE off + k <= 3
    <3>1. b = 4 * First(a) + (off + k)
      BY <2>1, <2>2, ByteAt
    <3>2. b \div 4 = First(a) /\ lane = off + k
      <4>1. off + k \in 0 .. 3
        BY <1>1, <2>1, <2>2
      <4>2. QED
        BY <1>4, <1>d, <3>1, <4>1
    <3>3. lane \in LanesOf(a, 1)
      BY <2>2, <3>2, LaneFacts
    <3>4. j = k
      BY <1>1, <2>1, <3>2
    <3>5. Touches(a, 1, b)
      BY <3>2, <3>3 DEF Touches, WordOf
    <3>6. QED
      BY <1>3, <3>4, <3>5
  <2>3. CASE ~(off + k <= 3)
    <3>1. b = 4 * Second(a) + (off + k - 4)
      BY <2>1, <2>3, ByteAt
    <3>2. b \div 4 = Second(a) /\ lane = off + k - 4
      <4>1. off + k - 4 \in 0 .. 3
        BY <1>1, <2>1, <2>3
      <4>2. QED
        BY <1>4, <1>d, <3>1, <4>1
    <3>3. IsSplit(a) /\ lane \in LanesOf(a, 2)
      BY <2>3, <3>2, LaneFacts
    <3>4. j = k
      BY <1>1, <2>1, <3>2
    <3>5. Touches(a, 2, b)
      BY <3>2, <3>3 DEF Touches, WordOf
    <3>6. QED
      BY <1>3, <3>3, <3>4, <3>5
  <2>4. QED
    BY <2>2, <2>3
<1>6. ASSUME NEW h \in Halves(a), Touches(a, h, b)
      PROVE  \E k \in 0 .. n - 1 : P(k)
  <2>1. CASE h = 1
    <3>1. b \div 4 = First(a) /\ lane \in LanesOf(a, 1)
      BY <1>6, <2>1 DEF Touches, WordOf
    <3>2. lane - off \in 0 .. n - 1 /\ off + (lane - off) = lane /\ lane - off \in 0 .. 3
      BY <1>1, <3>1, LaneFacts
    <3>3. (a.addr + (lane - off)) % (4 * Words) = 4 * First(a) + (off + (lane - off))
      BY <1>1, <3>2, ByteAt
    <3>4. P(lane - off)
      BY <1>1, <1>2, <3>1, <3>2, <3>3
    <3>5. QED
      BY <3>2, <3>4
  <2>2. CASE h = 2 /\ IsSplit(a)
    <3>1. b \div 4 = Second(a) /\ lane \in LanesOf(a, 2)
      BY <1>6, <2>2 DEF Touches, WordOf
    <3>2. PICK k \in 0 .. n - 1 : k = lane + 4 - off
      BY <2>2, <3>1, LaneFacts
    <3>3. k \in 0 .. 3 /\ ~(off + k <= 3) /\ off + k - 4 = lane
      BY <1>1, <3>2
    <3>4. (a.addr + k) % (4 * Words) = 4 * Second(a) + (off + k - 4)
      BY <3>3, ByteAt
    <3>5. P(k)
      BY <1>1, <1>2, <3>1, <3>3, <3>4
    <3>6. QED
      BY <3>5
  <2>3. QED
    BY <1>3, <1>6, <2>1, <2>2
<1> HIDE DEF off, n, lane, j, P
<1>7. CASE \E k \in 0 .. n - 1 : P(k)
  <2>1. (CHOOSE k \in 0 .. n - 1 : P(k)) = j
    <3>1. (CHOOSE k \in 0 .. n - 1 : P(k)) \in 0 .. n - 1 /\ P(CHOOSE k \in 0 .. n - 1 : P(k))
      BY <1>7, Zenon
    <3>2. QED
      BY <1>5, <3>1
  <2>2. \E h \in Halves(a) : Touches(a, h, b)
    BY <1>5, <1>7
  <2>3. After(a, Halves(a), m, b) = <<"reg", j>>
    BY <2>2 DEF After, j, lane, off
  <2>4. QED
    BY <1>2, <1>7, <2>1, <2>3 DEF P
<1>8. CASE ~\E k \in 0 .. n - 1 : P(k)
  <2>1. ~\E h \in Halves(a) : Touches(a, h, b)
    BY <1>6, <1>8
  <2>2. QED
    BY <1>2, <1>8, <2>1 DEF After, P
<1>9. QED
  BY <1>7, <1>8

-----------------------------------------------------------------------------
(* One cycle of the core and the responder.                                *)

(* The cycle, with i the signals of the data bus.                          *)
TbStep(i) ==
  /\ i.rvalid = data_rvalid /\ i.err = FALSE /\ i.rdata = data_rdata
  /\ i.gnt <=> BusReq(LsuReq(i))
  /\ PipeCycle(i) /\ Commit(i)
  /\ data_rvalid' <=> i.gnt
  /\ i.gnt /\ id.we => mem' = mem_wr32(Transaction)
  /\ i.gnt /\ ~id.we => data_rdata' = mem_rd32(Transaction.word) /\ mem' = mem
  /\ ~i.gnt => mem' = mem

(* Whether the core makes a request does not depend on the grant.          *)
LEMMA TbCycleParts == TbCycle => \E i : TbStep(i)
<1> SUFFICES ASSUME TbCycle PROVE \E i : TbStep(i)
  OBVIOUS
<1> DEFINE j == [gnt |-> FALSE, rvalid |-> data_rvalid, err |-> FALSE, rdata |-> data_rdata]
           data_req == BusReq(LsuReq(j))
           i == [j EXCEPT !.gnt = data_req]
<1>1. i.rvalid = data_rvalid /\ i.err = FALSE /\ i.rdata = data_rdata /\ i.gnt = data_req
  OBVIOUS
<1>2. j.rvalid = data_rvalid /\ j.err = FALSE
  OBVIOUS
<1>3. /\ PipeCycle(i) /\ Commit(i) /\ data_rvalid' = data_req
      /\ \/ data_req /\ id.we /\ mem' = mem_wr32(Transaction)
         \/ data_req /\ ~id.we /\ data_rdata' = mem_rd32(Transaction.word) /\ mem' = mem
         \/ ~data_req /\ mem' = mem
  BY DEF TbCycle
<1> HIDE DEF i, j
<1>4. LsuReq(i) <=> LsuReq(j)
  BY <1>1, <1>2 DEF LsuReq, OutstandingMemoryAccess, LsuRespValid, LsuRespErr, DataOrPmpErr
<1>5. data_req <=> BusReq(LsuReq(i))
  BY <1>4 DEF BusReq, DataReq
<1> HIDE DEF data_req
<1>6. TbStep(i)
  BY <1>1, <1>3, <1>5 DEF TbStep
<1>7. QED
  BY <1>6

(* In the idle state the access in progress, if there is one, gets its     *)
(* response now.                                                           *)
LEMMA TbIdle ==
  ASSUME TbInv, NEW i, TbStep(i), ls_fsm_cs = "IDLE"
  PROVE  /\ LsuRespValid(i) <=> Waiting
         /\ LsuRespErr(i) <=> Waiting /\ (lsu_err_q \/ pmp_err_q)
         /\ Responding(i) = IF Waiting THEN Current ELSE None
         /\ Waiting => Current \in Access /\ Current # None
<1>1. WritebackStage \in BOOLEAN /\ None \notin Access
  BY PipelineAssumption
<1>2. i.rvalid = data_rvalid /\ i.err = FALSE
  BY DEF TbStep
<1>3. Waiting => data_rvalid \/ pmp_err_q
  BY DEF TbInv, TbLastOut, Answer
<1>4. ~Waiting => ~data_rvalid /\ ~pmp_err_q
  BY DEF TbInv, TbStages, InProgress
<1>5. LsuRespValid(i) <=> Waiting
  BY <1>2, <1>3, <1>4 DEF LsuRespValid
<1>6. LsuRespErr(i) <=> Waiting /\ (lsu_err_q \/ pmp_err_q)
  BY <1>2, <1>5 DEF LsuRespErr, DataOrPmpErr
<1>7. Responding(i) = IF Waiting THEN Current ELSE None
  BY <1>1, <1>5 DEF Responding, Waiting, Current
<1>8. Waiting => Current \in Access /\ Current # None
  BY <1>1 DEF Waiting, Current, TbInv, TbStages
<1>9. QED
  BY <1>5, <1>6, <1>7, <1>8

(* ... so that mem is what the completed stores made it.                   *)
LEMMA TbIdleMem ==
  ASSUME TbInv, NEW i, TbStep(i), ls_fsm_cs = "IDLE", NEW a
  PROVE  Ahead(a, {}, arch', mem)
<1> SUFFICES ASSUME NEW b \in Addr, b \div 4 \notin Denied PROVE mem[b] = arch'[b]
  BY DEF Ahead, After
<1>1. mem[b] = After(Current, Issued, arch, b)
  BY DEF TbInv, TbMem, Ahead
<1>2. CASE Waiting /\ Current.we
  <2>1. PICK c : c = Current
    OBVIOUS
  <2>2. Responding(i) = c /\ c \in Access /\ c # None /\ c.we
    BY <1>2, <2>1, TbIdle
  <2>3. arch'[b] = IF \E k \in DOMAIN BytesOf(c) : BytesOf(c)[k] = b
                   THEN <<"reg", CHOOSE k \in DOMAIN BytesOf(c) : BytesOf(c)[k] = b>>
                   ELSE arch[b]
    BY <2>2 DEF TbStep, Commit
  <2>4. arch'[b] = After(c, Halves(c), arch, b)
    BY <2>2, <2>3, CommittedHalves
  <2>5. Issued = Halves(c)
    BY <1>2, <2>1 DEF Issued
  <2>6. QED
    BY <1>1, <2>1, <2>4, <2>5
<1>3. CASE Waiting /\ ~Current.we
  <2>1. arch' = arch
    BY <1>3, TbIdle DEF TbStep, Commit
  <2>2. QED
    BY <1>1, <1>3, <2>1 DEF After, Touches
<1>4. CASE ~Waiting
  <2>1. arch' = arch
    BY <1>4, TbIdle DEF TbStep, Commit
  <2>2. Issued = {}
    BY <1>4 DEF Issued
  <2>3. QED
    BY <1>1, <2>1, <2>2 DEF After
<1>5. QED
  BY <1>2, <1>3, <1>4

(* While the FSM is busy no access completes.                              *)
LEMMA TbBusy ==
  ASSUME TbInv, NEW i, TbStep(i), ls_fsm_cs # "IDLE"
  PROVE  /\ Responding(i) = None /\ arch' = arch
         /\ id \in Access /\ Current = id
         /\ ~LsuRespValid(i) /\ ~LsuRespErr(i)
         /\ Ahead(id, Issued, arch', mem)
<1>1. ~LsuRespValid(i) /\ ~LsuRespErr(i)
  BY DEF LsuRespValid, LsuRespErr
<1>2. Responding(i) = None
  BY <1>1 DEF Responding
<1>3. arch' = arch
  BY <1>2 DEF TbStep, Commit
<1>4. id \in Access /\ Current = id
  BY DEF TbInv, TbStages, Current
<1>5. QED
  BY <1>1, <1>2, <1>3, <1>4 DEF TbInv, TbMem

(* Where the access in ID goes when it is requested or being requested.    *)
LEMMA TbMoves ==
  ASSUME TbInv, NEW i, TbStep(i), ls_fsm_cs # "IDLE" \/ LsuReq(i)
  PROVE  /\ id \in Access
         /\ id' \in Access \cup {None} /\ wb' \in Access \cup {None}
         /\ ls_fsm_cs' # "IDLE" => id' = id /\ wb' = None /\ (WritebackStage \/ idMulti')
         /\ ls_fsm_cs' = "IDLE" => Waiting' /\ Current' = id
         /\ ~WritebackStage => wb' = None
<1>1. WritebackStage \in BOOLEAN /\ None \notin Access /\ Fetched \subseteq Access \cup {None}
  BY PipelineAssumption DEF Fetched
<1>2. id # None /\ id \in Access
  BY <1>1 DEF LsuReq, TbInv, TbStages
<1>3. /\ ~LsuRespErr(i) \/ ~WritebackStage
      /\ WritebackStage => (IF LsuRespValid(i) THEN None ELSE wb) = None
      /\ ~WritebackStage => ~(idMulti /\ LsuRespValid(i))
  <2>1. CASE ls_fsm_cs # "IDLE"
    BY <2>1, TbBusy DEF TbInv, TbStages
  <2>2. CASE ls_fsm_cs = "IDLE"
    BY <2>2, TbIdle DEF LsuReq, Waiting
  <2>3. QED
    BY <2>1, <2>2
<1>4. IdWithWb(i) \/ IdWithoutWb(i)
  BY DEF TbStep, PipeCycle
<1>5. CASE IdWithWb(i)
  <2>1. LsuReqDone(LsuReq(i)) <=> ls_fsm_cs' = "IDLE"
    BY DEF LsuReqDone
  <2>2. QED
    BY <1>1, <1>2, <1>3, <1>5, <2>1 DEF IdWithWb, Waiting, Current
<1>6. CASE IdWithoutWb(i)
  BY <1>1, <1>2, <1>3, <1>6 DEF IdWithoutWb, Waiting, Current
<1>7. QED
  BY <1>4, <1>5, <1>6

(* Half h of the access in ID is shown: it is granted unless the PMP       *)
(* refuses it, and is in the memory, or answered from it, in the next      *)
(* cycle.                                                                  *)
LEMMA TbRequest ==
  ASSUME NEW i, TbStep(i), NEW a \in Access, a = id, NEW h \in {1, 2}, NEW H,
         DataReq(LsuReq(i)), Transaction = TxnOf(a, h),
         DataPmpErr <=> WordOf(a, h) \in Denied,
         Ahead(a, H, arch', mem)
  PROVE  /\ i.gnt <=> WordOf(a, h) \notin Denied
         /\ Answer(a, h)'
         /\ Ahead(a, H \cup {h}, arch', mem')
         /\ ~i.gnt => Ahead(a, H, arch', mem')
<1>1. i.gnt <=> WordOf(a, h) \notin Denied
  BY DEF TbStep, BusReq
<1>2. TxnOf(a, h).word = WordOf(a, h)
  BY DEF TxnOf
<1>3. Ahead(a, H \cup {h}, arch', mem')
  <2>1. \/ mem' = mem /\ (~a.we \/ WordOf(a, h) \in Denied)
        \/ a.we /\ mem' = mem_wr32(TxnOf(a, h))
    BY <1>1 DEF TbStep
  <2>2. PICK m : m = arch'
    OBVIOUS
  <2>3. Ahead(a, H \cup {h}, m, mem')
    BY <2>1, <2>2, AheadOfHalf
  <2>4. QED
    BY <2>2, <2>3
<1>4. ~i.gnt => Ahead(a, H, arch', mem')
  BY DEF TbStep
<1>5. ASSUME ~a.we, i.gnt, NEW k \in 0 .. 3
      PROVE  data_rdata'[k] = arch'[4 * WordOf(a, h) + k]
  <2>1. data_rdata'[k] = mem[4 * WordOf(a, h) + k]
    BY <1>2, <1>5 DEF TbStep, mem_rd32
  <2>2. PICK w : w = WordOf(a, h)
    OBVIOUS
  <2>3. w \in 0 .. Words - 1 /\ w \notin Denied
    BY <1>1, <1>5, <2>2, AccessFields DEF WordOf
  <2>4. 4 * w + k \in Addr /\ (4 * w + k) \div 4 = w
    <3>1. Words \in Nat
      BY LsuAssumption
    <3>2. ASSUME NEW u \in Nat, NEW v \in 0 .. 3 PROVE (4 * u + v) \div 4 = u
      OBVIOUS
    <3>3. QED
      BY <2>3, <3>1, <3>2 DEF Addr
  <2>5. mem[4 * w + k] = After(a, H, arch', 4 * w + k)
    BY <2>3, <2>4 DEF Ahead
  <2>6. QED
    BY <1>5, <2>1, <2>2, <2>5 DEF After, Touches
<1>6. Answer(a, h)'
  <2>1. data_rvalid' <=> i.gnt
    BY DEF TbStep
  <2>2. QED
    BY <1>1, <1>5, <2>1 DEF Answer
<1>7. QED
  BY <1>1, <1>3, <1>4, <1>6

-----------------------------------------------------------------------------
(* The phases of an access, one cycle each.                                *)

(* How the last phase is reached: a has been requested, both halves of it  *)
(* if it is split.                                                         *)
LEMMA ToTbLastOut ==
  ASSUME TbInv, NEW i, TbStep(i), ls_fsm_cs # "IDLE" \/ LsuReq(i),
         NEW a, a = id, ls_fsm_cs' = "IDLE", ~handle_misaligned_q',
         ctrl_q' = CtrlOf(a), Answer(a, LastHalf(a))',
         pmp_err_q' <=> WordOf(a, LastHalf(a)) \in Denied,
         IsSplit(a) => FirstKept(a)', ~IsSplit(a) => ~lsu_err_q',
         Ahead(a, Halves(a), arch', mem')
  PROVE  TbInv'
<1>1. /\ id' \in Access \cup {None} /\ wb' \in Access \cup {None}
      /\ Waiting' /\ Current' = a /\ (~WritebackStage => wb' = None)
  BY TbMoves
<1>2. TbStages'
  BY <1>1 DEF TbStages, InProgress
<1>3. TbRefused' /\ TbFirstOut' /\ TbSecondRefused'
  BY DEF TbRefused, TbFirstOut, TbSecondRefused
<1>4. TbLastOut'
  BY <1>1 DEF TbLastOut, Answer, FirstKept, LastHalf
<1>5. TbMem'
  <2>1. Issued' = Halves(a)
    BY <1>1 DEF Issued
  <2>2. QED
    BY <1>1, <2>1 DEF TbMem
<1>6. QED
  BY <1>2, <1>3, <1>4, <1>5 DEF TbInv

(* How a phase before the last is reached.                                 *)
LEMMA ToTbWaiting ==
  ASSUME TbInv, NEW i, TbStep(i), ls_fsm_cs # "IDLE" \/ LsuReq(i), NEW a, a = id,
         ls_fsm_cs' \in {"WAIT_GNT_MIS", "WAIT_RVALID_MIS", "WAIT_GNT"},
         TbRefused', TbFirstOut', TbSecondRefused',
         Ahead(a, IF handle_misaligned_q' THEN {1} ELSE {}, arch', mem')
  PROVE  TbInv'
<1>1. /\ id \in Access /\ id' = a /\ wb' = None /\ (WritebackStage \/ idMulti')
  BY TbMoves
<1>2. TbStages'
  BY <1>1 DEF TbStages, InProgress
<1>3. TbLastOut'
  BY DEF TbLastOut
<1>4. TbMem'
  <2>1. Issued' = (IF handle_misaligned_q' THEN {1} ELSE {}) /\ Current' = a
    BY <1>1 DEF Issued, Current
  <2>2. QED
    BY <2>1 DEF TbMem
<1>5. QED
  BY <1>2, <1>3, <1>4 DEF TbInv

(* No request is made.                                                     *)
LEMMA TbIdleNoReqStep ==
  ASSUME TbInv, NEW i, TbStep(i), IdleNoReq(LsuReq(i), i)
  PROVE  TbInv'
<1>1. /\ ls_fsm_cs = "IDLE" /\ ls_fsm_cs' = "IDLE" /\ ~LsuReq(i)
      /\ pmp_err_q' = FALSE /\ handle_misaligned_q' = handle_misaligned_q
  BY DEF IdleNoReq
<1>2. ~i.gnt /\ ~data_rvalid' /\ mem' = mem
  BY <1>1 DEF TbStep, BusReq, DataReq
<1>3. WritebackStage \in BOOLEAN /\ None \notin Access /\ Fetched \subseteq Access \cup {None}
  BY PipelineAssumption DEF Fetched
<1>4. LsuRespValid(i) <=> Waiting
  BY <1>1, TbIdle
<1>5. /\ id' \in Access \cup {None} /\ wb' = None
      /\ ~WritebackStage => idMulti' = FALSE
  <2>1. id \in Access \cup {None}
    BY DEF TbInv, TbStages
  <2>2. CASE IdWithWb(i)
    <3>1. ~LsuReqDone(LsuReq(i)) /\ WritebackStage
      BY <1>1, <2>2 DEF LsuReqDone, IdWithWb
    <3>2. wb' = IF LsuRespValid(i) THEN None ELSE wb
      BY <2>2, <3>1 DEF IdWithWb
    <3>3. wb' = None
      BY <1>4, <3>1, <3>2 DEF Waiting
    <3>4. QED
      BY <1>3, <2>1, <2>2, <3>1, <3>3 DEF IdWithWb
  <2>3. CASE IdWithoutWb(i)
    BY <1>1, <1>3, <1>4, <2>1, <2>3 DEF IdWithoutWb, LsuReq, Waiting
  <2>4. QED
    BY <2>2, <2>3 DEF TbStep, PipeCycle
<1>6. ~Waiting'
  BY <1>3, <1>5 DEF Waiting
<1>7. TbStages'
  BY <1>1, <1>2, <1>5, <1>6 DEF TbInv, TbStages, InProgress
<1>8. TbRefused' /\ TbFirstOut' /\ TbSecondRefused' /\ TbLastOut'
  BY <1>1, <1>6 DEF TbRefused, TbFirstOut, TbSecondRefused, TbLastOut
<1>9. TbMem'
  <2>1. PICK a : a = Current'
    OBVIOUS
  <2>2. Issued' = {}
    BY <1>1, <1>6 DEF Issued
  <2>3. Ahead(a, {}, arch', mem)
    BY <1>1, TbIdleMem
  <2>4. QED
    BY <1>2, <2>1, <2>2, <2>3 DEF TbMem
<1>10. QED
  BY <1>7, <1>8, <1>9 DEF TbInv

(* The access in ID is requested, the one before it having its response.   *)
LEMMA TbIdleReqStep ==
  ASSUME TbInv, NEW i, TbStep(i), IdleReq(LsuReq(i), i), NEW a, a = id
  PROVE  TbInv'
<1>1. /\ ls_fsm_cs = "IDLE" /\ LsuReq(i) /\ pmp_err_q' = DataPmpErr /\ lsu_err_q' = FALSE
      /\ \/ /\ i.gnt /\ CtrlUpdate /\ AddrUpdate(TRUE)
            /\ handle_misaligned_q' = SplitMisalignedAccess
            /\ ls_fsm_cs' = IF SplitMisalignedAccess THEN "WAIT_RVALID_MIS" ELSE "IDLE"
         \/ /\ ~i.gnt /\ handle_misaligned_q' = handle_misaligned_q
            /\ ls_fsm_cs' = IF SplitMisalignedAccess THEN "WAIT_GNT_MIS" ELSE "WAIT_GNT"
  BY DEF IdleReq
<1>2. a \in Access /\ ~handle_misaligned_q /\ ~AddrIncrReq
  BY <1>1, TbMoves DEF TbInv, TbStages, AddrIncrReq
<1>3. /\ DataAddr = a.addr /\ DataOffset = Off(a)
      /\ DataPmpErr <=> WordOf(a, 1) \in Denied
      /\ SplitMisalignedAccess <=> IsSplit(a)
      /\ Transaction = TxnOf(a, 1)
  BY <1>2, SignalsFirst DEF WordOf
<1>4. /\ i.gnt <=> WordOf(a, 1) \notin Denied
      /\ Answer(a, 1)'
      /\ Ahead(a, {1}, arch', mem')
      /\ ~i.gnt => Ahead(a, {}, arch', mem')
  <2>1. Ahead(a, {}, arch', mem)
    BY <1>1, TbIdleMem
  <2>2. DataReq(LsuReq(i))
    BY <1>1 DEF DataReq
  <2>3. {} \cup {1} = {1} /\ 1 \in {1, 2}
    OBVIOUS
  <2>4. QED
    BY <1>2, <1>3, <2>1, <2>2, <2>3, TbRequest
<1>5. CASE i.gnt /\ ~IsSplit(a)
  <2>1. ls_fsm_cs' = "IDLE" /\ ~handle_misaligned_q'
    BY <1>1, <1>3, <1>5
  <2>2. ctrl_q' = CtrlOf(a)
    BY <1>1, <1>3, <1>5 DEF CtrlUpdate, CtrlOf
  <2>3. LastHalf(a) = 1 /\ Halves(a) = {1}
    BY <1>5 DEF LastHalf, Halves, IsSplit, Off
  <2>4. pmp_err_q' <=> WordOf(a, 1) \in Denied
    BY <1>1, <1>3
  <2>5. QED
    BY <1>1, <1>4, <1>5, <2>1, <2>2, <2>3, <2>4, ToTbLastOut
<1>6. CASE i.gnt /\ IsSplit(a)
  <2>1. ls_fsm_cs' = "WAIT_RVALID_MIS" /\ handle_misaligned_q'
    BY <1>1, <1>3, <1>6
  <2>2. ctrl_q' = CtrlOf(a) /\ addr_last_q' = a.addr
    BY <1>1, <1>2, <1>3, <1>6 DEF CtrlUpdate, CtrlOf, AddrUpdate
  <2>3. id' = a
    BY <1>1, <2>1, TbMoves
  <2>4. TbFirstOut'
    BY <1>1, <1>3, <1>4, <1>6, <2>1, <2>2, <2>3 DEF TbFirstOut, Answer, WordOf
  <2>5. TbRefused' /\ TbSecondRefused'
    BY <2>1 DEF TbRefused, TbSecondRefused
  <2>6. QED
    BY <1>1, <1>4, <2>1, <2>4, <2>5, ToTbWaiting
<1>7. CASE ~i.gnt
  <2>1. /\ ls_fsm_cs' = (IF IsSplit(a) THEN "WAIT_GNT_MIS" ELSE "WAIT_GNT")
        /\ ~handle_misaligned_q'
    <3>1. ls_fsm_cs' = IF SplitMisalignedAccess THEN "WAIT_GNT_MIS" ELSE "WAIT_GNT"
      BY <1>1, <1>7
    <3>2. handle_misaligned_q' = handle_misaligned_q
      BY <1>1, <1>7
    <3>3. ~handle_misaligned_q'
      BY <1>2, <3>2
    <3>4. SplitMisalignedAccess <=> IsSplit(a)
      BY <1>3
    <3>5. QED
      BY <3>1, <3>3, <3>4
  <2>2. id' = a
    BY <1>1, <2>1, TbMoves
  <2>3. /\ pmp_err_q' /\ ~lsu_err_q' /\ ~data_rvalid' /\ First(a) \in Denied
    BY <1>1, <1>3, <1>4, <1>7 DEF WordOf, TbStep
  <2>4. TbRefused'
    BY <2>1, <2>2, <2>3 DEF TbRefused
  <2>5. TbFirstOut' /\ TbSecondRefused'
    BY <2>1 DEF TbFirstOut, TbSecondRefused
  <2>6. QED
    BY <1>1, <1>4, <1>7, <2>1, <2>4, <2>5, ToTbWaiting
<1>8. QED
  BY <1>5, <1>6, <1>7

(* The first half of a split access was refused.                           *)
LEMMA TbWaitGntMisStep ==
  ASSUME TbInv, NEW i, TbStep(i), WaitGntMis(i), NEW a, a = id
  PROVE  TbInv'
<1>1. ls_fsm_cs = "WAIT_GNT_MIS"
  BY DEF WaitGntMis
<1>2. /\ ~handle_misaligned_q /\ ~lsu_err_q /\ pmp_err_q
      /\ First(a) \in Denied /\ IsSplit(a)
  BY <1>1 DEF TbInv, TbRefused
<1>3. a \in Access /\ ~AddrIncrReq /\ Issued = {} /\ Ahead(a, Issued, arch', mem)
  BY <1>1, <1>2, TbBusy DEF AddrIncrReq, Issued
<1>4. /\ DataAddr = a.addr /\ DataOffset = Off(a)
      /\ DataPmpErr <=> WordOf(a, 1) \in Denied
      /\ Transaction = TxnOf(a, 1)
  BY <1>2, <1>3, SignalsFirst DEF WordOf
<1>5. /\ Answer(a, 1)'
      /\ Ahead(a, {1}, arch', mem')
  <2>1. DataReq(LsuReq(i))
    BY <1>1 DEF DataReq
  <2>2. {} \cup {1} = {1} /\ 1 \in {1, 2}
    OBVIOUS
  <2>3. QED
    BY <1>3, <1>4, <2>1, <2>2, TbRequest
<1>6. /\ ls_fsm_cs' = "WAIT_RVALID_MIS" /\ handle_misaligned_q' = TRUE
      /\ ctrl_q' = CtrlOf(a) /\ addr_last_q' = a.addr
      /\ pmp_err_q' = pmp_err_q /\ lsu_err_q' = lsu_err_q
  BY <1>2, <1>3, <1>4 DEF WaitGntMis, CtrlUpdate, CtrlOf, AddrUpdate
<1>7. id' = a
  BY <1>1, <1>6, TbMoves
<1>8. TbFirstOut'
  BY <1>2, <1>5, <1>6, <1>7 DEF TbFirstOut, Answer
<1>9. TbRefused' /\ TbSecondRefused'
  BY <1>6 DEF TbRefused, TbSecondRefused
<1>10. QED
  BY <1>1, <1>5, <1>6, <1>8, <1>9, ToTbWaiting

(* The first half is answered or was refused, the second requested.        *)
LEMMA TbWaitRvalidMisStep ==
  ASSUME TbInv, NEW i, TbStep(i), WaitRvalidMis(i), NEW a, a = id
  PROVE  TbInv'
<1>1. ls_fsm_cs = "WAIT_RVALID_MIS"
  BY DEF WaitRvalidMis
<1>2. /\ handle_misaligned_q /\ ~lsu_err_q /\ (pmp_err_q <=> First(a) \in Denied)
      /\ IsSplit(a) /\ addr_last_q = a.addr /\ ctrl_q = CtrlOf(a)
      /\ Answer(a, 1)
  BY <1>1 DEF TbInv, TbFirstOut
<1>3. a \in Access /\ AddrIncrReq /\ Issued = {1} /\ Ahead(a, Issued, arch', mem) /\ arch' = arch
  BY <1>1, <1>2, TbBusy DEF AddrIncrReq, Issued
<1>4. /\ DataPmpErr <=> WordOf(a, 2) \in Denied
      /\ Transaction = TxnOf(a, 2)
  BY <1>2, <1>3, SignalsSecond DEF WordOf
<1>5. /\ i.gnt <=> WordOf(a, 2) \notin Denied
      /\ Answer(a, 2)'
      /\ Ahead(a, {1, 2}, arch', mem')
      /\ ~i.gnt => Ahead(a, {1}, arch', mem')
  <2>1. DataReq(LsuReq(i))
    BY <1>1 DEF DataReq
  <2>2. {1} \cup {2} = {1, 2} /\ 2 \in {1, 2}
    OBVIOUS
  <2>3. QED
    BY <1>3, <1>4, <2>1, <2>2, TbRequest
<1>6. /\ i.rvalid = data_rvalid /\ i.err = FALSE /\ i.rdata = data_rdata
      /\ data_rvalid' <=> i.gnt
  BY DEF TbStep
<1>7. i.rvalid \/ pmp_err_q
  BY <1>2, <1>6 DEF Answer, WordOf
<1>8. /\ pmp_err_q' = DataPmpErr /\ lsu_err_q' = (i.err \/ pmp_err_q) /\ RdataUpdate(i)
      /\ ls_fsm_cs' = (IF i.gnt THEN "IDLE" ELSE "WAIT_GNT")
      /\ AddrUpdate(i.gnt /\ ~(i.err \/ pmp_err_q))
      /\ handle_misaligned_q' = ~i.gnt /\ ctrl_q' = ctrl_q
  BY <1>7 DEF WaitRvalidMis
<1>9. FirstKept(a)'
  <2>1. lsu_err_q' <=> First(a) \in Denied
    BY <1>2, <1>6, <1>8
  <2>2. ASSUME ~a.we, ~lsu_err_q', NEW k \in 1 .. 3
        PROVE  rdata_q'[k] = arch'[4 * First(a) + k]
    <3>1. rdata_q'[k] = data_rdata[k]
      BY <1>2, <1>6, <1>8, <2>2 DEF RdataUpdate, CtrlOf
    <3>2. data_rvalid /\ k \in 0 .. 3
      BY <1>2, <2>1, <2>2 DEF Answer, WordOf
    <3>3. data_rdata[k] = arch[4 * First(a) + k]
      BY <1>2, <2>2, <3>2 DEF Answer, WordOf
    <3>4. QED
      BY <1>3, <3>1, <3>3
  <2>3. QED
    BY <2>1, <2>2 DEF FirstKept
<1>10. CASE i.gnt
  <2>1. LastHalf(a) = 2 /\ Halves(a) = {1, 2}
    BY <1>2 DEF LastHalf, Halves, IsSplit, Off
  <2>2. pmp_err_q' <=> WordOf(a, 2) \in Denied
    BY <1>4, <1>8
  <2>3. ls_fsm_cs' = "IDLE" /\ ~handle_misaligned_q' /\ ctrl_q' = CtrlOf(a)
    BY <1>2, <1>8, <1>10
  <2>4. QED
    BY <1>1, <1>2, <1>5, <1>9, <2>1, <2>2, <2>3, ToTbLastOut
<1>11. CASE ~i.gnt
  <2>1. ls_fsm_cs' = "WAIT_GNT" /\ handle_misaligned_q' /\ addr_last_q' = a.addr
    BY <1>2, <1>8, <1>11 DEF AddrUpdate
  <2>2. id' = a
    BY <1>1, <2>1, TbMoves
  <2>3. Second(a) \in Denied /\ pmp_err_q' /\ ~data_rvalid'
    BY <1>4, <1>5, <1>6, <1>8, <1>11 DEF WordOf
  <2>4. TbSecondRefused'
    BY <1>2, <1>9, <2>1, <2>2, <2>3 DEF TbSecondRefused, FirstKept
  <2>5. TbRefused' /\ TbFirstOut'
    BY <2>1 DEF TbRefused, TbFirstOut
  <2>6. QED
    BY <1>1, <1>5, <1>11, <2>1, <2>4, <2>5, ToTbWaiting
<1>12. QED
  BY <1>10, <1>11

(* The last half was refused.                                              *)
LEMMA TbWaitGntStep ==
  ASSUME TbInv, NEW i, TbStep(i), WaitGnt(i), NEW a, a = id, NEW h, h = LastHalf(a)
  PROVE  TbInv'
<1>1. ls_fsm_cs = "WAIT_GNT"
  BY DEF WaitGnt
<1>2. /\ pmp_err_q /\ WordOf(a, h) \in Denied
      /\ handle_misaligned_q <=> IsSplit(a)
      /\ ~IsSplit(a) => ~lsu_err_q
      /\ IsSplit(a) => addr_last_q = a.addr /\ FirstKept(a)
  BY <1>1 DEF TbInv, TbRefused, TbSecondRefused, LastHalf, WordOf
<1>3. a \in Access /\ Ahead(a, Issued, arch', mem) /\ arch' = arch
  BY <1>1, TbBusy
<1>4. /\ DataOffset = Off(a)
      /\ DataPmpErr <=> WordOf(a, h) \in Denied
      /\ Transaction = TxnOf(a, h)
  <2>1. CASE IsSplit(a)
    <3>1. AddrIncrReq /\ h = 2
      BY <1>1, <1>2, <2>1 DEF AddrIncrReq, LastHalf
    <3>2. QED
      BY <1>2, <1>3, <2>1, <3>1, SignalsSecond DEF WordOf
  <2>2. CASE ~IsSplit(a)
    <3>1. ~AddrIncrReq /\ h = 1
      BY <1>1, <1>2, <2>2 DEF AddrIncrReq, LastHalf
    <3>2. QED
      BY <1>2, <1>3, <2>2, <3>1, SignalsFirst DEF WordOf
  <2>3. QED
    BY <2>1, <2>2
<1>5. /\ Answer(a, h)' /\ Ahead(a, Halves(a), arch', mem')
  <2>1. DataReq(LsuReq(i))
    BY <1>1 DEF DataReq
  <2>2. h \in {1, 2} /\ Issued \cup {h} = Halves(a)
    <3>1. Issued = IF IsSplit(a) THEN {1} ELSE {}
      BY <1>1, <1>2 DEF Issued
    <3>2. Halves(a) = IF IsSplit(a) THEN {1, 2} ELSE {1}
      BY DEF Halves, IsSplit, Off
    <3>3. QED
      BY <3>1, <3>2 DEF LastHalf
  <2>3. PICK H : H = Issued
    OBVIOUS
  <2>4. Answer(a, h)' /\ Ahead(a, H \cup {h}, arch', mem')
    BY <1>3, <1>4, <2>1, <2>2, <2>3, TbRequest
  <2>5. QED
    BY <2>2, <2>3, <2>4
<1>6. /\ ls_fsm_cs' = "IDLE" /\ handle_misaligned_q' = FALSE /\ ctrl_q' = CtrlOf(a)
      /\ pmp_err_q' = pmp_err_q /\ lsu_err_q' = lsu_err_q /\ rdata_q' = rdata_q
  BY <1>2, <1>4 DEF WaitGnt, CtrlUpdate, CtrlOf
<1>7. IsSplit(a) => FirstKept(a)'
  BY <1>2, <1>3, <1>6 DEF FirstKept
<1>8. QED
  BY <1>1, <1>2, <1>5, <1>6, <1>7, ToTbLastOut

-----------------------------------------------------------------------------
(* After reset nothing is in progress.                                     *)
LEMMA TbInvInit == TbInit => TbInv
<1> SUFFICES ASSUME TbInit PROVE TbInv
  OBVIOUS
<1>1. /\ ls_fsm_cs = "IDLE" /\ ~handle_misaligned_q /\ ~pmp_err_q /\ ~data_rvalid
      /\ id = None /\ wb = None /\ mem = arch
  BY DEF TbInit, PipeInit, LsuInit
<1>2. ~Waiting
  BY <1>1 DEF Waiting
<1>3. TbStages /\ TbRefused /\ TbFirstOut /\ TbSecondRefused /\ TbLastOut
  BY <1>1, <1>2 DEF TbStages, TbRefused, TbFirstOut, TbSecondRefused, TbLastOut
<1>4. TbMem
  <2>1. Issued = {}
    BY <1>1, <1>2 DEF Issued
  <2>2. QED
    BY <1>1, <2>1 DEF TbMem, Ahead, After
<1>5. QED
  BY <1>3, <1>4 DEF TbInv

(* The five states of the FSM; the testbench never reaches the sixth.      *)
LEMMA TbInvStep ==
  ASSUME TbInv, NEW i, TbStep(i)
  PROVE  TbInv'
<1>1. LsuCycle(LsuReq(i), i) /\ ~WaitRvalidMisGntsDone(i)
  BY DEF TbStep, PipeCycle, TbInv, TbStages, WaitRvalidMisGntsDone
<1>2. QED
  BY <1>1, TbIdleNoReqStep, TbIdleReqStep, TbWaitGntMisStep, TbWaitRvalidMisStep,
     TbWaitGntStep DEF LsuCycle

(* A load that completes delivers the bytes of the completed stores.       *)
LEMMA TbLoadStep ==
  ASSUME TbInv, NEW i, TbStep(i)
  PROVE  LoadsSeeStores'
<1>1. done' = IF Responding(i) = None THEN None
              ELSE [access |-> Responding(i), err |-> LsuRespErr(i),
                    rf_we |-> LsuRdataValid(i), rdata |-> LsuRdata(i)]
  BY DEF TbStep, PipeCycle
<1>2. CASE Responding(i) # None /\ LsuRdataValid(i)
  <2>1. PICK a : a = Current
    OBVIOUS
  <2>2. /\ ls_fsm_cs = "IDLE" /\ data_rvalid /\ ~lsu_err_q /\ ~ctrl_q.we
        /\ i.rdata = data_rdata
    BY <1>2 DEF LsuRdataValid, DataOrPmpErr, TbStep
  <2>3. Waiting /\ Responding(i) = a /\ a \in Access
    BY <1>2, <2>1, <2>2, TbIdle
  <2>4. /\ ctrl_q = CtrlOf(a) /\ Answer(a, LastHalf(a))
        /\ IsSplit(a) => FirstKept(a)
    BY <2>1, <2>2, <2>3 DEF TbInv, TbLastOut
  <2>5. ~a.we
    BY <2>2, <2>4 DEF CtrlOf
  <2>6. arch' = arch
    BY <2>3, <2>5 DEF TbStep, Commit
  <2>7. \A k \in 0 .. 3 :
          i.rdata[k] = arch[4 * (IF IsSplit(a) THEN Second(a) ELSE First(a)) + k]
    BY <2>2, <2>4, <2>5 DEF Answer, WordOf, LastHalf
  <2>8. IsSplit(a) => \A k \in 1 .. 3 : rdata_q[k] = arch[4 * First(a) + k]
    BY <2>2, <2>4, <2>5 DEF FirstKept
  <2>9. LsuRdata(i) = Loaded(a, arch)
    BY <2>3, <2>4, <2>7, <2>8, RdataCorrect
  <2>10. done'.access = a /\ done'.rdata = Loaded(a, arch')
    BY <1>1, <1>2, <2>3, <2>6, <2>9
  <2>11. QED
    BY <2>10, SMTT(30) DEF LoadsSeeStores, Loaded, BytesOf, SizeOf
<1>3. CASE Responding(i) = None \/ ~LsuRdataValid(i)
  BY <1>1, <1>3 DEF LoadsSeeStores
<1>4. QED
  BY <1>2, <1>3

(* The inductive invariant and, in every cycle, the load that completes.   *)
LEMMA TbCorrect == TbSpec => [](TbInv /\ LoadsSeeStores)
<1>1. TbInit => TbInv /\ LoadsSeeStores
  BY TbInvInit DEF TbInit, PipeInit, LoadsSeeStores
<1>2. TbInv /\ LoadsSeeStores /\ [TbCycle]_tbVars => (TbInv /\ LoadsSeeStores)'
  <2> SUFFICES ASSUME TbInv, LoadsSeeStores, [TbCycle]_tbVars
               PROVE  TbInv' /\ LoadsSeeStores'
    OBVIOUS
  <2>1. CASE TbCycle
    BY <2>1, TbCycleParts, TbInvStep, TbLoadStep
  <2>2. CASE UNCHANGED tbVars
    <3>1. UNCHANGED <<id, idMulti, wb, done, mem, data_rvalid, data_rdata, arch,
                      ls_fsm_cs, handle_misaligned_q, pmp_err_q, lsu_err_q,
                      addr_last_q, ctrl_q, rdata_q>>
      BY <2>2 DEF tbVars, pipeVars, lsuRegs
    <3>2. LoadsSeeStores'
      <4>1. done' = done /\ arch' = arch
        BY <3>1
      <4>2. QED
        BY <4>1, ZenonT(60) DEF LoadsSeeStores, Loaded, BytesOf, SizeOf
    <3>3. Waiting' = Waiting /\ Current' = Current
      BY <3>1 DEF Waiting, Current
    <3>4. Issued' = Issued
      BY <3>1, <3>3 DEF Issued
    <3>5. TbMem'
      BY <3>1, <3>3, <3>4 DEF TbInv, TbMem
    <3>6. TbStages' /\ TbRefused' /\ TbFirstOut' /\ TbSecondRefused' /\ TbLastOut'
      BY <3>1, <3>3 DEF TbInv, TbStages, InProgress, TbRefused, TbFirstOut, TbSecondRefused,
                        TbLastOut, Answer, FirstKept
    <3>7. QED
      BY <3>2, <3>5, <3>6 DEF TbInv
  <2>3. QED
    BY <2>1, <2>2
<1>3. QED
  BY <1>1, <1>2, PTL DEF TbSpec

(* The assertion NoMemResponseWithoutPendingAccess of ibex_core under the  *)
(* testbench: its responder answers only while an access waits.            *)
THEOREM TbResponsesExpected == TbSpec => []NoTbResponseWithoutPendingAccess
<1>1. TbInv => NoTbResponseWithoutPendingAccess
  <2> SUFFICES ASSUME TbInv, data_rvalid PROVE OutstandingResp
    BY DEF NoTbResponseWithoutPendingAccess
  <2>1. WritebackStage \in BOOLEAN /\ None \notin Access
    BY PipelineAssumption
  <2>2. InProgress
    BY DEF TbInv, TbStages
  <2>3. CASE ls_fsm_cs = "IDLE"
    BY <2>1, <2>2, <2>3 DEF InProgress, Waiting, OutstandingResp
  <2>4. CASE ls_fsm_cs # "IDLE"
    <3>1. id \in Access
      BY <2>4 DEF TbInv, TbStages
    <3>2. ls_fsm_cs = "WAIT_RVALID_MIS"
      BY <2>4 DEF TbInv, TbStages, TbRefused, TbSecondRefused
    <3>3. IsSplit(id)
      BY <3>2 DEF TbInv, TbFirstOut
    <3>4. QED
      BY <2>1, <3>1, <3>3 DEF OutstandingResp, IsSplit, Off
  <2>5. QED
    BY <2>3, <2>4
<1>2. QED
  BY <1>1, TbCorrect, PTL

(* Program order under the testbench: every load that completes delivers   *)
(* the bytes of the last completed stores to its addresses, although the   *)
(* memory is written, word by word, cycles before a store completes.       *)
THEOREM TbLoadsSeeStores == TbSpec => []LoadsSeeStores
BY TbCorrect, PTL
=============================================================================
