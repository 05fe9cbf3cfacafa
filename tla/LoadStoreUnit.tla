--------------------------- MODULE LoadStoreUnit ---------------------------
(***************************************************************************)
(* ibex_load_store_unit: the FSM that turns a load or store of the ID      *)
(* stage into one or, when it crosses a word boundary, two word-aligned    *)
(* transactions, and puts the bytes of the answers together again.         *)
(*                                                                         *)
(* An action is one cycle of clk_i.  It is given req, the signal lsu_req_i *)
(* of this cycle, and i, the signals of the data bus of this cycle:        *)
(* gnt, rvalid, err and rdata.  A byte of data is a token that says where  *)
(* it comes from: <<"mem", a>> is the byte the memory holds at address a,  *)
(* <<"reg", k>> byte k of the register a store writes, <<"sign", b>> eight *)
(* copies of the top bit of byte b, Zero eight zeros and Junk what the bus *)
(* carries when it does not carry data.  Addresses wrap around after       *)
(* Words words, as they do after 2^30 words in the code.  MemECC is off,   *)
(* as it is in every configuration of this repository.                     *)
(***************************************************************************)
EXTENDS Naturals

CONSTANTS
  Words,   \* number of words of the address space
  Denied,  \* words the PMP does not let this program access
  None     \* no access

ASSUME LsuAssumption ==
  /\ Words \in Nat \ {0}
  /\ Denied \subseteq 0 .. Words - 1

VARIABLES
  id,                   \* the load or store in the ID stage, or None
  ls_fsm_cs,            \* state of the FSM
  handle_misaligned_q,  \* the second half of a split access comes next
  pmp_err_q,            \* the PMP refused the half last requested
  lsu_err_q,            \* the first half of the access failed
  addr_last_q,          \* address of the last half: mtval, base of the second half
  ctrl_q,               \* rdata_offset_q, data_type_q, data_sign_ext_q, data_we_q
  rdata_q               \* bytes 1 .. 3 of the first half of a split load

lsuRegs == <<ls_fsm_cs, handle_misaligned_q, pmp_err_q, lsu_err_q, addr_last_q,
             ctrl_q, rdata_q>>

-----------------------------------------------------------------------------
(* Data.                                                                   *)

Types  == {"word", "half", "byte"}
States == {"IDLE", "WAIT_GNT_MIS", "WAIT_RVALID_MIS", "WAIT_GNT",
           "WAIT_RVALID_MIS_GNTS_DONE"}
Addr   == 0 .. 4 * Words - 1
Access == [we : BOOLEAN, type : Types, sign : BOOLEAN, addr : Addr]
Ctrl   == [offset : 0 .. 3, type : Types, sign : BOOLEAN, we : BOOLEAN]

Zero == <<"zero", 0>>
Junk == <<"junk", 0>>
Byte == ({"mem"} \X Addr) \cup ({"reg"} \X (0 .. 3)) \cup {Zero, Junk}
Sign(b) == <<"sign", b>>

-----------------------------------------------------------------------------
(* Signals that depend on the registers only.                              *)

(* Mutant of AddrIncrReq: the address of the second half is not kept up    *)
(* while its grant is late.                                                *)
AddrIncrReqDropped ==
  ls_fsm_cs \in {"WAIT_RVALID_MIS", "WAIT_RVALID_MIS_GNTS_DONE"}

AddrIncrReq ==
  \/ ls_fsm_cs \in {"WAIT_RVALID_MIS", "WAIT_RVALID_MIS_GNTS_DONE"}
  \/ ls_fsm_cs = "WAIT_GNT" /\ handle_misaligned_q

(* The adder of the ALU: the address of the access or, on addr_incr_req_o, *)
(* the last address plus four.                                             *)
DataAddr == IF AddrIncrReq THEN (addr_last_q + 4) % (4 * Words) ELSE id.addr
DataOffset == DataAddr % 4
DataAddrWAligned == DataAddr - DataOffset

(* Mutant of SplitMisaligned: a half word at offset 3 is not split.        *)
SplitWordsOnly(type, offset) == type = "word" /\ offset # 0

SplitMisaligned(type, offset) ==
  \/ type = "word" /\ offset # 0
  \/ type = "half" /\ offset = 3

SplitMisalignedAccess == SplitMisaligned(id.type, DataOffset)

(* data_be, the lanes of the word the transaction touches.                 *)
DataBe ==
  CASE id.type = "word" /\ ~handle_misaligned_q -> DataOffset .. 3
    [] id.type = "word" /\ handle_misaligned_q  -> 0 .. DataOffset - 1
    [] id.type = "half" /\ ~handle_misaligned_q ->
         {DataOffset, DataOffset + 1} \cap (0 .. 3)
    [] id.type = "half" /\ handle_misaligned_q  -> {0}
    [] id.type = "byte" -> {DataOffset}

(* Mutant of DataWdata: the register is rotated the wrong way.             *)
DataWdataRotatedRight == [k \in 0 .. 3 |-> <<"reg", (k + DataOffset) % 4>>]

(* data_wdata: the register to be stored, rotated to its lanes.            *)
DataWdata == [k \in 0 .. 3 |-> <<"reg", (k + 4 - DataOffset) % 4>>]

DataPmpErr == DataAddr \div 4 \in Denied

DataReq(req) ==
  \/ ls_fsm_cs = "IDLE" /\ req
  \/ ls_fsm_cs \in {"WAIT_GNT_MIS", "WAIT_RVALID_MIS", "WAIT_GNT"}

(* What the core shows the bus: ibex_core holds back a request the PMP     *)
(* refuses.                                                                *)
BusReq(req) == DataReq(req) /\ ~DataPmpErr
Transaction ==
  [word |-> DataAddr \div 4, we |-> id.we, be |-> DataBe, wdata |-> DataWdata]

-----------------------------------------------------------------------------
(* Signals that depend on the bus as well.                                 *)

DataOrPmpErr(i) == lsu_err_q \/ i.err \/ pmp_err_q

LsuRespValid(i) == (i.rvalid \/ pmp_err_q) /\ ls_fsm_cs = "IDLE"
LsuRespErr(i)   == DataOrPmpErr(i) /\ LsuRespValid(i)   \* load_err_o or store_err_o

LsuRdataValid(i) ==
  ls_fsm_cs = "IDLE" /\ i.rvalid /\ ~DataOrPmpErr(i) /\ ~ctrl_q.we

Extend(low, top) ==
  [k \in 0 .. 3 |-> IF k \in DOMAIN low THEN low[k]
                    ELSE IF ctrl_q.sign THEN Sign(top) ELSE Zero]

(* lsu_rdata_o: bytes from the first half of a split load come from        *)
(* rdata_q, the others from the bus.                                       *)
LsuRdata(i) ==
  LET off == ctrl_q.offset
      next(j) == i.rdata[off + j]
      split(j) == IF off + j <= 3 THEN rdata_q[off + j] ELSE i.rdata[off + j - 4]
  IN  CASE ctrl_q.type = "word" ->
             [j \in 0 .. 3 |-> IF off = 0 THEN next(j) ELSE split(j)]
        [] ctrl_q.type = "half" ->
             LET h == [j \in 0 .. 1 |-> IF off = 3 THEN split(j) ELSE next(j)]
             IN  Extend(h, h[1])
        [] ctrl_q.type = "byte" ->
             LET b == [j \in {0} |-> next(j)] IN Extend(b, b[0])

-----------------------------------------------------------------------------
(* The registers.                                                          *)

CtrlUpdate ==
  ctrl_q' = [offset |-> DataOffset, type |-> id.type, sign |-> id.sign, we |-> id.we]

(* addr_update: an access that is not incremented keeps its own address.   *)
AddrUpdate(update) ==
  addr_last_q' = IF ~update THEN addr_last_q
                 ELSE IF AddrIncrReq THEN DataAddrWAligned ELSE DataAddr

RdataUpdate(i) ==
  rdata_q' = IF ctrl_q.we THEN rdata_q ELSE [k \in 1 .. 3 |-> i.rdata[k]]

LsuInit ==
  /\ ls_fsm_cs = "IDLE"
  /\ handle_misaligned_q = FALSE
  /\ pmp_err_q = FALSE
  /\ lsu_err_q = FALSE
  /\ addr_last_q = 0
  /\ ctrl_q = [offset |-> 0, type |-> "word", sign |-> FALSE, we |-> FALSE]
  /\ rdata_q = [k \in 1 .. 3 |-> Zero]

-----------------------------------------------------------------------------
(* The states of the FSM.                                                  *)

IdleNoReq(req, i) ==
  /\ ls_fsm_cs = "IDLE" /\ ~req
  /\ pmp_err_q' = FALSE
  /\ UNCHANGED <<ls_fsm_cs, handle_misaligned_q, lsu_err_q, addr_last_q, ctrl_q, rdata_q>>

IdleReq(req, i) ==
  /\ ls_fsm_cs = "IDLE" /\ req
  /\ pmp_err_q' = DataPmpErr
  /\ lsu_err_q' = FALSE
  /\ \/ /\ i.gnt
        /\ CtrlUpdate /\ AddrUpdate(TRUE)
        /\ handle_misaligned_q' = SplitMisalignedAccess
        /\ ls_fsm_cs' = IF SplitMisalignedAccess THEN "WAIT_RVALID_MIS" ELSE "IDLE"
     \/ /\ ~i.gnt
        /\ ls_fsm_cs' = IF SplitMisalignedAccess THEN "WAIT_GNT_MIS" ELSE "WAIT_GNT"
        /\ UNCHANGED <<handle_misaligned_q, addr_last_q, ctrl_q>>
  /\ UNCHANGED rdata_q

WaitGntMis(i) ==
  /\ ls_fsm_cs = "WAIT_GNT_MIS"
  /\ \/ /\ i.gnt \/ pmp_err_q
        /\ AddrUpdate(TRUE) /\ CtrlUpdate
        /\ handle_misaligned_q' = TRUE
        /\ ls_fsm_cs' = "WAIT_RVALID_MIS"
     \/ /\ ~(i.gnt \/ pmp_err_q)
        /\ UNCHANGED <<addr_last_q, ctrl_q, handle_misaligned_q, ls_fsm_cs>>
  /\ UNCHANGED <<pmp_err_q, lsu_err_q, rdata_q>>

(* Mutant of WaitRvalidMis: the PMP verdict on the first half is kept for  *)
(* the second.                                                             *)
WaitRvalidMisKeepsPmp(i) ==
  /\ ls_fsm_cs = "WAIT_RVALID_MIS"
  /\ \/ /\ i.rvalid \/ pmp_err_q
        /\ lsu_err_q' = (i.err \/ pmp_err_q)
        /\ RdataUpdate(i)
        /\ ls_fsm_cs' = IF i.gnt THEN "IDLE" ELSE "WAIT_GNT"
        /\ AddrUpdate(i.gnt /\ ~(i.err \/ pmp_err_q))
        /\ handle_misaligned_q' = ~i.gnt
     \/ /\ ~(i.rvalid \/ pmp_err_q)
        /\ ls_fsm_cs' = IF i.gnt THEN "WAIT_RVALID_MIS_GNTS_DONE" ELSE ls_fsm_cs
        /\ handle_misaligned_q' = (handle_misaligned_q /\ ~i.gnt)
        /\ UNCHANGED <<lsu_err_q, rdata_q, addr_last_q>>
  /\ UNCHANGED <<pmp_err_q, ctrl_q>>

(* The second half is requested before the first has answered.             *)
WaitRvalidMis(i) ==
  /\ ls_fsm_cs = "WAIT_RVALID_MIS"
  /\ \/ /\ i.rvalid \/ pmp_err_q
        /\ pmp_err_q' = DataPmpErr
        /\ lsu_err_q' = (i.err \/ pmp_err_q)
        /\ RdataUpdate(i)
        /\ ls_fsm_cs' = IF i.gnt THEN "IDLE" ELSE "WAIT_GNT"
        /\ AddrUpdate(i.gnt /\ ~(i.err \/ pmp_err_q))
        /\ handle_misaligned_q' = ~i.gnt
     \/ /\ ~(i.rvalid \/ pmp_err_q)
        /\ ls_fsm_cs' = IF i.gnt THEN "WAIT_RVALID_MIS_GNTS_DONE" ELSE ls_fsm_cs
        /\ handle_misaligned_q' = (handle_misaligned_q /\ ~i.gnt)
        /\ UNCHANGED <<pmp_err_q, lsu_err_q, rdata_q, addr_last_q>>
  /\ UNCHANGED ctrl_q

(* Mutants of WaitGnt: the address is updated after a failed first half;   *)
(* a request the PMP refused waits for a grant that cannot come.           *)
WaitGntAlwaysUpdates(i) ==
  /\ ls_fsm_cs = "WAIT_GNT"
  /\ \/ /\ i.gnt \/ pmp_err_q
        /\ CtrlUpdate /\ AddrUpdate(TRUE)
        /\ ls_fsm_cs' = "IDLE"
        /\ handle_misaligned_q' = FALSE
     \/ /\ ~(i.gnt \/ pmp_err_q)
        /\ UNCHANGED <<ctrl_q, addr_last_q, ls_fsm_cs, handle_misaligned_q>>
  /\ UNCHANGED <<pmp_err_q, lsu_err_q, rdata_q>>

WaitGntIgnoresPmp(i) ==
  /\ ls_fsm_cs = "WAIT_GNT"
  /\ \/ /\ i.gnt
        /\ CtrlUpdate /\ AddrUpdate(~lsu_err_q)
        /\ ls_fsm_cs' = "IDLE"
        /\ handle_misaligned_q' = FALSE
     \/ /\ ~i.gnt
        /\ UNCHANGED <<ctrl_q, addr_last_q, ls_fsm_cs, handle_misaligned_q>>
  /\ UNCHANGED <<pmp_err_q, lsu_err_q, rdata_q>>

WaitGnt(i) ==
  /\ ls_fsm_cs = "WAIT_GNT"
  /\ \/ /\ i.gnt \/ pmp_err_q
        /\ CtrlUpdate /\ AddrUpdate(~lsu_err_q)
        /\ ls_fsm_cs' = "IDLE"
        /\ handle_misaligned_q' = FALSE
     \/ /\ ~(i.gnt \/ pmp_err_q)
        /\ UNCHANGED <<ctrl_q, addr_last_q, ls_fsm_cs, handle_misaligned_q>>
  /\ UNCHANGED <<pmp_err_q, lsu_err_q, rdata_q>>

WaitRvalidMisGntsDone(i) ==
  /\ ls_fsm_cs = "WAIT_RVALID_MIS_GNTS_DONE"
  /\ \/ /\ i.rvalid
        /\ pmp_err_q' = DataPmpErr
        /\ lsu_err_q' = i.err
        /\ AddrUpdate(~i.err)
        /\ RdataUpdate(i)
        /\ ls_fsm_cs' = "IDLE"
     \/ /\ ~i.rvalid
        /\ UNCHANGED <<pmp_err_q, lsu_err_q, addr_last_q, rdata_q, ls_fsm_cs>>
  /\ UNCHANGED <<handle_misaligned_q, ctrl_q>>

LsuCycle(req, i) ==
  \/ IdleNoReq(req, i)
  \/ IdleReq(req, i)
  \/ WaitGntMis(i)
  \/ WaitRvalidMis(i)
  \/ WaitGnt(i)
  \/ WaitRvalidMisGntsDone(i)

(* lsu_req_done_o, in a step that takes LsuCycle: the ID stage is not      *)
(* needed any longer, only the last response is.                           *)
LsuReqDone(req) == (req \/ ls_fsm_cs # "IDLE") /\ ls_fsm_cs' = "IDLE"

-----------------------------------------------------------------------------
(* Registers of the LSU hold what their width allows.                      *)
LsuTypeOK ==
  /\ id \in Access \cup {None}
  /\ ls_fsm_cs \in States
  /\ handle_misaligned_q \in BOOLEAN
  /\ pmp_err_q \in BOOLEAN /\ lsu_err_q \in BOOLEAN
  /\ addr_last_q \in Addr
  /\ ctrl_q \in Ctrl
  /\ rdata_q \in [1 .. 3 -> Byte]
=============================================================================
