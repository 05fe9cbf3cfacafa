------------------------------ MODULE DataSide ------------------------------
(***************************************************************************)
(* Loads and stores against any data memory that follows the protocol of   *)
(* the load/store unit: a request is granted in its first cycle or any     *)
(* later one, every granted request gets one response, in order, one or    *)
(* more cycles after its grant, with or without an error.                  *)
(***************************************************************************)
EXTENDS MemPipeline, Sequences

(* None is not a transaction that is shown.                                *)
ASSUME ShownAssumption ==
  None \notin [txn : [word : 0 .. Words - 1, we : BOOLEAN, be : SUBSET (0 .. 3),
                      wdata : [0 .. 3 -> {"reg"} \X (0 .. 3)]],
               gnt : BOOLEAN]

VARIABLES
  bus,     \* granted transactions whose response is to come
  shown,   \* observer: what the core showed the bus in the last cycle, or None
  record,  \* observer: grants and bus errors of the access in progress
  closed   \* observer: the same of the access done is about

vars == <<pipeVars, bus, shown, record, closed>>

NoRecord == [granted |-> <<>>, refused |-> {}]

Init ==
  /\ PipeInit
  /\ bus = <<>>
  /\ shown = None
  /\ record = NoRecord /\ closed = NoRecord

(* The half of its access the transaction of this cycle is.                *)
Half == IF AddrIncrReq THEN 2 ELSE 1

(* The data of a response: that of the memory for a load without error.    *)
Rdata(rvalid, err) ==
  [k \in 0 .. 3 |-> IF rvalid /\ ~err /\ ~Head(bus).txn.we
                    THEN <<"mem", 4 * Head(bus).txn.word + k>> ELSE Junk]

(* The bus in this cycle.  data_err_i says nothing without data_rvalid_i.  *)
Bus(i, req) ==
  LET new == IF i.gnt THEN <<[half |-> Half, txn |-> Transaction]>> ELSE <<>>
  IN  /\ i.gnt => BusReq(req)
      /\ bus' = (IF i.rvalid THEN Tail(bus) ELSE bus) \o new
      /\ shown' = IF BusReq(req) THEN [txn |-> Transaction, gnt |-> i.gnt] ELSE None

(* The record of the access whose response has come is closed.             *)
Observe(i) ==
  LET new == IF i.gnt THEN <<[half |-> Half, txn |-> Transaction]>> ELSE <<>>
      ref == record.refused \cup (IF i.rvalid /\ i.err THEN {Head(bus).half} ELSE {})
  IN  IF Responding(i) # None
      THEN /\ closed' = [record EXCEPT !.refused = ref]
           /\ record' = [granted |-> new, refused |-> {}]
      ELSE /\ record' = [granted |-> record.granted \o new, refused |-> ref]
           /\ closed' = NoRecord

Cycle(gnt, rvalid, err) ==
  /\ rvalid => bus # <<>>
  /\ LET i == [gnt |-> gnt, rvalid |-> rvalid, err |-> err, rdata |-> Rdata(rvalid, err)]
     IN  /\ Bus(i, LsuReq(i))
         /\ PipeCycle(i)
         /\ Observe(i)

Next ==
  \E gnt, rvalid, err \in BOOLEAN : Cycle(gnt, rvalid, err)

(* The clock runs, a request that stays is granted in the end, a granted   *)
(* one answered.                                                           *)
Fairness ==
  /\ WF_vars(Next)
  /\ WF_vars(\E rvalid, err \in BOOLEAN : Cycle(TRUE, rvalid, err))
  /\ WF_vars(\E gnt, err \in BOOLEAN : Cycle(gnt, TRUE, err))

Spec == Init /\ [][Next]_vars
FairSpec == Spec /\ Fairness

-----------------------------------------------------------------------------
(* Registers hold what their width allows, and the LSU never has more than *)
(* two transactions on the bus.                                            *)
TypeOK ==
  /\ LsuTypeOK
  /\ idMulti \in BOOLEAN
  /\ wb \in Access \cup {None}
  /\ Len(bus) <= 2

(* The halves of the access done that failed: a half fails when the PMP    *)
(* denies its word, or the bus answered it with an error.                  *)
First(a)  == a.addr \div 4
Second(a) == (First(a) + 1) % Words
Halves(a) == IF SplitMisaligned(a.type, a.addr % 4) THEN {1, 2} ELSE {1}
Failed(a) ==
  {h \in Halves(a) : (IF h = 1 THEN First(a) ELSE Second(a)) \in Denied}
    \cup closed.refused

(* The LSU reports an error exactly for the accesses of which a half       *)
(* failed, first or second, on the bus or in the PMP, and a load writes    *)
(* the register file exactly when none did.                                *)
ErrorsReported ==
  done # None =>
    /\ done.err <=> Failed(done.access) # {}
    /\ done.rf_we <=> ~done.access.we /\ ~done.err

(* A load that is not reported as failed delivers the bytes at its         *)
(* addresses, lowest first, extended as its type and signedness ask,       *)
(* whatever its alignment and whenever grants and responses came.          *)
LoadCorrect == done # None /\ done.rf_we => done.rdata = Loaded(done.access, FreshMem)

(* The bytes the granted transactions of the closed access write.          *)
Written ==
  UNION {{<<4 * t.txn.word + k, t.txn.wdata[k]>> : k \in t.txn.be} :
           t \in {closed.granted[n] : n \in DOMAIN closed.granted}}

(* A store writes the bytes of its register to its addresses and no other  *)
(* byte of memory, no half of it twice; all of them if it did not fail.    *)
StoreCorrect ==
  done # None /\ done.access.we =>
    /\ Written \subseteq Stored(done.access)
    /\ ~done.err => Written = Stored(done.access)
    /\ \A m, n \in DOMAIN closed.granted :
         m # n => closed.granted[m].half # closed.granted[n].half

(* When the controller takes the exception of a failed access, in the      *)
(* cycle after the response, addr_last_o (mtval) is the address of the     *)
(* first half that failed: the access's own address or, for the second     *)
(* half, the word it begins.                                               *)
MtvalCorrect ==
  done # None /\ done.err =>
    addr_last_q = IF 1 \in Failed(done.access) THEN done.access.addr
                  ELSE 4 * Second(done.access)

(* Failed accesses are reported, as failed, with the right address, while  *)
(* the registers stay within their widths.                                 *)
ErrorsPrecise == TypeOK /\ ErrorsReported /\ MtvalCorrect

(* The assertion NoMemResponseWithoutPendingAccess of ibex_core: whenever  *)
(* the memory chooses to answer, an access waits for the answer.           *)
NoMemResponseWithoutPendingAccess == bus # <<>> => OutstandingResp

(* How the FSM of the LSU keeps count of the bus without a counter: in     *)
(* every state the number of responses to come is what the state, the PMP  *)
(* verdict and the pipeline say it is.                                     *)
Waiting == IF WritebackStage THEN wb # None ELSE id # None /\ idMulti
BusMatchesFsm ==
  /\ ls_fsm_cs = "IDLE" =>
       /\ ~handle_misaligned_q
       /\ Len(bus) = IF Waiting /\ ~pmp_err_q THEN 1 ELSE 0
       /\ pmp_err_q => Waiting
  /\ ls_fsm_cs # "IDLE" => id # None /\ wb = None /\ (WritebackStage \/ idMulti)
  /\ ls_fsm_cs \in {"WAIT_GNT", "WAIT_GNT_MIS"} =>
       Len(bus) = 0 /\ (pmp_err_q <=> DataPmpErr)
  /\ ls_fsm_cs = "WAIT_RVALID_MIS" => Len(bus) = IF pmp_err_q THEN 0 ELSE 1
  /\ ls_fsm_cs = "WAIT_RVALID_MIS_GNTS_DONE" =>
       Len(bus) = 2 /\ ~pmp_err_q /\ ~DataPmpErr /\ ~handle_misaligned_q
  /\ ls_fsm_cs \in {"WAIT_GNT_MIS", "WAIT_RVALID_MIS", "WAIT_RVALID_MIS_GNTS_DONE"} =>
       SplitMisaligned(id.type, id.addr % 4)
  /\ ~WritebackStage => wb = None

(* Bus protocol: a request that was not granted is shown again, with the   *)
(* same address, data and byte enables, in the next cycle.                 *)
RequestStable ==
  [][shown # None /\ ~shown.gnt => shown' # None /\ shown'.txn = shown.txn]_vars

(* The data side never hangs: an access in the pipeline leads to a         *)
(* response, its own or the failed one that kills it.                      *)
NeverHangs == (id # None \/ wb # None) ~> (done # None)
=============================================================================
