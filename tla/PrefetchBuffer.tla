--------------------------- MODULE PrefetchBuffer ---------------------------
(***************************************************************************)
(* ibex_prefetch_buffer: fetches the words after the last branch target    *)
(* ahead of the pipeline, with at most NUM_REQS requests granted and not   *)
(* yet answered, and throws away the answers that a branch made stale.     *)
(*                                                                         *)
(* An action is one cycle of clk_i, given the inputs of this cycle: i.req, *)
(* i.branch, i.addr and i.ready of the pipeline, i.gnt, i.rvalid and i.in  *)
(* (data and error) of the instruction bus.                                *)
(***************************************************************************)
EXTENDS FetchFifo

VARIABLES
  valid_req_q,          \* a request waits for its grant
  discard_req_q,        \* a branch has made that request stale
  rdata_outstanding_q,  \* granted requests to be answered, 0 is the oldest
  branch_discard_q,     \* those whose answer is stale
  stored_addr_q,        \* address of the request that waits for its grant
  fetch_addr_q          \* next address to fetch from

pfVars == <<fifoVars, valid_req_q, discard_req_q, rdata_outstanding_q,
            branch_discard_q, stored_addr_q, fetch_addr_q>>

NUM_REQS == 2
Req == 0 .. NUM_REQS - 1

-----------------------------------------------------------------------------
(* Mutant of FifoReady: space for outstanding requests is not reserved.    *)
FifoReadyNoReserve == ~ \A i \in Req : valid_q[i + DEPTH - NUM_REQS]

(* fifo_ready: the entries in use, overlaid with the outstanding requests  *)
(* in reverse, leave one free.                                             *)
FifoReady ==
  ~ \A i \in Req : valid_q[i + DEPTH - NUM_REQS] \/ rdata_outstanding_q[NUM_REQS - 1 - i]

ValidNewReq(i) ==
  i.req /\ (FifoReady \/ i.branch) /\ ~rdata_outstanding_q[NUM_REQS - 1]

ValidReq(i) == valid_req_q \/ ValidNewReq(i)

(* A request that is not one waiting for its grant.                        *)
FreshReq(i) == ValidNewReq(i) /\ ~valid_req_q

(* Mutant of InstrAddr: a branch replaces the address of a request that    *)
(* waits for its grant.                                                    *)
InstrAddrBranch(i) ==
  IF i.branch THEN i.addr ELSE IF valid_req_q THEN stored_addr_q ELSE fetch_addr_q

InstrAddr(i) ==
  IF valid_req_q THEN stored_addr_q ELSE IF i.branch THEN i.addr ELSE fetch_addr_q

(* instr_addr_o, word aligned.                                             *)
InstrWord(i) == InstrAddr(i) \div 2

(* Mutant of DiscardReq: the mark outlives its request.                    *)
DiscardReqSticky(i) == (valid_req_q /\ i.branch) \/ discard_req_q

DiscardReq(i) == valid_req_q /\ (i.branch \/ discard_req_q)

(* Mutant of Granted: a granted request takes every place.                 *)
GrantedEverywhere(i, k) == ValidReq(i) /\ i.gnt

(* The request granted in this cycle takes the lowest free place.          *)
Granted(i, k) == ValidReq(i) /\ i.gnt /\ (k = 0 \/ rdata_outstanding_q[k - 1])
Outstanding(i, k) == Granted(i, k) \/ rdata_outstanding_q[k]

(* Mutant of BranchDiscard: a branch forgets the requests already granted. *)
BranchDiscardLate(i, k) == (Granted(i, k) /\ DiscardReq(i)) \/ branch_discard_q[k]

BranchDiscard(i, k) ==
  \/ Granted(i, k) /\ DiscardReq(i)
  \/ i.branch /\ rdata_outstanding_q[k]
  \/ branch_discard_q[k]

(* Every answer shifts the outstanding requests down.                      *)
Shift(rvalid, bits) ==
  [k \in Req |-> IF rvalid THEN k # NUM_REQS - 1 /\ bits[k + 1] ELSE bits[k]]

FifoValid(i) == i.rvalid /\ ~branch_discard_q[0]

-----------------------------------------------------------------------------
(* Addresses and entries are not reset (ResetAll is off): the registers    *)
(* hold some address a and words from there until the boot branch.         *)
PrefetchInit(a) ==
  /\ valid_q = [e \in Entry |-> FALSE]
  /\ rdata_q = [e \in Entry |-> [word |-> a \div 2, err |-> TRUE]]
  /\ instr_addr_q = a /\ stored_addr_q = a /\ fetch_addr_q = a
  /\ valid_req_q = FALSE /\ discard_req_q = FALSE
  /\ rdata_outstanding_q = [k \in Req |-> FALSE]
  /\ branch_discard_q = [k \in Req |-> FALSE]

PrefetchCycle(i) ==
  /\ FifoCycle(i.branch, i.addr, FifoValid(i), i.in, i.ready)
  /\ valid_req_q' = (ValidReq(i) /\ ~i.gnt)
  /\ discard_req_q' = DiscardReq(i)
  /\ rdata_outstanding_q' = Shift(i.rvalid, [k \in Req |-> Outstanding(i, k)])
  /\ branch_discard_q' = Shift(i.rvalid, [k \in Req |-> BranchDiscard(i, k)])
  /\ stored_addr_q' = IF FreshReq(i) /\ ~i.gnt THEN InstrAddr(i) ELSE stored_addr_q
  /\ fetch_addr_q' =
       IF i.branch \/ FreshReq(i)
       THEN ((IF i.branch THEN i.addr ELSE fetch_addr_q - (fetch_addr_q % 2))
               + (IF FreshReq(i) THEN 2 ELSE 0)) % (2 * Words)
       ELSE fetch_addr_q
=============================================================================
