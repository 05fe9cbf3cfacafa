------------------------------ MODULE InstrSide ------------------------------
(***************************************************************************)
(* The fetch side with any instruction memory that follows the protocol of *)
(* the bus: a request is granted in its first cycle or any later one,      *)
(* every granted request is answered once, in order, one or more cycles    *)
(* after its grant.                                                        *)
(***************************************************************************)
EXTENDS FetchPipeline, Sequences

CONSTANT Junk  \* what the bus carries without instr_rvalid_i

ASSUME JunkAssumption == Junk \in Data

(* None is not a request shown on the bus.                                 *)
ASSUME NoneAssumption == None \notin [word : Word, gnt : BOOLEAN]

VARIABLES
  bus,     \* words granted whose answer is to come
  shown    \* observer: what the core showed the bus in the last cycle, or None

vars == <<fetchVars, bus, shown>>

-----------------------------------------------------------------------------
Init ==
  /\ FetchInit
  /\ bus = <<>>
  /\ shown = None

Cycle(req, branch, addr, ready, gnt, rvalid) ==
  LET i == [req |-> req, branch |-> branch, addr |-> addr, ready |-> ready,
            gnt |-> gnt, rvalid |-> rvalid,
            in |-> IF rvalid THEN Fetched(Head(bus)) ELSE Junk]
  IN  /\ rvalid => bus # <<>>
      /\ gnt => ValidReq(i)
      /\ FetchCycle(i)
      /\ bus' = (IF rvalid THEN Tail(bus) ELSE bus)
                  \o (IF gnt THEN <<InstrWord(i)>> ELSE <<>>)
      /\ shown' = IF ValidReq(i) THEN [word |-> InstrWord(i), gnt |-> gnt] ELSE None

Step(req, ready, gnt, rvalid) ==
  \E b \in Branches : Cycle(req, b[1], b[2], ready, gnt, rvalid)

Next == \E req, ready, gnt, rvalid \in BOOLEAN : Step(req, ready, gnt, rvalid)

(* The pipeline neither stops fetching nor stalls forever, a request that  *)
(* stays is granted in the end, a granted one answered.                    *)
Fairness ==
  /\ WF_vars(\E gnt, rvalid \in BOOLEAN : Step(TRUE, TRUE, gnt, rvalid))
  /\ WF_vars(\E req, ready, rvalid \in BOOLEAN : Step(req, ready, TRUE, rvalid))
  /\ WF_vars(\E req, ready, gnt \in BOOLEAN : Step(req, ready, gnt, TRUE))

Spec == Init /\ [][Next]_vars
FairSpec == Spec /\ Fairness

-----------------------------------------------------------------------------
(* Registers hold what their width allows, and the buffer never has more   *)
(* than NUM_REQS requests on the bus.                                      *)
TypeOK ==
  /\ valid_q \in [Entry -> BOOLEAN] /\ rdata_q \in [Entry -> Data]
  /\ instr_addr_q \in Half /\ stored_addr_q \in Half /\ fetch_addr_q \in Half
  /\ valid_req_q \in BOOLEAN /\ discard_req_q \in BOOLEAN
  /\ rdata_outstanding_q \in [Req -> BOOLEAN]
  /\ branch_discard_q \in [Req -> BOOLEAN]
  /\ bus \in Seq(Word) /\ Len(bus) <= NUM_REQS
  /\ booted \in BOOLEAN /\ pc \in Half

(* The buffer's two bit vectors describe the bus: the outstanding bits are *)
(* filled from the bottom, one for each answer to come, and only these can *)
(* be marked for discarding, oldest first.                                 *)
OutstandingTracked ==
  /\ rdata_outstanding_q[1] => rdata_outstanding_q[0]
  /\ Len(bus) = (IF rdata_outstanding_q[0] THEN 1 ELSE 0)
                  + (IF rdata_outstanding_q[1] THEN 1 ELSE 0)
  /\ \A k \in Req : branch_discard_q[k] => rdata_outstanding_q[k]
  /\ branch_discard_q[1] => branch_discard_q[0]

(* The registers and the bus agree with each other.                        *)
FetchConsistent == TypeOK /\ OutstandingTracked

(* Assertions IbexFetchFifoPushFull and IbexFetchFifoPushPopFull: when the *)
(* memory answers a request that is not stale there is room in the FIFO.   *)
FifoNeverOverflows == bus # <<>> /\ ~branch_discard_q[0] => ~valid_q[DEPTH - 1]

(* The words in the FIFO, those to come that are not stale, the one that   *)
(* waits for its grant and the one to fetch next are the program's words   *)
(* from the next instruction on, without gap or repetition.                *)
Held == LET n == CHOOSE m \in 0 .. DEPTH : \A e \in Entry : valid_q[e] <=> e < m
        IN  [k \in 1 .. n |-> rdata_q[k - 1].word]
Coming == LET d == IF branch_discard_q[1] THEN 2 ELSE IF branch_discard_q[0] THEN 1 ELSE 0
          IN  SubSeq(bus, d + 1, Len(bus))
Asked == IF valid_req_q /\ ~discard_req_q THEN <<stored_addr_q \div 2>> ELSE <<>>
Stream == Held \o Coming \o Asked \o <<fetch_addr_q \div 2>>
StreamContiguous ==
  booted => \A k \in DOMAIN Stream : Stream[k] = ((instr_addr_q \div 2) + k - 1) % Words

(* Bus protocol: a request that was not granted is shown again, with the   *)
(* same address, in the next cycle, even when a branch has made it stale.  *)
RequestStable ==
  [][shown # None /\ ~shown.gnt => shown' # None /\ shown'.word = shown.word]_vars

(* Fetching never gets stuck: time and again the IF stage gets an          *)
(* instruction, or has branched away from the one it waited for.           *)
FetchProgress == []<>(got # None)
=============================================================================
