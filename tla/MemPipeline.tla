----------------------------- MODULE MemPipeline -----------------------------
(***************************************************************************)
(* Loads and stores in the pipeline: what the ID and the writeback stage   *)
(* do with the load/store unit.  With the writeback stage an access leaves *)
(* ID when its last request is done and waits for the response in WB, so   *)
(* that the next access can be requested in the cycle of the response;     *)
(* without it an access stays in ID until it has its response.             *)
(*                                                                         *)
(* A load hazard or another instruction between two accesses only delays   *)
(* the second one: an empty ID stage takes an arbitrary access or None in  *)
(* every cycle.                                                            *)
(***************************************************************************)
EXTENDS LoadStoreUnit

CONSTANTS
  WritebackStage,  \* parameter of the core
  Accesses         \* the accesses the program may make

ASSUME PipelineAssumption ==
  /\ WritebackStage \in BOOLEAN
  /\ Accesses \subseteq Access
  /\ None \notin Access

VARIABLES
  idMulti,  \* id_fsm_q is MULTI_CYCLE
  wb,       \* the load or store in the WB stage, or None
  done      \* observer: the access whose response came in the last cycle, or None

pipeVars == <<id, idMulti, wb, done, lsuRegs>>

-----------------------------------------------------------------------------
(* outstanding_memory_access                                               *)
OutstandingMemoryAccess(i) == wb # None /\ ~LsuRespValid(i)

(* Mutant of LsuReq: the error of the access in WB does not kill the       *)
(* access in ID.                                                           *)
LsuReqNoKill(i) ==
  IF WritebackStage
  THEN id # None /\ ~OutstandingMemoryAccess(i)
  ELSE id # None /\ ~idMulti

(* lsu_req: wb_exception of the response kills the access in ID.           *)
LsuReq(i) ==
  IF WritebackStage
  THEN id # None /\ ~OutstandingMemoryAccess(i) /\ ~LsuRespErr(i)
  ELSE id # None /\ ~idMulti

(* The access that gets its response in this cycle.                        *)
Responding(i) ==
  IF ~LsuRespValid(i) THEN None
  ELSE IF WritebackStage THEN wb
  ELSE IF idMulti THEN id ELSE None

-----------------------------------------------------------------------------
(* The ID and WB stages at the end of the cycle.                           *)

(* What the fetch side delivers: an access, or no access in this cycle.    *)
Fetched == Accesses \cup {None}

IdWithWb(i) ==
  /\ WritebackStage
  /\ \/ /\ LsuReqDone(LsuReq(i))        \* en_wb_o: the access moves on to WB
        /\ wb' = id /\ id' \in Fetched
        /\ idMulti' = FALSE
     \/ /\ ~LsuReqDone(LsuReq(i))
        /\ wb' = IF LsuRespValid(i) THEN None ELSE wb
        /\ \/ LsuRespErr(i) /\ id' = None       \* flush_id
           \/ ~LsuRespErr(i) /\ id = None /\ id' \in Fetched
           \/ ~LsuRespErr(i) /\ id # None /\ id' = id
        /\ idMulti' = (idMulti \/ LsuReq(i))

IdWithoutWb(i) ==
  /\ ~WritebackStage
  /\ wb' = None
  /\ \/ /\ id # None /\ idMulti /\ LsuRespValid(i)   \* multicycle_done
        /\ id' \in IF LsuRespErr(i) THEN {None} ELSE Fetched   \* special_req
        /\ idMulti' = FALSE
     \/ /\ id # None /\ ~(idMulti /\ LsuRespValid(i))
        /\ id' = id /\ idMulti' = TRUE
     \/ /\ id = None
        /\ id' \in Fetched /\ idMulti' = FALSE

PipeInit ==
  /\ LsuInit
  /\ id = None /\ idMulti = FALSE
  /\ wb = None
  /\ done = None

PipeCycle(i) ==
  /\ LsuCycle(LsuReq(i), i)
  /\ IdWithWb(i) \/ IdWithoutWb(i)
  /\ done' = IF Responding(i) = None THEN None
             ELSE [access |-> Responding(i), err |-> LsuRespErr(i),
                   rf_we |-> LsuRdataValid(i), rdata |-> LsuRdata(i)]

-----------------------------------------------------------------------------
(* What the source calls an access with a response to come: an access in   *)
(* WB or, being split or there being no WB stage, in ID.                   *)
OutstandingResp ==
  IF WritebackStage
  THEN wb # None \/ (id # None /\ SplitMisaligned(id.type, id.addr % 4))
  ELSE id # None

-----------------------------------------------------------------------------
(* What an access means, independently of how the LSU performs it.         *)

SizeOf(a) == CASE a.type = "word" -> 4 [] a.type = "half" -> 2 [] a.type = "byte" -> 1

(* The byte addresses of access a, byte k of the register at BytesOf(a)[k]. *)
BytesOf(a) == [k \in 0 .. SizeOf(a) - 1 |-> (a.addr + k) % (4 * Words)]

(* The register a load must produce from memory m.                         *)
Loaded(a, m) ==
  LET top == SizeOf(a) - 1
  IN  [k \in 0 .. 3 |->
         IF k <= top THEN m[BytesOf(a)[k]]
         ELSE IF a.sign THEN Sign(m[BytesOf(a)[top]]) ELSE Zero]

(* The bytes a store must write.                                           *)
Stored(a) == {<<BytesOf(a)[k], <<"reg", k>>>> : k \in DOMAIN BytesOf(a)}

(* A memory no store has changed.                                          *)
FreshMem == [a \in Addr |-> <<"mem", a>>]
=============================================================================
