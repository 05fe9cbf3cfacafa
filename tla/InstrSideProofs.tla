--------------------------- MODULE InstrSideProofs ---------------------------
(***************************************************************************)
(* Proofs about the fetch side for every size of the address space, every  *)
(* program and every memory that follows the bus protocol.                 *)
(*                                                                         *)
(* None of the properties is inductive: that a word which arrives finds a  *)
(* free entry depends on what was reserved when it was requested, and that *)
(* it is the word the program needs depends on every address on the way.   *)
(* Inv counts the words held, coming and asked for and places each of them *)
(* in the stream that begins at the next instruction.                      *)
(***************************************************************************)
EXTENDS InstrSide, Integers, TLAPS

Count(b) == IF b THEN 1 ELSE 0

(* Words in the FIFO, answers to come that are stale, answers to come that *)
(* are not, and a request that waits for its grant and is not stale.       *)
HeldWords == Count(valid_q[0]) + Count(valid_q[1]) + Count(valid_q[2])
StaleWords == Count(branch_discard_q[0]) + Count(branch_discard_q[1])
ComingWords == Len(bus) - StaleWords
AskedWords == Count(valid_req_q /\ ~discard_req_q)

(* The k-th word of the stream that begins at the next instruction.        *)
WordAt(k) == ((instr_addr_q \div 2) + k) % Words

(* The entries of the FIFO are filled from the bottom.                     *)
EntriesPacked ==
  /\ valid_q[1] => valid_q[0]
  /\ valid_q[2] => valid_q[1]

(* A request waits only when a place for it is free, the answers before a  *)
(* stale request are stale, and every word on its way has an entry to go   *)
(* to.                                                                     *)
RoomForAll ==
  /\ valid_req_q => ~rdata_outstanding_q[1]
  /\ valid_req_q /\ discard_req_q /\ rdata_outstanding_q[0] => branch_discard_q[0]
  /\ HeldWords + ComingWords + AskedWords <= DEPTH

(* Words held, coming, asked for and to be fetched next are the stream.    *)
InOrder ==
  /\ \A k \in Entry : valid_q[k] => rdata_q[k] = Fetched(WordAt(k))
  /\ \A k \in 1 .. NUM_REQS : k > StaleWords /\ k <= Len(bus) =>
       bus[k] = WordAt(HeldWords + k - StaleWords - 1)
  /\ valid_req_q /\ ~discard_req_q =>
       stored_addr_q \div 2 = WordAt(HeldWords + ComingWords)
  /\ fetch_addr_q \div 2 = WordAt(HeldWords + ComingWords + AskedWords)
  /\ pc = instr_addr_q

(* A request that was shown and not granted is the one that waits.         *)
ShownWaits ==
  shown # None /\ ~shown.gnt =>
    valid_req_q /\ shown.word = stored_addr_q \div 2

(* The inductive invariant.                                                *)
Inv == /\ TypeOK /\ OutstandingTracked /\ EntriesPacked /\ RoomForAll
       /\ InOrder /\ ShownWaits

(* What a cycle of Next is given, and what it does.                        *)
InputOK(i) ==
  /\ i.req \in BOOLEAN /\ i.branch \in BOOLEAN /\ i.addr \in Half
  /\ i.ready \in BOOLEAN /\ i.gnt \in BOOLEAN /\ i.rvalid \in BOOLEAN
  /\ i.in = IF i.rvalid THEN Fetched(Head(bus)) ELSE Junk

CycleOf(i) ==
  /\ InputOK(i)
  /\ i.rvalid => bus # <<>>
  /\ i.gnt => ValidReq(i)
  /\ FetchCycle(i)
  /\ bus' = (IF i.rvalid THEN Tail(bus) ELSE bus)
              \o (IF i.gnt THEN <<InstrWord(i)>> ELSE <<>>)
  /\ shown' = IF ValidReq(i) THEN [word |-> InstrWord(i), gnt |-> i.gnt] ELSE None

(* Every step of the specification is a cycle with inputs of their types.  *)
LEMMA NextIsCycle ==
  ASSUME Next
  PROVE  \E i : CycleOf(i)
<1>1. PICK req, ready, gnt, rvalid \in BOOLEAN, b \in Branches :
             Cycle(req, b[1], b[2], ready, gnt, rvalid)
  BY DEF Next, Step
<1> DEFINE i == [req |-> req, branch |-> b[1], addr |-> b[2], ready |-> ready,
                 gnt |-> gnt, rvalid |-> rvalid,
                 in |-> IF rvalid THEN Fetched(Head(bus)) ELSE Junk]
<1>2. b[1] \in BOOLEAN /\ b[2] \in Half
  <2>1. CASE b \in {TRUE} \X Targets
    BY <2>1, FetchPipelineAssumption
  <2>2. CASE b = <<FALSE, 0>>
    BY <2>2, FetchFifoAssumption DEF Half
  <2>3. QED
    BY <2>1, <2>2 DEF Branches
<1>3. InputOK(i)
  BY <1>2 DEF InputOK
<1>4. CycleOf(i)
  BY <1>1, <1>3 DEF CycleOf, Cycle
<1>5. QED
  BY <1>4

(* Quotient and remainder are unique.                                      *)
LEMMA ModUnique ==
  ASSUME NEW m \in Nat \ {0}, NEW q \in Int, NEW p \in Int,
         NEW r \in 0 .. m - 1, NEW s \in 0 .. m - 1, m * q + r = m * p + s
  PROVE  r = s
<1>1. CASE q = p
  BY <1>1
<1>2. CASE q >= p + 1
  <2>1. m * q >= m * (p + 1)
    BY <1>2
  <2>2. m * (p+1) = m*p + m
    OBVIOUS
  <2> QED
    BY <2>1, <2>2
<1>3. CASE p >= q + 1
  <2>1. m * p >= m * (q + 1)
    BY <1>3
  <2>2. m * (q+1) = m*q + m
    OBVIOUS
  <2> QED
    BY <2>1, <2>2
<1> QED
  BY <1>1, <1>2, <1>3

(* What division by m leaves is between 0 and m - 1.                       *)
LEMMA DivMod ==
  ASSUME NEW m \in Nat \ {0}, NEW x \in Nat
  PROVE x = m * (x \div m) + (x % m) /\ x % m \in 0 .. m - 1 /\ x \div m \in Nat
  OBVIOUS

(* A remainder may be taken before an addition as well as after it.        *)
LEMMA ModAdd ==
  ASSUME NEW m \in Nat \ {0}, NEW x \in Nat, NEW k \in Nat
  PROVE ((x % m) + k) % m = (x + k) % m
<1> DEFINE y == (x % m) + k
           q == x \div m
           p == y \div m
           u == (x + k) \div m
<1>1. y \in Nat /\ q \in Nat /\ p \in Nat /\ u \in Nat /\ x + k \in Nat
  BY DivMod
<1>2. x + k = m * q + y
  BY DivMod
<1>3. y = m * p + (y % m) /\ y % m \in 0 .. m - 1
  BY <1>1, DivMod
<1>4. x + k = m * u + ((x + k) % m) /\ (x + k) % m \in 0 .. m - 1
  BY <1>1, DivMod
<1>5. m * (q + p) = m * q + m * p
  BY <1>1
<1>6. m * (q + p) + (y % m) = m * u + ((x + k) % m)
  <2> HIDE DEF y, q, p, u
  <2> QED
    BY <1>1, <1>2, <1>3, <1>4, <1>5
<1> HIDE DEF y, q, p, u
<1>7. q + p \in Int /\ u \in Int
  BY <1>1
<1>8. y % m = (x + k) % m
  BY <1>3, <1>4, <1>6, <1>7, ModUnique
<1> QED
  BY <1>8 DEF y

(* How the address of a half word, the word it lies in and the two         *)
(* increments of the address behave in an address space of w words.        *)
LEMMA HalfAddr ==
  ASSUME NEW w \in Nat \ {0}, NEW h \in 0 .. 2 * w - 1
  PROVE /\ h \div 2 \in 0 .. w - 1
        /\ h = 2 * (h \div 2) + (h % 2) /\ h % 2 \in {0, 1}
        /\ (h + 1) % (2 * w) = IF h + 1 = 2 * w THEN 0 ELSE h + 1
        /\ (h + 2) % (2 * w) = IF h + 2 >= 2 * w THEN h + 2 - 2 * w ELSE h + 2
        /\ h % 2 = 0 => ((h + 1) % (2 * w)) \div 2 = h \div 2
        /\ h % 2 = 1 => ((h + 1) % (2 * w)) \div 2 = (h \div 2 + 1) % w
        /\ ((h + 2) % (2 * w)) \div 2 = (h \div 2 + 1) % w
        /\ (h - (h % 2) + 2) % (2 * w) = 2 * ((h \div 2 + 1) % w)
  OBVIOUS
(* valid_q after a cycle of the FIFO, bit by bit.                          *)
LEMMA FifoBits ==
  ASSUME TypeOK, NEW clear \in BOOLEAN, NEW addr, NEW iv \in BOOLEAN, NEW in, NEW ready \in BOOLEAN,
         FifoCycle(clear, addr, iv, in, ready),
         NEW pop \in BOOLEAN, pop <=> PopFifo(iv, in, ready)
  PROVE  /\ valid_q' \in [Entry -> BOOLEAN]
         /\ valid_q'[0] <=> ~clear /\ IF pop THEN valid_q[1] \/ (iv /\ ~valid_q[1] /\ valid_q[0])
                                     ELSE valid_q[0] \/ iv
         /\ valid_q'[1] <=> ~clear /\ IF pop THEN valid_q[2] \/ (iv /\ ~valid_q[2] /\ valid_q[1])
                                     ELSE valid_q[1] \/ (iv /\ valid_q[0])
         /\ valid_q'[2] <=> ~clear /\ ~pop /\ (valid_q[2] \/ (iv /\ valid_q[1]))
<1>1. \A e \in Entry : valid_q[e] \in BOOLEAN
  BY DEF TypeOK
<1>2. Entry = {0, 1, 2}
  BY DEF Entry, DEPTH
<1>3. \A e \in Entry : valid_q'[e] \in BOOLEAN /\ (valid_q'[e] <=> 
           /\ ~clear
           /\ IF pop THEN e # DEPTH - 1 /\ ValidPushed(iv, e + 1)
              ELSE ValidPushed(iv, e))
  BY DEF FifoCycle
<1>4. valid_q' \in [Entry -> BOOLEAN]
  BY <1>3 DEF FifoCycle
<1>5. QED
  BY <1>1, <1>2, <1>3, <1>4 DEF DEPTH, ValidPushed, LowestFreeEntry

(* Shift, bit by bit.                                                      *)
LEMMA ShiftBits ==
  ASSUME NEW rvalid \in BOOLEAN, NEW bits \in [Req -> BOOLEAN]
  PROVE  /\ Shift(rvalid, bits) \in [Req -> BOOLEAN]
         /\ Shift(rvalid, bits)[0] <=> IF rvalid THEN bits[1] ELSE bits[0]
         /\ Shift(rvalid, bits)[1] <=> ~rvalid /\ bits[1]
<1>1. Req = {0, 1}
  BY DEF Req, NUM_REQS
<1>2. bits[0] \in BOOLEAN /\ bits[1] \in BOOLEAN
  BY <1>1
<1>3. Shift(rvalid, bits) \in [Req -> BOOLEAN]
  <2>1. \A k \in Req : (IF rvalid THEN k # NUM_REQS - 1 /\ bits[k + 1] ELSE bits[k]) \in BOOLEAN
    BY <1>1, <1>2
  <2>2. QED
    BY <2>1 DEF Shift
<1>4. \A k \in Req : Shift(rvalid, bits)[k] =
                      IF rvalid THEN k # NUM_REQS - 1 /\ bits[k + 1] ELSE bits[k]
  BY DEF Shift
<1>5. /\ Shift(rvalid, bits)[0] = IF rvalid THEN 0 # 1 /\ bits[0 + 1] ELSE bits[0]
      /\ Shift(rvalid, bits)[1] = IF rvalid THEN 1 # 1 /\ bits[1 + 1] ELSE bits[1]
  BY <1>1, <1>4 DEF NUM_REQS
<1>6. QED
  BY <1>2, <1>3, <1>5

(* The request registers of the buffer after a cycle, bit by bit.          *)
LEMMA PrefetchBits ==
  ASSUME TypeOK, NEW i, i.branch \in BOOLEAN, i.rvalid \in BOOLEAN, i.gnt \in BOOLEAN,
         i.req \in BOOLEAN, PrefetchCycle(i), i.gnt => ValidReq(i),
         NEW o0, NEW o1, NEW d0, NEW d1,
         o0 = rdata_outstanding_q[0], o1 = rdata_outstanding_q[1],
         d0 = branch_discard_q[0], d1 = branch_discard_q[1]
  PROVE  /\ rdata_outstanding_q' \in [Req -> BOOLEAN]
         /\ branch_discard_q' \in [Req -> BOOLEAN]
         /\ valid_req_q' \in BOOLEAN /\ discard_req_q' \in BOOLEAN
         /\ valid_req_q' <=> (valid_req_q \/ FreshReq(i)) /\ ~i.gnt
         /\ discard_req_q' <=> valid_req_q /\ (i.branch \/ discard_req_q)
         /\ rdata_outstanding_q'[0] <=> IF i.rvalid THEN o1 \/ (i.gnt /\ o0) ELSE o0 \/ i.gnt
         /\ rdata_outstanding_q'[1] <=> ~i.rvalid /\ (o1 \/ (i.gnt /\ o0))
         /\ branch_discard_q'[0] <=>
              IF i.rvalid THEN (i.gnt /\ o0 /\ DiscardReq(i)) \/ (i.branch /\ o1) \/ d1
              ELSE (i.gnt /\ DiscardReq(i)) \/ (i.branch /\ o0) \/ d0
         /\ branch_discard_q'[1] <=>
              ~i.rvalid /\ ((i.gnt /\ o0 /\ DiscardReq(i)) \/ (i.branch /\ o1) \/ d1)
<1> DEFINE out == [k \in Req |-> Outstanding(i, k)]
           dis == [k \in Req |-> BranchDiscard(i, k)]
<1>1. Req = {0, 1}
  BY DEF Req, NUM_REQS
<1>2. o0 \in BOOLEAN /\ o1 \in BOOLEAN /\ d0 \in BOOLEAN /\ d1 \in BOOLEAN
  BY <1>1 DEF TypeOK
<1>3. /\ out \in [Req -> BOOLEAN]
      /\ out[0] <=> o0 \/ i.gnt
      /\ out[1] <=> o1 \/ (i.gnt /\ o0)
  BY <1>1, <1>2 DEF Outstanding, Granted
<1>4. /\ dis \in [Req -> BOOLEAN]
      /\ dis[0] <=> (i.gnt /\ DiscardReq(i)) \/ (i.branch /\ o0) \/ d0
      /\ dis[1] <=> (i.gnt /\ o0 /\ DiscardReq(i)) \/ (i.branch /\ o1) \/ d1
  BY <1>1, <1>2 DEF BranchDiscard, Granted
<1>5. /\ rdata_outstanding_q' = Shift(i.rvalid, out)
      /\ branch_discard_q' = Shift(i.rvalid, dis)
  BY DEF PrefetchCycle
<1> HIDE DEF out, dis
<1>6. /\ valid_req_q' \in BOOLEAN /\ discard_req_q' \in BOOLEAN
      /\ valid_req_q' <=> (valid_req_q \/ FreshReq(i)) /\ ~i.gnt
      /\ discard_req_q' <=> valid_req_q /\ (i.branch \/ discard_req_q)
  BY DEF PrefetchCycle, ValidReq, FreshReq, DiscardReq, TypeOK
<1>7. /\ rdata_outstanding_q' \in [Req -> BOOLEAN]
      /\ rdata_outstanding_q'[0] <=> IF i.rvalid THEN out[1] ELSE out[0]
      /\ rdata_outstanding_q'[1] <=> ~i.rvalid /\ out[1]
  BY <1>3, <1>5, ShiftBits
<1>8. /\ branch_discard_q' \in [Req -> BOOLEAN]
      /\ branch_discard_q'[0] <=> IF i.rvalid THEN dis[1] ELSE dis[0]
      /\ branch_discard_q'[1] <=> ~i.rvalid /\ dis[1]
  BY <1>4, <1>5, ShiftBits
<1>9. QED
  BY <1>3, <1>4, <1>6, <1>7, <1>8

(* Types of the single bits.                                               *)
LEMMA Bits ==
  ASSUME TypeOK
  PROVE  /\ valid_q[0] \in BOOLEAN /\ valid_q[1] \in BOOLEAN /\ valid_q[2] \in BOOLEAN
         /\ rdata_outstanding_q[0] \in BOOLEAN /\ rdata_outstanding_q[1] \in BOOLEAN
         /\ branch_discard_q[0] \in BOOLEAN /\ branch_discard_q[1] \in BOOLEAN
         /\ valid_req_q \in BOOLEAN /\ discard_req_q \in BOOLEAN
         /\ Entry = {0, 1, 2} /\ Req = {0, 1}
         /\ Len(bus) \in Nat /\ Len(bus) <= 2
<1>1. Entry = {0, 1, 2} /\ Req = {0, 1}
  BY DEF Entry, DEPTH, Req, NUM_REQS
<1>2. QED
  BY <1>1 DEF TypeOK, NUM_REQS

(* Words of the stream are words, the first is where the next instruction  *)
(* begins.                                                                 *)
LEMMA WordAtType ==
  ASSUME TypeOK, NEW k \in Nat
  PROVE  /\ WordAt(k) \in Word
         /\ WordAt(0) = instr_addr_q \div 2
         /\ instr_addr_q = 2 * WordAt(0) + (instr_addr_q % 2)
         /\ instr_addr_q % 2 \in {0, 1}
<1>1. instr_addr_q \in 0 .. 2 * Words - 1 /\ Words \in Nat \ {0}
  BY FetchFifoAssumption DEF TypeOK, Half
<1>2. /\ instr_addr_q \div 2 \in 0 .. Words - 1
      /\ instr_addr_q = 2 * (instr_addr_q \div 2) + (instr_addr_q % 2)
      /\ instr_addr_q % 2 \in {0, 1}
  BY <1>1, HalfAddr
<1>3. WordAt(0) = instr_addr_q \div 2
  BY <1>1, <1>2 DEF WordAt
<1>4. WordAt(k) \in Word
  BY <1>1, <1>2, DivMod DEF WordAt, Word
<1>5. QED
  BY <1>2, <1>3, <1>4

(* An answer that is pushed into the FIFO finds its last entry free and is *)
(* the first word of the stream the FIFO does not hold.                    *)
LEMMA AnswerInOrder ==
  ASSUME Inv, NEW i, CycleOf(i)
  PROVE  /\ i.in \in Data
         /\ FifoValid(i) \in BOOLEAN
         /\ FifoValid(i) => /\ ~valid_q[2] /\ ~branch_discard_q[1]
                            /\ i.rvalid /\ ~branch_discard_q[0] /\ Len(bus) >= 1
                            /\ i.in = Fetched(WordAt(HeldWords))
<1>1. i.rvalid => Len(bus) >= 1 /\ Head(bus) \in Word /\ Head(bus) = bus[1]
  BY DEF CycleOf, Inv, TypeOK
<1>2. i.in \in Data
  BY <1>1, JunkAssumption DEF CycleOf, InputOK, Fetched, Data
<1>3. FifoValid(i) \in BOOLEAN
  BY Bits DEF FifoValid, Inv, CycleOf, InputOK
<1>4. ASSUME FifoValid(i)
      PROVE  /\ ~valid_q[2] /\ ~branch_discard_q[1]
             /\ i.rvalid /\ ~branch_discard_q[0] /\ Len(bus) >= 1
             /\ i.in = Fetched(WordAt(HeldWords))
  <2>1. i.rvalid /\ ~branch_discard_q[0] /\ ~branch_discard_q[1] /\ Len(bus) >= 1
    BY <1>1, <1>4, Bits DEF FifoValid, Inv, OutstandingTracked
  <2>2. StaleWords = 0 /\ ComingWords >= 1
    BY <2>1, Bits DEF StaleWords, ComingWords, Count, Inv
  <2>3. HeldWords \in 0 .. 3 /\ AskedWords \in {0, 1}
    BY Bits DEF HeldWords, AskedWords, Count, Inv
  <2>4. HeldWords <= 2
    BY <2>2, <2>3, Bits DEF Inv, RoomForAll, DEPTH, ComingWords
  <2>5. ~valid_q[2]
    BY <2>4, Bits DEF HeldWords, Count, Inv, EntriesPacked
  <2> HIDE DEF Inv
  <2>6. bus[1] = WordAt(HeldWords + 1 - StaleWords - 1)
    <3>1. 1 \in 1 .. NUM_REQS /\ 1 > StaleWords /\ 1 <= Len(bus)
      BY <2>1, <2>2 DEF NUM_REQS
    <3>2. QED
      BY <3>1 DEF Inv, InOrder
  <2>7. i.in = Fetched(WordAt(HeldWords))
    BY <1>1, <2>1, <2>2, <2>3, <2>6 DEF CycleOf, InputOK
  <2>8. QED
    BY <2>1, <2>5, <2>7
<1>5. QED
  BY <1>2, <1>3, <1>4

(* The fields of a fetched word.                                           *)
LEMMA FetchedFields ==
  ASSUME NEW w
  PROVE  Fetched(w).word = w /\ Fetched(w).err = (w \in Faulty)
  BY DEF Fetched

(* When the FIFO offers an instruction, it is looking at the words of the  *)
(* stream the instruction lies in, and takes its length from the program.  *)
LEMMA HeadOfStream ==
  ASSUME Inv, NEW i, CycleOf(i), OutValid(FifoValid(i), i.in)
  PROVE  /\ valid_q[0] \/ FifoValid(i)
         /\ Rdata(i.in) = Fetched(WordAt(0))
         /\ Unaligned => (UnalignedIsCompressed(i.in) <=> ~IsLong(instr_addr_q))
         /\ ~Unaligned => (AlignedIsCompressed(i.in) <=> ~IsLong(instr_addr_q))
         /\ Unaligned /\ IsLong(instr_addr_q) =>
              /\ valid_q[1] \/ (valid_q[0] /\ FifoValid(i))
              /\ Upper(i.in) = Fetched(WordAt(1))
<1>1. TypeOK /\ EntriesPacked /\ Entry = {0, 1, 2}
  BY Bits DEF Inv
<1>2. valid_q[0] \/ FifoValid(i)
  BY <1>1, Bits, AnswerInOrder DEF OutValid, EntriesPacked
<1>3. Rdata(i.in) = Fetched(WordAt(0))
  <2>1. CASE valid_q[0]
    BY <1>1, <2>1 DEF Rdata, Inv, InOrder
  <2>2. CASE ~valid_q[0]
    <3>1. HeldWords = 0
      BY <1>1, <2>2, Bits DEF HeldWords, Count, EntriesPacked
    <3>2. QED
      BY <1>2, <2>2, <3>1, AnswerInOrder DEF Rdata
  <2>3. QED
    BY <2>1, <2>2
<1>4. /\ instr_addr_q = 2 * WordAt(0) + (instr_addr_q % 2)
      /\ instr_addr_q % 2 \in {0, 1}
      /\ WordAt(0) = instr_addr_q \div 2
      /\ WordAt(0) \in Nat
  BY <1>1, WordAtType, FetchFifoAssumption DEF Word
<1>5. /\ Unaligned => (UnalignedIsCompressed(i.in) <=> ~IsLong(instr_addr_q))
      /\ ~Unaligned => (AlignedIsCompressed(i.in) <=> ~IsLong(instr_addr_q))
  <2>1. Rdata(i.in).word = WordAt(0) /\ Rdata(i.in).err = (WordAt(0) \in Faulty)
    BY <1>3, FetchedFields
  <2>2. CASE instr_addr_q % 2 = 1
    <3>1. instr_addr_q = 2 * WordAt(0) + 1
      BY <1>4, <2>2
    <3>2. QED
      BY <1>4, <2>1, <2>2, <3>1
         DEF Unaligned, UnalignedIsCompressed, IsCompressed, IsLong, FirstFaulty
  <2>3. CASE instr_addr_q % 2 = 0
    <3>1. instr_addr_q = 2 * WordAt(0) + 0
      BY <1>4, <2>3
    <3>2. AlignedIsCompressed(i.in) <=>
            2 * WordAt(0) + 0 \in Compressed /\ ~(WordAt(0) \in Faulty)
      BY <2>1 DEF AlignedIsCompressed, IsCompressed
    <3>3. AlignedIsCompressed(i.in) <=> ~IsLong(instr_addr_q)
      BY <1>4, <3>1, <3>2, Zenon DEF IsLong, FirstFaulty
    <3>4. QED
      BY <2>3, <3>3 DEF Unaligned
  <2>4. QED
    BY <1>4, <2>2, <2>3
<1>6. ASSUME Unaligned, IsLong(instr_addr_q)
      PROVE  /\ valid_q[1] \/ (valid_q[0] /\ FifoValid(i))
             /\ Upper(i.in) = Fetched(WordAt(1))
  <2>1. valid_q[1] \/ (valid_q[0] /\ FifoValid(i))
    BY <1>5, <1>6 DEF OutValid
  <2>2. CASE valid_q[1]
    BY <1>1, <2>2 DEF Upper, Inv, InOrder
  <2>3. CASE ~valid_q[1]
    <3>1. HeldWords = 1
      BY <1>1, <2>1, <2>3, Bits DEF HeldWords, Count, EntriesPacked
    <3>2. QED
      BY <2>1, <2>3, <3>1, AnswerInOrder DEF Upper
  <2>4. QED
    BY <2>1, <2>2, <2>3
<1>7. QED
  BY <1>2, <1>3, <1>5, <1>6

(* The lowest entry is given up, an instruction is taken.                  *)
Pop(i) == PopFifo(FifoValid(i), i.in, i.ready)
Take(i) == i.ready /\ OutValid(FifoValid(i), i.in)

(* Without a branch the address moves by the length of the instruction     *)
(* taken, and the stream loses its first word exactly when the FIFO pops.  *)
LEMMA AddressStep ==
  ASSUME Inv, NEW i, CycleOf(i), ~i.branch
  PROVE  /\ Pop(i) \in BOOLEAN
         /\ Pop(i) => valid_q[0] \/ FifoValid(i)
         /\ instr_addr_q' \in Half
         /\ pc' = instr_addr_q'
         /\ instr_addr_q' \div 2 = WordAt(Count(Pop(i)))
<1>1. /\ Words \in Nat \ {0} /\ instr_addr_q \in 0 .. 2 * Words - 1 /\ TypeOK
      /\ i.ready \in BOOLEAN /\ i.branch = FALSE
  BY FetchFifoAssumption DEF Inv, TypeOK, Half, CycleOf, InputOK
<1>2. /\ pc = instr_addr_q
      /\ pc' = IF ~Take(i) THEN pc ELSE IF IsLong(pc) THEN Next4(pc) ELSE Next2(pc)
  BY <1>1 DEF Inv, InOrder, CycleOf, FetchCycle, Taken, Take
<1>3. instr_addr_q' = IF Take(i)
                      THEN (instr_addr_q + (IF AddrIncrTwo(i.in) THEN 1 ELSE 2)) % (2 * Words)
                      ELSE instr_addr_q
  BY <1>1 DEF CycleOf, FetchCycle, PrefetchCycle, FifoCycle, Take
<1>4. CASE ~Take(i)
  <2>1. Pop(i) = FALSE
    BY <1>4 DEF Pop, PopFifo, Take
  <2>2. QED
    BY <1>1, <1>2, <1>3, <1>4, <2>1, WordAtType DEF Count, Half
<1>5. CASE Take(i)
  <2>0. OutValid(FifoValid(i), i.in)
    BY <1>5 DEF Take
  <2>1. /\ AddrIncrTwo(i.in) <=> ~IsLong(instr_addr_q)
        /\ valid_q[0] \/ FifoValid(i)
    BY <2>0, HeadOfStream DEF AddrIncrTwo
  <2>2. Pop(i) <=> Unaligned \/ IsLong(instr_addr_q)
    BY <1>5, <2>0, HeadOfStream DEF Pop, PopFifo, Take
  <2>3. Pop(i) \in BOOLEAN
    BY DEF Pop, PopFifo
  <2>4. CASE IsLong(instr_addr_q)
    <3>1. Pop(i) = TRUE
      BY <2>2, <2>3, <2>4
    <3>2. instr_addr_q' = (instr_addr_q + 2) % (2 * Words) /\ pc' = instr_addr_q'
      BY <1>2, <1>3, <1>5, <2>1, <2>4 DEF Next4
    <3>3. /\ instr_addr_q' \in Half
          /\ instr_addr_q' \div 2 = ((instr_addr_q \div 2) + 1) % Words
      <4>1. (instr_addr_q + 2) % (2 * Words) \in Half
        BY <1>1, HalfAddr DEF Half
      <4>2. ((instr_addr_q + 2) % (2 * Words)) \div 2 = ((instr_addr_q \div 2) + 1) % Words
        BY <1>1, HalfAddr
      <4>3. QED
        BY <3>2, <4>1, <4>2
    <3>4. QED
      BY <2>1, <2>3, <3>1, <3>2, <3>3 DEF WordAt, Count
  <2>5. CASE ~IsLong(instr_addr_q)
    <3>1. instr_addr_q' = (instr_addr_q + 1) % (2 * Words) /\ pc' = instr_addr_q'
      BY <1>2, <1>3, <1>5, <2>1, <2>5 DEF Next2
    <3>2. instr_addr_q' \in Half
      BY <1>1, <3>1, HalfAddr DEF Half
    <3>3. CASE Unaligned
      <4>1. Pop(i) = TRUE
        BY <2>2, <2>3, <3>3
      <4>2. instr_addr_q' \div 2 = ((instr_addr_q \div 2) + 1) % Words
        BY <1>1, <3>1, <3>3, HalfAddr DEF Unaligned
      <4>3. QED
        BY <2>1, <2>3, <3>1, <3>2, <4>1, <4>2 DEF WordAt, Count
    <3>4. CASE ~Unaligned
      <4>1. Pop(i) = FALSE
        BY <2>2, <2>3, <2>5, <3>4
      <4>2. instr_addr_q' \div 2 = instr_addr_q \div 2
        BY <1>1, <3>1, <3>4, HalfAddr DEF Unaligned
      <4>3. QED
        BY <1>1, <2>1, <2>3, <3>1, <3>2, <4>1, <4>2, WordAtType DEF Count
    <3>5. QED
      BY <3>3, <3>4
  <2>6. QED
    BY <2>4, <2>5
<1>6. QED
  BY <1>4, <1>5

(* The entries after a cycle of the FIFO.                                  *)
LEMMA FifoData ==
  ASSUME TypeOK, NEW clear \in BOOLEAN, NEW addr, NEW iv \in BOOLEAN, NEW in \in Data,
         NEW ready \in BOOLEAN, FifoCycle(clear, addr, iv, in, ready),
         NEW pop \in BOOLEAN, pop <=> PopFifo(iv, in, ready)
  PROVE  /\ rdata_q' \in [Entry -> Data]
         /\ rdata_q'[0] = IF IF pop THEN valid_q[1] \/ (iv /\ valid_q[0]) ELSE iv /\ ~valid_q[0]
                          THEN IF valid_q[1] THEN rdata_q[1] ELSE in ELSE rdata_q[0]
         /\ rdata_q'[1] = IF IF pop THEN valid_q[2] \/ (iv /\ valid_q[1])
                             ELSE iv /\ ~valid_q[1] /\ valid_q[0]
                          THEN IF valid_q[2] THEN rdata_q[2] ELSE in ELSE rdata_q[1]
         /\ rdata_q'[2] = IF iv /\ ~valid_q[2] /\ valid_q[1] THEN in ELSE rdata_q[2]
<1> DEFINE next(i) == IF i # DEPTH - 1 /\ valid_q[i + 1] THEN rdata_q[i + 1] ELSE in
           en(i) == IF i = DEPTH - 1 THEN iv /\ LowestFreeEntry(i)
                    ELSE \/ pop /\ ValidPushed(iv, i + 1)
                         \/ ~pop /\ iv /\ LowestFreeEntry(i)
<1>1. Entry = {0, 1, 2} /\ \A e \in Entry : valid_q[e] \in BOOLEAN /\ rdata_q[e] \in Data
  BY Bits DEF TypeOK
<1>2. rdata_q' = [i \in Entry |-> IF en(i) THEN next(i) ELSE rdata_q[i]]
  BY DEF FifoCycle
<1>3. /\ next(0) = IF valid_q[1] THEN rdata_q[1] ELSE in
      /\ next(1) = IF valid_q[2] THEN rdata_q[2] ELSE in
      /\ next(2) = in
  BY DEF DEPTH
<1>4. /\ en(0) <=> IF pop THEN valid_q[1] \/ (iv /\ valid_q[0]) ELSE iv /\ ~valid_q[0]
      /\ en(1) <=> IF pop THEN valid_q[2] \/ (iv /\ valid_q[1])
                   ELSE iv /\ ~valid_q[1] /\ valid_q[0]
      /\ en(2) <=> iv /\ ~valid_q[2] /\ valid_q[1]
  BY <1>1 DEF DEPTH, LowestFreeEntry, ValidPushed
<1> HIDE DEF next, en
<1>5. \A e \in Entry : rdata_q'[e] = IF en(e) THEN next(e) ELSE rdata_q[e]
  BY <1>2
<1>6. /\ rdata_q'[0] = IF en(0) THEN next(0) ELSE rdata_q[0]
      /\ rdata_q'[1] = IF en(1) THEN next(1) ELSE rdata_q[1]
      /\ rdata_q'[2] = IF en(2) THEN next(2) ELSE rdata_q[2]
  BY <1>1, <1>5
<1>7. rdata_q'[0] \in Data /\ rdata_q'[1] \in Data /\ rdata_q'[2] \in Data
  BY <1>1, <1>3, <1>6
<1>8. rdata_q' \in [Entry -> Data]
  BY <1>1, <1>2, <1>5, <1>7
<1>9. QED
  BY <1>3, <1>4, <1>6, <1>8

(* A branch empties the FIFO; without one it holds the first words of the  *)
(* new stream, one more for a push and one less for a pop.                 *)
LEMMA EntriesStep ==
  ASSUME Inv, NEW i, CycleOf(i)
  PROVE  /\ valid_q' \in [Entry -> BOOLEAN] /\ rdata_q' \in [Entry -> Data]
         /\ EntriesPacked'
         /\ i.branch => HeldWords' = 0 /\ \A k \in Entry : ~valid_q'[k]
         /\ ~i.branch =>
              /\ HeldWords' = HeldWords + Count(FifoValid(i)) - Count(Pop(i))
              /\ \A k \in Entry : valid_q'[k] =>
                    rdata_q'[k] = Fetched(WordAt(k + Count(Pop(i))))
<1> DEFINE iv == FifoValid(i)
           pop == Pop(i)
<1>1. /\ TypeOK /\ EntriesPacked /\ i.branch \in BOOLEAN /\ i.ready \in BOOLEAN
      /\ i.in \in Data /\ iv \in BOOLEAN /\ pop \in BOOLEAN
      /\ FifoCycle(i.branch, i.addr, iv, i.in, i.ready)
      /\ pop <=> PopFifo(iv, i.in, i.ready)
  BY AnswerInOrder DEF Inv, CycleOf, InputOK, FetchCycle, PrefetchCycle, Pop, PopFifo
<1>2. /\ valid_q[0] \in BOOLEAN /\ valid_q[1] \in BOOLEAN /\ valid_q[2] \in BOOLEAN
      /\ Entry = {0, 1, 2}
  BY <1>1, Bits
<1>3. iv => ~valid_q[2] /\ i.in = Fetched(WordAt(HeldWords))
  BY AnswerInOrder
<1>4. \A k \in Entry : valid_q[k] => rdata_q[k] = Fetched(WordAt(k))
  BY DEF Inv, InOrder
<1>5. /\ valid_q[1] => valid_q[0]
      /\ valid_q[2] => valid_q[1]
  BY <1>1 DEF EntriesPacked
<1>6. ~i.branch /\ pop => valid_q[0] \/ iv
  BY AddressStep
<1> HIDE DEF iv, pop
<1>7. /\ valid_q' \in [Entry -> BOOLEAN]
      /\ valid_q'[0] <=> ~i.branch /\ IF pop THEN valid_q[1] \/ (iv /\ ~valid_q[1] /\ valid_q[0])
                                      ELSE valid_q[0] \/ iv
      /\ valid_q'[1] <=> ~i.branch /\ IF pop THEN valid_q[2] \/ (iv /\ ~valid_q[2] /\ valid_q[1])
                                      ELSE valid_q[1] \/ (iv /\ valid_q[0])
      /\ valid_q'[2] <=> ~i.branch /\ ~pop /\ (valid_q[2] \/ (iv /\ valid_q[1]))
  BY <1>1, FifoBits
<1>8. /\ rdata_q' \in [Entry -> Data]
      /\ rdata_q'[0] = IF IF pop THEN valid_q[1] \/ (iv /\ valid_q[0]) ELSE iv /\ ~valid_q[0]
                       THEN IF valid_q[1] THEN rdata_q[1] ELSE i.in ELSE rdata_q[0]
      /\ rdata_q'[1] = IF IF pop THEN valid_q[2] \/ (iv /\ valid_q[1])
                          ELSE iv /\ ~valid_q[1] /\ valid_q[0]
                       THEN IF valid_q[2] THEN rdata_q[2] ELSE i.in ELSE rdata_q[1]
      /\ rdata_q'[2] = IF iv /\ ~valid_q[2] /\ valid_q[1] THEN i.in ELSE rdata_q[2]
  BY <1>1, FifoData
<1>9. valid_q'[0] \in BOOLEAN /\ valid_q'[1] \in BOOLEAN /\ valid_q'[2] \in BOOLEAN
  BY <1>2, <1>7
<1>10. HeldWords = Count(valid_q[0]) + Count(valid_q[1]) + Count(valid_q[2])
  BY DEF HeldWords
<1>11. HeldWords' = Count(valid_q'[0]) + Count(valid_q'[1]) + Count(valid_q'[2])
  BY DEF HeldWords
<1>12. EntriesPacked'
  BY <1>1, <1>2, <1>5, <1>7 DEF EntriesPacked
<1>13. ASSUME i.branch
       PROVE  HeldWords' = 0 /\ \A k \in Entry : ~valid_q'[k]
  BY <1>2, <1>7, <1>9, <1>11, <1>13 DEF Count
<1>14. ASSUME ~i.branch
       PROVE  /\ HeldWords' = HeldWords + Count(iv) - Count(pop)
              /\ \A k \in Entry : valid_q'[k] =>
                    rdata_q'[k] = Fetched(WordAt(k + Count(pop)))
  <2>1. HeldWords' = HeldWords + Count(iv) - Count(pop)
    BY <1>1, <1>2, <1>3, <1>5, <1>6, <1>7, <1>9, <1>10, <1>11, <1>14 DEF Count
  <2>2. /\ valid_q[0] => rdata_q[0] = Fetched(WordAt(0))
        /\ valid_q[1] => rdata_q[1] = Fetched(WordAt(1))
        /\ valid_q[2] => rdata_q[2] = Fetched(WordAt(2))
    BY <1>2, <1>4
  <2>3. /\ iv /\ ~valid_q[0] => i.in = Fetched(WordAt(0))
        /\ iv /\ valid_q[0] /\ ~valid_q[1] => i.in = Fetched(WordAt(1))
        /\ iv /\ valid_q[1] => i.in = Fetched(WordAt(2))
    BY <1>2, <1>3, <1>5, <1>10 DEF Count
  <2>4. CASE pop
    <3>1. Count(pop) = 1
      BY <2>4 DEF Count
    <3>2. valid_q'[0] => rdata_q'[0] = Fetched(WordAt(1))
      BY <1>2, <1>7, <1>8, <1>14, <2>2, <2>3, <2>4
    <3>3. valid_q'[1] => rdata_q'[1] = Fetched(WordAt(2))
      BY <1>2, <1>7, <1>8, <1>14, <2>2, <2>3, <2>4
    <3>4. ~valid_q'[2]
      BY <1>7, <2>4
    <3>5. QED
      BY <1>2, <2>1, <3>1, <3>2, <3>3, <3>4
  <2>5. CASE ~pop
    <3>1. Count(pop) = 0
      BY <2>5 DEF Count
    <3>2. valid_q'[0] => rdata_q'[0] = Fetched(WordAt(0))
      BY <1>2, <1>5, <1>7, <1>8, <1>14, <2>2, <2>3, <2>5
    <3>3. valid_q'[1] => rdata_q'[1] = Fetched(WordAt(1))
      BY <1>2, <1>5, <1>7, <1>8, <1>14, <2>2, <2>3, <2>5
    <3>4. valid_q'[2] => rdata_q'[2] = Fetched(WordAt(2))
      BY <1>2, <1>5, <1>7, <1>8, <1>14, <2>2, <2>3, <2>5
    <3>5. QED
      BY <1>2, <2>1, <3>1, <3>2, <3>3, <3>4
  <2>6. QED
    BY <2>4, <2>5
<1>15. QED
  BY <1>7, <1>8, <1>12, <1>13, <1>14 DEF iv, pop

(* When a request can be new, granted or answered.                         *)
LEMMA RequestBits ==
  ASSUME Inv, NEW i, CycleOf(i)
  PROVE  /\ FreshReq(i) \in BOOLEAN
         /\ FreshReq(i) => ~valid_req_q /\ ~rdata_outstanding_q[1]
         /\ FreshReq(i) /\ ~i.branch =>
              ~valid_q[1] \/ (~valid_q[2] /\ ~rdata_outstanding_q[0])
         /\ i.gnt => ~rdata_outstanding_q[1] /\ (valid_req_q \/ FreshReq(i))
         /\ i.rvalid => rdata_outstanding_q[0]
         /\ DiscardReq(i) <=> valid_req_q /\ (i.branch \/ discard_req_q)
<1>1. TypeOK /\ OutstandingTracked /\ (valid_req_q => ~rdata_outstanding_q[1])
  BY DEF Inv, RoomForAll
<1>2. Req = {0, 1} /\ NUM_REQS = 2 /\ DEPTH = 3
  BY DEF Req, NUM_REQS, DEPTH
<1>3. FifoReady <=> ~(/\ valid_q[1] \/ rdata_outstanding_q[1]
                      /\ valid_q[2] \/ rdata_outstanding_q[0])
  BY <1>2 DEF FifoReady
<1>4. ValidNewReq(i) => ~rdata_outstanding_q[1] /\ (FifoReady \/ i.branch)
  BY <1>2 DEF ValidNewReq
<1>5. i.rvalid => rdata_outstanding_q[0]
  BY <1>1, Bits DEF CycleOf, OutstandingTracked, Inv, TypeOK
<1>6. QED
  BY <1>1, <1>3, <1>4, <1>5, Bits
     DEF FreshReq, CycleOf, ValidReq, DiscardReq

(* The request registers after a cycle, with and without a branch.         *)
LEMMA RequestStep ==
  ASSUME Inv, NEW i, CycleOf(i)
  PROVE  /\ rdata_outstanding_q' \in [Req -> BOOLEAN]
         /\ branch_discard_q' \in [Req -> BOOLEAN]
         /\ valid_req_q' \in BOOLEAN /\ discard_req_q' \in BOOLEAN
         /\ rdata_outstanding_q'[0] <=>
              IF i.rvalid THEN rdata_outstanding_q[1] \/ (i.gnt /\ rdata_outstanding_q[0])
              ELSE rdata_outstanding_q[0] \/ i.gnt
         /\ rdata_outstanding_q'[1] <=>
              ~i.rvalid /\ (rdata_outstanding_q[1] \/ (i.gnt /\ rdata_outstanding_q[0]))
         /\ valid_req_q' <=> (valid_req_q \/ FreshReq(i)) /\ ~i.gnt
         /\ discard_req_q' <=> valid_req_q /\ (i.branch \/ discard_req_q)
         /\ i.branch =>
              /\ branch_discard_q'[0] <=>
                   IF i.rvalid THEN (i.gnt /\ rdata_outstanding_q[0] /\ valid_req_q) \/ rdata_outstanding_q[1]
                   ELSE (i.gnt /\ valid_req_q) \/ rdata_outstanding_q[0]
              /\ branch_discard_q'[1] <=>
                   /\ ~i.rvalid
                   /\ (i.gnt /\ rdata_outstanding_q[0] /\ valid_req_q) \/ rdata_outstanding_q[1]
         /\ ~i.branch =>
              /\ branch_discard_q'[0] <=>
                   IF i.rvalid
                   THEN \/ i.gnt /\ rdata_outstanding_q[0] /\ valid_req_q /\ discard_req_q
                        \/ branch_discard_q[1]
                   ELSE (i.gnt /\ valid_req_q /\ discard_req_q) \/ branch_discard_q[0]
              /\ branch_discard_q'[1] <=>
                   /\ ~i.rvalid
                   /\ \/ i.gnt /\ rdata_outstanding_q[0] /\ valid_req_q /\ discard_req_q
                      \/ branch_discard_q[1]
<1> DEFINE o0 == rdata_outstanding_q[0]
           o1 == rdata_outstanding_q[1]
           d0 == branch_discard_q[0]
           d1 == branch_discard_q[1]
<1>1. /\ TypeOK /\ i.branch \in BOOLEAN /\ i.rvalid \in BOOLEAN /\ i.gnt \in BOOLEAN
      /\ i.req \in BOOLEAN /\ PrefetchCycle(i) /\ (i.gnt => ValidReq(i))
  BY DEF Inv, CycleOf, InputOK, FetchCycle
<1>2. /\ o0 \in BOOLEAN /\ o1 \in BOOLEAN /\ d0 \in BOOLEAN /\ d1 \in BOOLEAN
      /\ valid_req_q \in BOOLEAN /\ discard_req_q \in BOOLEAN
  BY <1>1, Bits
<1>3. (d0 => o0) /\ (d1 => o1)
  BY Bits DEF Inv, OutstandingTracked
<1>4. DiscardReq(i) <=> valid_req_q /\ (i.branch \/ discard_req_q)
  BY DEF DiscardReq
<1>5. /\ rdata_outstanding_q' \in [Req -> BOOLEAN]
      /\ branch_discard_q' \in [Req -> BOOLEAN]
      /\ valid_req_q' \in BOOLEAN /\ discard_req_q' \in BOOLEAN
      /\ valid_req_q' <=> (valid_req_q \/ FreshReq(i)) /\ ~i.gnt
      /\ discard_req_q' <=> valid_req_q /\ (i.branch \/ discard_req_q)
      /\ rdata_outstanding_q'[0] <=> IF i.rvalid THEN o1 \/ (i.gnt /\ o0) ELSE o0 \/ i.gnt
      /\ rdata_outstanding_q'[1] <=> ~i.rvalid /\ (o1 \/ (i.gnt /\ o0))
      /\ branch_discard_q'[0] <=>
           IF i.rvalid THEN (i.gnt /\ o0 /\ DiscardReq(i)) \/ (i.branch /\ o1) \/ d1
           ELSE (i.gnt /\ DiscardReq(i)) \/ (i.branch /\ o0) \/ d0
      /\ branch_discard_q'[1] <=>
           ~i.rvalid /\ ((i.gnt /\ o0 /\ DiscardReq(i)) \/ (i.branch /\ o1) \/ d1)
  BY <1>1, PrefetchBits
<1> HIDE DEF o0, o1, d0, d1
<1>6. ASSUME i.branch
      PROVE  /\ branch_discard_q'[0] <=>
                   IF i.rvalid THEN (i.gnt /\ o0 /\ valid_req_q) \/ o1
                   ELSE (i.gnt /\ valid_req_q) \/ o0
             /\ branch_discard_q'[1] <=>
                   /\ ~i.rvalid
                   /\ (i.gnt /\ o0 /\ valid_req_q) \/ o1
  BY <1>1, <1>2, <1>3, <1>4, <1>5, <1>6
<1>7. ASSUME ~i.branch
      PROVE  /\ branch_discard_q'[0] <=>
                   IF i.rvalid
                   THEN \/ i.gnt /\ o0 /\ valid_req_q /\ discard_req_q
                        \/ d1
                   ELSE (i.gnt /\ valid_req_q /\ discard_req_q) \/ d0
             /\ branch_discard_q'[1] <=>
                   /\ ~i.rvalid
                   /\ \/ i.gnt /\ o0 /\ valid_req_q /\ discard_req_q
                      \/ d1
  BY <1>1, <1>2, <1>3, <1>4, <1>5, <1>7
<1>8. QED
  BY <1>5, <1>6, <1>7 DEF o0, o1, d0, d1

(* The bus loses its oldest word to an answer and gains the granted one.   *)
LEMMA BusStep ==
  ASSUME Inv, NEW i, CycleOf(i)
  PROVE  /\ InstrWord(i) \in Word
         /\ bus' \in Seq(Word)
         /\ Len(bus') = Len(bus) - Count(i.rvalid) + Count(i.gnt)
         /\ \A k \in 1 .. Len(bus) - Count(i.rvalid) : bus'[k] = bus[k + Count(i.rvalid)]
         /\ i.gnt => bus'[Len(bus) - Count(i.rvalid) + 1] = InstrWord(i)
<1> DEFINE rest == IF i.rvalid THEN Tail(bus) ELSE bus
           more == IF i.gnt THEN <<InstrWord(i)>> ELSE <<>>
<1>1. bus \in Seq(Word) /\ (i.rvalid => bus # <<>>) /\ bus' = rest \o more
      /\ i.rvalid \in BOOLEAN /\ i.gnt \in BOOLEAN
  BY DEF Inv, TypeOK, CycleOf, InputOK
<1>2. InstrWord(i) \in Word
  <2>1. InstrAddr(i) \in 0 .. 2 * Words - 1 /\ Words \in Nat \ {0}
    BY FetchFifoAssumption DEF InstrAddr, Inv, TypeOK, CycleOf, InputOK, Half
  <2>2. QED
    BY <2>1, HalfAddr DEF InstrWord, Word
<1>3. /\ rest \in Seq(Word) /\ Len(rest) = Len(bus) - Count(i.rvalid)
      /\ \A k \in 1 .. Len(rest) : rest[k] = bus[k + Count(i.rvalid)]
  BY <1>1 DEF Count
<1>4. /\ more \in Seq(Word) /\ Len(more) = Count(i.gnt)
      /\ i.gnt => more[1] = InstrWord(i)
  BY <1>1, <1>2 DEF Count
<1> HIDE DEF rest, more
<1>5. /\ bus' \in Seq(Word) /\ Len(bus') = Len(rest) + Len(more)
      /\ \A k \in 1 .. Len(rest) : bus'[k] = rest[k]
      /\ \A k \in 1 .. Len(more) : bus'[Len(rest) + k] = more[k]
  <2>0. bus' = rest \o more /\ rest \in Seq(Word) /\ more \in Seq(Word)
    BY <1>1, <1>3, <1>4
  <2>1. bus' \in Seq(Word) /\ Len(bus') = Len(rest) + Len(more)
    BY <2>0
  <2>2. \A k \in 1 .. Len(bus') :
           bus'[k] = IF k <= Len(rest) THEN rest[k] ELSE more[k - Len(rest)]
    BY <2>0
  <2>3. \A k \in 1 .. Len(rest) : bus'[k] = rest[k]
    BY <1>3, <1>4, <2>1, <2>2
  <2>4. ASSUME NEW k \in 1 .. Len(more) PROVE bus'[Len(rest) + k] = more[k]
    <3>1. /\ Len(rest) \in Nat /\ Len(more) \in Nat
          /\ Len(rest) + k \in 1 .. Len(bus') /\ ~(Len(rest) + k <= Len(rest))
          /\ (Len(rest) + k) - Len(rest) = k
      BY <1>3, <1>4, <2>1
    <3>2. bus'[Len(rest) + k] = more[(Len(rest) + k) - Len(rest)]
      BY <2>2, <3>1
    <3>3. QED
      BY <3>1, <3>2
  <2>5. QED
    BY <2>1, <2>3, <2>4
<1>6. i.gnt => bus'[Len(rest) + 1] = InstrWord(i)
  BY <1>4, <1>5 DEF Count
<1>7. QED
  BY <1>2, <1>3, <1>4, <1>5, <1>6

(* The request granted in this cycle is one that a branch has made stale.  *)
StaleGrant(i) == i.gnt /\ valid_req_q /\ (i.branch \/ discard_req_q)

(* The vectors go on describing the bus, and how the number of words       *)
(* coming and asked for changes.                                           *)
LEMMA CountsStep ==
  ASSUME Inv, NEW i, CycleOf(i)
  PROVE  /\ OutstandingTracked'
         /\ Len(bus') <= NUM_REQS
         /\ (valid_req_q => ~rdata_outstanding_q[1])'
         /\ (valid_req_q /\ discard_req_q /\ rdata_outstanding_q[0] => branch_discard_q[0])'
         /\ StaleWords' \in 0 .. 2 /\ StaleWords' <= Len(bus')
         /\ StaleGrant(i) => StaleWords' = Len(bus')
         /\ ~i.branch /\ ~StaleGrant(i) =>
              StaleWords' + Count(i.rvalid) = StaleWords + Count(FifoValid(i))
         /\ i.branch => ComingWords' = Count(i.gnt /\ ~valid_req_q)
         /\ ~i.branch =>
              ComingWords' = ComingWords - Count(FifoValid(i)) + Count(i.gnt /\ ~StaleGrant(i))
         /\ AskedWords' = IF i.branch THEN Count(FreshReq(i) /\ ~i.gnt)
                          ELSE AskedWords + Count(FreshReq(i)) - Count(i.gnt /\ ~StaleGrant(i))
<1> DEFINE o0 == rdata_outstanding_q[0]
           o1 == rdata_outstanding_q[1]
           d0 == branch_discard_q[0]
           d1 == branch_discard_q[1]
           p0 == rdata_outstanding_q'[0]
           p1 == rdata_outstanding_q'[1]
           e0 == branch_discard_q'[0]
           e1 == branch_discard_q'[1]
           fresh == FreshReq(i)
           iv == FifoValid(i)
<1>1. /\ o0 \in BOOLEAN /\ o1 \in BOOLEAN /\ d0 \in BOOLEAN /\ d1 \in BOOLEAN
      /\ valid_req_q \in BOOLEAN /\ discard_req_q \in BOOLEAN
      /\ i.branch \in BOOLEAN /\ i.rvalid \in BOOLEAN /\ i.gnt \in BOOLEAN
      /\ fresh \in BOOLEAN /\ iv \in BOOLEAN /\ (iv <=> i.rvalid /\ ~d0)
  BY Bits, RequestBits DEF Inv, CycleOf, InputOK, FifoValid
<1>2. /\ p0 \in BOOLEAN /\ p1 \in BOOLEAN /\ e0 \in BOOLEAN /\ e1 \in BOOLEAN
      /\ valid_req_q' \in BOOLEAN /\ discard_req_q' \in BOOLEAN
  BY RequestStep, Bits DEF Inv
<1>3. /\ (o1 => o0) /\ (d0 => o0) /\ (d1 => o1) /\ (d1 => d0)
      /\ valid_req_q => ~o1
      /\ valid_req_q /\ discard_req_q /\ o0 => d0
      /\ Len(bus) = Count(o0) + Count(o1)
  BY Bits DEF Inv, OutstandingTracked, RoomForAll, Count
<1>4. /\ fresh => ~valid_req_q /\ ~o1
      /\ i.gnt => ~o1 /\ (valid_req_q \/ fresh)
      /\ i.rvalid => o0
  BY RequestBits
<1>5. /\ p0 <=> IF i.rvalid THEN o1 \/ (i.gnt /\ o0) ELSE o0 \/ i.gnt
      /\ p1 <=> ~i.rvalid /\ (o1 \/ (i.gnt /\ o0))
      /\ valid_req_q' <=> (valid_req_q \/ fresh) /\ ~i.gnt
      /\ discard_req_q' <=> valid_req_q /\ (i.branch \/ discard_req_q)
  BY RequestStep
<1>6. i.branch =>
        /\ e0 <=> IF i.rvalid THEN (i.gnt /\ o0 /\ valid_req_q) \/ o1
                  ELSE (i.gnt /\ valid_req_q) \/ o0
        /\ e1 <=> ~i.rvalid /\ ((i.gnt /\ o0 /\ valid_req_q) \/ o1)
  BY RequestStep
<1>7. ~i.branch =>
        /\ e0 <=> IF i.rvalid THEN (i.gnt /\ o0 /\ valid_req_q /\ discard_req_q) \/ d1
                  ELSE (i.gnt /\ valid_req_q /\ discard_req_q) \/ d0
        /\ e1 <=> ~i.rvalid /\ ((i.gnt /\ o0 /\ valid_req_q /\ discard_req_q) \/ d1)
  BY RequestStep
<1>8. /\ Len(bus') = Len(bus) - Count(i.rvalid) + Count(i.gnt)
      /\ StaleWords = Count(d0) + Count(d1)
      /\ StaleWords' = Count(e0) + Count(e1)
      /\ ComingWords = Len(bus) - StaleWords
      /\ ComingWords' = Len(bus') - StaleWords'
      /\ AskedWords = Count(valid_req_q /\ ~discard_req_q)
      /\ AskedWords' = Count(valid_req_q' /\ ~discard_req_q')
  BY BusStep DEF StaleWords, ComingWords, AskedWords
<1> HIDE DEF o0, o1, d0, d1, p0, p1, e0, e1, fresh, iv
<1>9. Len(bus') = Count(p0) + Count(p1)
  BY <1>1, <1>2, <1>3, <1>4, <1>5, <1>8 DEF Count
<1>10. /\ (p1 => p0) /\ (e0 => p0) /\ (e1 => p1) /\ (e1 => e0)
       /\ valid_req_q' => ~p1
       /\ valid_req_q' /\ discard_req_q' /\ p0 => e0
  <2>1. CASE i.branch
    BY <1>1, <1>3, <1>4, <1>5, <1>6, <2>1
  <2>2. CASE ~i.branch
    BY <1>1, <1>3, <1>4, <1>5, <1>7, <2>2
  <2>3. QED
    BY <2>1, <2>2
<1>11. OutstandingTracked'
  <2>1. Req = {0, 1}
    BY Bits DEF Inv
  <2>2. QED
    BY <1>2, <1>9, <1>10, <2>1 DEF OutstandingTracked, Count, p0, p1, e0, e1
<1>12. /\ (valid_req_q => ~rdata_outstanding_q[1])'
       /\ (valid_req_q /\ discard_req_q /\ rdata_outstanding_q[0] => branch_discard_q[0])'
  BY <1>10 DEF p0, p1, e0, e1
<1>13. StaleWords' \in 0 .. 2 /\ StaleWords' <= Len(bus') /\ Len(bus') <= NUM_REQS
  BY <1>2, <1>8, <1>9, <1>10 DEF Count, NUM_REQS
<1>14. StaleGrant(i) => StaleWords' = Len(bus')
  <2>1. SUFFICES ASSUME StaleGrant(i) PROVE e0 = p0 /\ e1 = p1
    BY <1>8, <1>9
  <2>2. CASE i.branch
    BY <1>1, <1>2, <1>3, <1>4, <1>5, <1>6, <2>1, <2>2 DEF StaleGrant
  <2>3. CASE ~i.branch
    BY <1>1, <1>2, <1>3, <1>4, <1>5, <1>7, <2>1, <2>3 DEF StaleGrant
  <2>4. QED
    BY <2>2, <2>3
<1>15. ~i.branch /\ ~StaleGrant(i) =>
         StaleWords' + Count(i.rvalid) = StaleWords + Count(iv)
  BY <1>1, <1>2, <1>3, <1>4, <1>7, <1>8 DEF StaleGrant, Count
<1>16. i.branch => ComingWords' = Count(i.gnt /\ ~valid_req_q)
  BY <1>1, <1>2, <1>3, <1>4, <1>5, <1>6, <1>8, <1>9 DEF Count
<1>17. ~i.branch =>
         ComingWords' = ComingWords - Count(iv) + Count(i.gnt /\ ~StaleGrant(i))
  <2>1. CASE ~StaleGrant(i)
    BY <1>1, <1>2, <1>3, <1>8, <1>15, <2>1 DEF Count
  <2>2. CASE StaleGrant(i)
    BY <1>1, <1>2, <1>3, <1>4, <1>7, <1>8, <1>14, <2>2 DEF Count, StaleGrant
  <2>3. QED
    BY <2>1, <2>2
<1>18. AskedWords' = IF i.branch THEN Count(fresh /\ ~i.gnt)
                     ELSE AskedWords + Count(fresh) - Count(i.gnt /\ ~StaleGrant(i))
  BY <1>1, <1>2, <1>4, <1>5, <1>8 DEF StaleGrant, Count
<1>19. QED
  BY <1>11, <1>12, <1>13, <1>14, <1>15, <1>16, <1>17, <1>18 DEF fresh, iv

(* Types of the counts.                                                    *)
LEMMA CountTypes ==
  ASSUME Inv
  PROVE  /\ HeldWords \in 0 .. 3 /\ StaleWords \in 0 .. 2 /\ StaleWords <= Len(bus)
         /\ ComingWords \in 0 .. 2 /\ AskedWords \in {0, 1}
         /\ Len(bus) \in Nat /\ ComingWords = Len(bus) - StaleWords
<1>1. /\ HeldWords \in 0 .. 3 /\ StaleWords \in 0 .. 2 /\ AskedWords \in {0, 1}
      /\ Len(bus) \in Nat /\ Len(bus) <= 2
  BY Bits DEF Inv, HeldWords, StaleWords, AskedWords, Count
<1>2. StaleWords <= Len(bus)
  BY Bits DEF Inv, StaleWords, Count, OutstandingTracked
<1>3. QED
  BY <1>1, <1>2 DEF ComingWords

(* The address that waits and the one to be fetched next after a cycle.    *)
LEMMA RequestAddress ==
  ASSUME Inv, NEW i, CycleOf(i)
  PROVE  /\ stored_addr_q' \in Half /\ fetch_addr_q' \in Half
         /\ FreshReq(i) /\ ~i.gnt => stored_addr_q' = InstrAddr(i)
         /\ ~FreshReq(i) \/ i.gnt => stored_addr_q' = stored_addr_q
         /\ fetch_addr_q' \div 2 =
              ((IF i.branch THEN i.addr ELSE fetch_addr_q) \div 2 + Count(FreshReq(i))) % Words
<1>1. /\ Words \in Nat \ {0} /\ i.addr \in 0 .. 2 * Words - 1
      /\ fetch_addr_q \in 0 .. 2 * Words - 1 /\ stored_addr_q \in 0 .. 2 * Words - 1
  BY FetchFifoAssumption DEF Inv, TypeOK, Half, CycleOf, InputOK
<1>2. /\ stored_addr_q' = IF FreshReq(i) /\ ~i.gnt THEN InstrAddr(i) ELSE stored_addr_q
      /\ fetch_addr_q' =
           IF i.branch \/ FreshReq(i)
           THEN ((IF i.branch THEN i.addr ELSE fetch_addr_q - (fetch_addr_q % 2))
                   + (IF FreshReq(i) THEN 2 ELSE 0)) % (2 * Words)
           ELSE fetch_addr_q
  BY DEF CycleOf, FetchCycle, PrefetchCycle
<1>3. InstrAddr(i) \in 0 .. 2 * Words - 1
  BY <1>1 DEF InstrAddr
<1>4. CASE i.branch /\ FreshReq(i)
  <2>1. fetch_addr_q' = (i.addr + 2) % (2 * Words)
    BY <1>1, <1>2, <1>4
  <2>2. (i.addr + 2) % (2 * Words) \in 0 .. 2 * Words - 1
    BY <1>1, HalfAddr
  <2>3. ((i.addr + 2) % (2 * Words)) \div 2 = ((i.addr \div 2) + 1) % Words
    BY <1>1, HalfAddr
  <2>4. QED
    BY <1>1, <1>2, <1>3, <1>4, <2>1, <2>2, <2>3 DEF Half, Count
<1>5. CASE i.branch /\ ~FreshReq(i)
  <2>1. fetch_addr_q' = i.addr
    BY <1>1, <1>2, <1>5
  <2>2. (i.addr \div 2) \in 0 .. Words - 1
    BY <1>1, HalfAddr
  <2>3. ((i.addr \div 2) + 0) % Words = i.addr \div 2
    BY <1>1, <2>2
  <2>4. QED
    BY <1>1, <1>2, <1>3, <1>5, <2>1, <2>3 DEF Half, Count
<1>6. CASE ~i.branch /\ FreshReq(i)
  <2>1. fetch_addr_q' = (fetch_addr_q - (fetch_addr_q % 2) + 2) % (2 * Words)
    BY <1>1, <1>2, <1>6
  <2>2. (fetch_addr_q - (fetch_addr_q % 2) + 2) % (2 * Words)
          = 2 * (((fetch_addr_q \div 2) + 1) % Words)
    BY <1>1, HalfAddr
  <2>3. ((fetch_addr_q \div 2) + 1) % Words \in 0 .. Words - 1
    BY <1>1, HalfAddr, DivMod
  <2>4. /\ fetch_addr_q' \in 0 .. 2 * Words - 1
        /\ fetch_addr_q' \div 2 = ((fetch_addr_q \div 2) + 1) % Words
    BY <1>1, <2>1, <2>2, <2>3
  <2>5. QED
    BY <1>1, <1>2, <1>3, <1>6, <2>4 DEF Half, Count
<1>7. CASE ~i.branch /\ ~FreshReq(i)
  <2>1. fetch_addr_q' = fetch_addr_q
    BY <1>2, <1>7
  <2>2. (fetch_addr_q \div 2) \in 0 .. Words - 1
    BY <1>1, HalfAddr
  <2>3. ((fetch_addr_q \div 2) + 0) % Words = fetch_addr_q \div 2
    BY <1>1, <2>2
  <2>4. QED
    BY <1>1, <1>2, <1>3, <1>7, <2>1, <2>3 DEF Half, Count
<1>8. QED
  BY <1>4, <1>5, <1>6, <1>7

(* An address in the j-th word of the stream is j words from its           *)
(* beginning.                                                              *)
LEMMA WordAtShift ==
  ASSUME TypeOK, NEW j \in Nat, NEW k \in Nat, NEW a, a \div 2 = WordAt(j)
  PROVE  ((a \div 2) + k) % Words = WordAt(j + k)
<1>1. Words \in Nat \ {0} /\ instr_addr_q \div 2 \in Nat
  BY FetchFifoAssumption, HalfAddr DEF TypeOK, Half
<1>2. (instr_addr_q \div 2) + j \in Nat
  BY <1>1
<1>3. ((((instr_addr_q \div 2) + j) % Words) + k) % Words = (((instr_addr_q \div 2) + j) + k) % Words
  BY <1>1, <1>2, ModAdd
<1>4. ((instr_addr_q \div 2) + j) + k = (instr_addr_q \div 2) + (j + k)
  BY <1>1
<1>5. QED
  BY <1>3, <1>4 DEF WordAt

(* A request that waits is shown again, and what is shown ungranted waits. *)
LEMMA ShownStep ==
  ASSUME Inv, NEW i, CycleOf(i)
  PROVE  /\ ShownWaits'
         /\ shown # None /\ ~shown.gnt => shown' # None /\ shown'.word = shown.word
<1>1. /\ shown' = IF ValidReq(i) THEN [word |-> InstrWord(i), gnt |-> i.gnt] ELSE None
      /\ i.gnt \in BOOLEAN
  BY DEF CycleOf, InputOK
<1>2. ValidReq(i) <=> valid_req_q \/ FreshReq(i)
  BY DEF ValidReq, FreshReq
<1>3. ValidReq(i) => /\ shown' # None /\ shown'.word = InstrWord(i)
                     /\ shown'.gnt = i.gnt
  BY <1>1, BusStep, NoneAssumption
<1>4. valid_req_q => InstrWord(i) = stored_addr_q \div 2
  BY DEF InstrWord, InstrAddr
<1>5. ShownWaits'
  <2>1. SUFFICES ASSUME shown' # None, ~shown'.gnt
                 PROVE  valid_req_q' /\ shown'.word = stored_addr_q' \div 2
    BY DEF ShownWaits
  <2>2. ValidReq(i) /\ ~i.gnt
    BY <1>1, <1>3, <2>1
  <2>3. valid_req_q'
    BY <1>2, <2>2, RequestStep
  <2>4. CASE valid_req_q
    <3>1. stored_addr_q' = stored_addr_q
      BY <2>4, RequestBits, RequestAddress
    <3>2. QED
      BY <1>3, <1>4, <2>2, <2>3, <2>4, <3>1
  <2>5. CASE ~valid_req_q
    <3>1. stored_addr_q' = InstrAddr(i)
      BY <1>2, <2>2, <2>5, RequestAddress
    <3>2. QED
      BY <1>3, <2>2, <2>3, <3>1 DEF InstrWord
  <2>6. QED
    BY <2>3, <2>4, <2>5
<1>6. ASSUME shown # None, ~shown.gnt
      PROVE  shown' # None /\ shown'.word = shown.word
  BY <1>2, <1>3, <1>4, <1>6 DEF Inv, ShownWaits
<1>7. QED
  BY <1>5, <1>6

(* Every word on its way keeps an entry: a new request is made only when   *)
(* fifo_ready has one to spare.                                            *)
LEMMA RoomStep ==
  ASSUME Inv, NEW i, CycleOf(i)
  PROVE  /\ RoomForAll'
         /\ ~i.branch => HeldWords' + ComingWords' + AskedWords' + Count(Pop(i))
                           = HeldWords + ComingWords + AskedWords + Count(FreshReq(i))
         /\ i.branch => HeldWords' + ComingWords' + AskedWords' = Count(FreshReq(i))
<1> DEFINE g == i.gnt /\ ~StaleGrant(i)
<1>1. /\ FreshReq(i) \in BOOLEAN /\ FifoValid(i) \in BOOLEAN /\ Pop(i) \in BOOLEAN
      /\ i.gnt \in BOOLEAN /\ i.branch \in BOOLEAN /\ valid_req_q \in BOOLEAN
      /\ g \in BOOLEAN
  BY RequestBits, AnswerInOrder DEF Pop, PopFifo, CycleOf, InputOK, Inv, TypeOK
<1>2. /\ Count(FreshReq(i)) \in {0, 1} /\ Count(FifoValid(i)) \in {0, 1}
      /\ Count(Pop(i)) \in {0, 1} /\ Count(g) \in {0, 1}
  BY <1>1 DEF Count
<1>3. ASSUME ~i.branch
      PROVE  HeldWords' + ComingWords' + AskedWords' + Count(Pop(i))
               = HeldWords + ComingWords + AskedWords + Count(FreshReq(i))
  <2>1. HeldWords' = HeldWords + Count(FifoValid(i)) - Count(Pop(i))
    BY <1>3, EntriesStep
  <2>2. /\ ComingWords' = ComingWords - Count(FifoValid(i)) + Count(g)
        /\ AskedWords' = AskedWords + Count(FreshReq(i)) - Count(g)
    BY <1>3, CountsStep
  <2>3. HeldWords \in Int /\ ComingWords \in Int /\ AskedWords \in Int
    BY CountTypes
  <2> HIDE DEF g
  <2>4. QED
    BY <1>2, <2>1, <2>2, <2>3
<1>4. ASSUME i.branch
      PROVE  HeldWords' + ComingWords' + AskedWords' = Count(FreshReq(i))
  <2>1. /\ HeldWords' = 0 /\ ComingWords' = Count(i.gnt /\ ~valid_req_q)
        /\ AskedWords' = Count(FreshReq(i) /\ ~i.gnt)
    BY <1>4, EntriesStep, CountsStep
  <2>2. /\ i.gnt => valid_req_q \/ FreshReq(i)
        /\ FreshReq(i) => ~valid_req_q
    BY RequestBits
  <2>3. QED
    BY <1>1, <2>1, <2>2 DEF Count
<1>5. ASSUME ~i.branch, FreshReq(i)
      PROVE  HeldWords + ComingWords + AskedWords <= 2
  <2>1. /\ ~valid_req_q /\ ~rdata_outstanding_q[1]
        /\ ~valid_q[1] \/ (~valid_q[2] /\ ~rdata_outstanding_q[0])
    BY <1>5, RequestBits
  <2>2. AskedWords = 0
    BY <2>1 DEF AskedWords, Count
  <2>3. Len(bus) = Count(rdata_outstanding_q[0])
    BY <2>1, Bits DEF Inv, OutstandingTracked, Count
  <2>4. HeldWords + Len(bus) <= 2
    BY <2>1, <2>3, Bits DEF Inv, EntriesPacked, HeldWords, Count
  <2>5. QED
    BY <2>2, <2>4, CountTypes
<1>6. HeldWords' + ComingWords' + AskedWords' <= DEPTH
  <2>1. CASE i.branch
    BY <1>2, <1>4, <2>1 DEF DEPTH
  <2>2. CASE ~i.branch
    <3>1. HeldWords' \in Int /\ ComingWords' \in Int /\ AskedWords' \in Int
      <4>1. HeldWords' \in Int
        BY <1>2, <2>2, EntriesStep, CountTypes
      <4>2. ComingWords' \in Int /\ AskedWords' \in Int
        BY <1>2, <2>2, CountsStep, CountTypes
      <4>3. QED
        BY <4>1, <4>2
    <3> DEFINE total == HeldWords + ComingWords + AskedWords
               new == HeldWords' + ComingWords' + AskedWords'
    <3>2. new \in Int
      BY <3>1
    <3>3. total \in Int
      BY CountTypes
    <3>4. new + Count(Pop(i)) = total + Count(FreshReq(i))
      BY <1>3, <2>2
    <3>5. CASE FreshReq(i)
      <4>1. total <= 2 /\ Count(FreshReq(i)) = 1
        BY <1>5, <2>2, <3>5 DEF Count
      <4>2. QED
        <5> HIDE DEF total, new
        <5>1. new <= 3
          BY <1>2, <3>2, <3>3, <3>4, <4>1
        <5>2. QED
          BY <5>1 DEF new, DEPTH
    <3>6. CASE ~FreshReq(i)
      <4>1. total <= 3 /\ Count(FreshReq(i)) = 0
        BY <3>6 DEF Count, Inv, RoomForAll, DEPTH
      <4>2. QED
        <5> HIDE DEF total, new
        <5>1. new <= 3
          BY <1>2, <3>2, <3>3, <3>4, <4>1
        <5>2. QED
          BY <5>1 DEF new, DEPTH
    <3>7. QED
      BY <3>5, <3>6
  <2>3. QED
    BY <2>1, <2>2
<1>7. RoomForAll'
  BY <1>6, CountsStep DEF RoomForAll
<1>8. QED
  BY <1>3, <1>4, <1>7

(* Without a branch, what is held, coming, asked for and next stays the    *)
(* stream.                                                                 *)
LEMMA OrderStepNoBranch ==
  ASSUME Inv, NEW i, CycleOf(i), ~i.branch
  PROVE  InOrder'
<1> DEFINE c == Count(Pop(i))
           iv == Count(FifoValid(i))
           r == Count(i.rvalid)
           fresh == Count(FreshReq(i))
           total == HeldWords + ComingWords + AskedWords
           W(k) == ((instr_addr_q' \div 2) + k) % Words
<1>1. /\ c \in {0, 1} /\ iv \in {0, 1} /\ r \in {0, 1} /\ fresh \in {0, 1}
      /\ i.gnt \in BOOLEAN /\ i.rvalid \in BOOLEAN
  BY RequestBits, AnswerInOrder, AddressStep DEF Count, CycleOf, InputOK
<1>2. /\ HeldWords \in 0 .. 3 /\ StaleWords \in 0 .. 2 /\ StaleWords <= Len(bus)
      /\ ComingWords \in 0 .. 2 /\ AskedWords \in {0, 1}
      /\ Len(bus) \in Nat /\ ComingWords = Len(bus) - StaleWords
  BY CountTypes
<1>3. ASSUME NEW k \in Nat PROVE W(k) = WordAt(c + k)
  <2>1. instr_addr_q' \div 2 = WordAt(c)
    BY AddressStep
  <2>2. ((instr_addr_q' \div 2) + k) % Words = WordAt(c + k)
    BY <1>1, <2>1, WordAtShift DEF Inv
  <2>3. QED
    BY <2>2
<1>4. /\ fetch_addr_q \div 2 = WordAt(total) /\ total \in Nat
      /\ valid_req_q /\ ~discard_req_q => stored_addr_q \div 2 = WordAt(HeldWords + ComingWords)
  BY <1>2 DEF Inv, InOrder
<1>5. i.gnt \/ FreshReq(i) =>
        StaleGrant(i) \/ InstrWord(i) = WordAt(HeldWords + ComingWords)
  <2>1. CASE valid_req_q
    BY <1>4, <2>1, RequestBits DEF InstrWord, InstrAddr, StaleGrant
  <2>2. CASE ~valid_req_q
    <3>1. AskedWords = 0
      BY <2>2 DEF AskedWords, Count
    <3>2. QED
      BY <1>2, <1>4, <2>2, <3>1 DEF InstrWord, InstrAddr
  <2>3. QED
    BY <2>1, <2>2
<1>0. PICK h, s, n, a : h = HeldWords' /\ s = StaleWords' /\ n = ComingWords' /\ a = AskedWords'
  OBVIOUS
<1>6. h = HeldWords + iv - c
  BY <1>0, EntriesStep
<1>7. /\ s \in 0 .. 2 /\ s <= Len(bus')
      /\ StaleGrant(i) => s = Len(bus')
      /\ ~StaleGrant(i) => s + r = StaleWords + iv
      /\ n = ComingWords - iv + Count(i.gnt /\ ~StaleGrant(i))
      /\ a = AskedWords + fresh - Count(i.gnt /\ ~StaleGrant(i))
  BY <1>0, CountsStep
<1>8. /\ Len(bus') = Len(bus) - r + Count(i.gnt)
      /\ \A k \in 1 .. Len(bus) - r : bus'[k] = bus[k + r]
      /\ i.gnt => bus'[Len(bus) - r + 1] = InstrWord(i)
  BY BusStep
<1>9. h \in Nat
  BY <1>0, EntriesStep, Bits DEF HeldWords, Count, Inv
<1>10. pc' = instr_addr_q'
  BY AddressStep
<1>11. \A k \in Entry : valid_q'[k] => rdata_q'[k] = Fetched(W(k))
  <2>1. SUFFICES ASSUME NEW k \in Entry, valid_q'[k] PROVE rdata_q'[k] = Fetched(W(k))
    OBVIOUS
  <2>2. k \in Nat
    BY DEF Entry
  <2>3. rdata_q'[k] = Fetched(WordAt(k + c))
    BY <2>1, EntriesStep
  <2>4. k + c = c + k
    BY <1>1, <2>2
  <2>5. QED
    BY <1>3, <2>2, <2>3, <2>4
<1>12. ASSUME NEW k \in 1 .. NUM_REQS, k > s, k <= Len(bus')
       PROVE  bus'[k] = W(h + k - s - 1)
  <2> HIDE DEF c, iv, r, fresh, total, W
  <2>0. k \in Nat /\ Len(bus') \in Nat
    BY <1>12, BusStep DEF NUM_REQS
  <2>1. ~StaleGrant(i) /\ s + r = StaleWords + iv /\ k \in Nat
    BY <1>7, <1>12, <2>0
  <2>2. h + k - s - 1 \in Nat
    BY <1>7, <1>9, <1>12, <2>0
  <2>3. W(h + k - s - 1) = WordAt(c + (h + k - s - 1))
    BY <1>3, <2>2
  <2>4. CASE k <= Len(bus) - r
    <3>1. bus'[k] = bus[k + r]
      BY <1>1, <1>2, <1>8, <2>1, <1>12, <2>4
    <3>2. k + r \in 1 .. NUM_REQS /\ k + r > StaleWords /\ k + r <= Len(bus)
      BY <1>1, <1>2, <1>7, <1>12, <2>1, <2>4, Bits DEF Inv, NUM_REQS
    <3>3. bus[k + r] = WordAt(HeldWords + (k + r) - StaleWords - 1)
      BY <3>2 DEF Inv, InOrder
    <3>4. HeldWords + (k + r) - StaleWords - 1 = c + (h + k - s - 1)
      BY <1>1, <1>2, <1>6, <1>7, <2>1
    <3>5. QED
      BY <2>3, <3>1, <3>3, <3>4
  <2>5. CASE ~(k <= Len(bus) - r)
    <3>1. i.gnt /\ k = Len(bus) - r + 1
      BY <1>1, <1>2, <1>8, <1>12, <2>1, <2>5 DEF Count
    <3>2. bus'[k] = WordAt(HeldWords + ComingWords)
      BY <1>5, <1>8, <2>1, <3>1
    <3>3. HeldWords + ComingWords = c + (h + k - s - 1)
      BY <1>1, <1>2, <1>6, <1>7, <2>1, <3>1
    <3>4. QED
      BY <2>3, <3>2, <3>3
  <2>6. QED
    BY <2>4, <2>5
<1>13. ASSUME valid_req_q', ~discard_req_q'
       PROVE  stored_addr_q' \div 2 = W(h + n)
  <2>1. /\ ~i.gnt /\ ~StaleGrant(i) /\ (valid_req_q \/ FreshReq(i))
        /\ ~(valid_req_q /\ discard_req_q)
    BY <1>13, RequestStep DEF StaleGrant
  <2>2. stored_addr_q' \div 2 = WordAt(HeldWords + ComingWords)
    <3>1. CASE valid_req_q
      BY <1>4, <2>1, <3>1, RequestBits, RequestAddress
    <3>2. CASE ~valid_req_q
      BY <1>5, <2>1, <3>2, RequestAddress DEF InstrWord
    <3>3. QED
      BY <3>1, <3>2
  <2>3. n = ComingWords - iv
    BY <1>1, <1>2, <1>7, <2>1 DEF Count
  <2> HIDE DEF c, iv, W
  <2>4. h + n + c = HeldWords + ComingWords
    BY <1>1, <1>2, <1>6, <2>3
  <2>5. n \in Nat
    BY <1>0, <1>7, BusStep DEF ComingWords
  <2>6. h + n \in Nat
        /\ c + (h + n) = HeldWords + ComingWords
    BY <1>1, <1>9, <2>4, <2>5
  <2>7. QED
    BY <1>3, <2>2, <2>6
<1>14. fetch_addr_q' \div 2 = W(h + n + a)
  <2> DEFINE new == h + n + a
  <2>1. fetch_addr_q' \div 2 = ((fetch_addr_q \div 2) + fresh) % Words
    BY RequestAddress
  <2>2. fetch_addr_q' \div 2 = WordAt(total + fresh)
    BY <1>1, <1>4, <2>1, WordAtShift DEF Inv
  <2>3. new + c = total + fresh
    BY <1>0, RoomStep
  <2>4. n \in Nat /\ a \in Nat
    BY <1>0, <1>7, BusStep DEF ComingWords, AskedWords, Count
  <2>5. new \in Nat
    BY <1>9, <2>4
  <2> HIDE DEF c, fresh, total, new, W
  <2>6. c + new = total + fresh
    BY <1>1, <2>3, <2>5
  <2>7. W(new) = WordAt(c + new)
    BY <1>3, <2>5
  <2>8. fetch_addr_q' \div 2 = W(new)
    BY <2>2, <2>6, <2>7
  <2>9. QED
    BY <2>8 DEF new
<1>15. QED
  BY <1>0, <1>10, <1>11, <1>12, <1>13, <1>14 DEF InOrder, WordAt, Fetched

(* A branch begins a new stream, of which nothing is held.                 *)
LEMMA OrderStepBranch ==
  ASSUME Inv, NEW i, CycleOf(i), i.branch
  PROVE  InOrder' /\ instr_addr_q' \in Half
<1> DEFINE fresh == Count(FreshReq(i))
           W(k) == ((instr_addr_q' \div 2) + k) % Words
<1>1. /\ fresh \in {0, 1} /\ FreshReq(i) \in BOOLEAN
      /\ i.gnt \in BOOLEAN /\ i.rvalid \in BOOLEAN /\ valid_req_q \in BOOLEAN
      /\ FreshReq(i) => ~valid_req_q
      /\ i.gnt => valid_req_q \/ FreshReq(i)
  BY RequestBits DEF Count, CycleOf, InputOK, Inv, TypeOK
<1>2. instr_addr_q' = i.addr /\ pc' = i.addr /\ i.addr \in Half
  BY DEF CycleOf, InputOK, FetchCycle, PrefetchCycle, FifoCycle
<1>3. /\ Words \in Nat \ {0} /\ i.addr \div 2 \in 0 .. Words - 1
  BY <1>2, FetchFifoAssumption, HalfAddr DEF Half
<1>4. W(0) = i.addr \div 2
  BY <1>2, <1>3
<1>0. PICK h, s, n, a : h = HeldWords' /\ s = StaleWords' /\ n = ComingWords' /\ a = AskedWords'
  OBVIOUS
<1>5. h = 0 /\ \A k \in Entry : ~valid_q'[k]
  BY <1>0, EntriesStep
<1>6. /\ s \in 0 .. 2 /\ s <= Len(bus')
      /\ n = Count(i.gnt /\ ~valid_req_q)
      /\ a = Count(FreshReq(i) /\ ~i.gnt)
  BY <1>0, CountsStep
<1>7. /\ n = Len(bus') - s /\ h + n + a = fresh
      /\ Len(bus') \in Nat /\ Len(bus) \in Nat
  BY <1>0, RoomStep, BusStep, CountTypes DEF ComingWords
<1>8. /\ Len(bus') = Len(bus) - Count(i.rvalid) + Count(i.gnt)
      /\ i.gnt => bus'[Len(bus) - Count(i.rvalid) + 1] = InstrWord(i)
  BY BusStep
<1>9. ~valid_req_q => InstrAddr(i) = i.addr
  BY DEF InstrAddr
<1>10. ASSUME NEW k \in 1 .. NUM_REQS, k > s, k <= Len(bus')
       PROVE  bus'[k] = W(h + k - s - 1)
  <2>0. k \in Nat
    OBVIOUS
  <2>1. n >= 1
    BY <1>6, <1>7, <1>10, <2>0
  <2>2. i.gnt /\ ~valid_req_q /\ n = 1
    BY <1>6, <2>1 DEF Count
  <2>3. k = Len(bus') /\ s = Len(bus') - 1
    BY <1>6, <1>7, <1>10, <2>0, <2>2
  <2>4. k = Len(bus) - Count(i.rvalid) + 1
    BY <1>1, <1>7, <1>8, <2>2, <2>3 DEF Count
  <2>5. bus'[k] = i.addr \div 2
    BY <1>8, <1>9, <2>2, <2>4 DEF InstrWord
  <2>6. h + k - s - 1 = 0
    BY <1>5, <1>7, <2>0, <2>3
  <2> HIDE DEF W
  <2>7. QED
    BY <1>4, <2>5, <2>6
<1>11. ASSUME valid_req_q', ~discard_req_q'
       PROVE  stored_addr_q' \div 2 = W(h + n)
  <2>1. ~valid_req_q /\ FreshReq(i) /\ ~i.gnt
    BY <1>1, <1>11, RequestStep
  <2>2. h + n = 0
    BY <1>5, <1>6, <2>1 DEF Count
  <2>3. stored_addr_q' = i.addr
    BY <1>9, <2>1, RequestAddress
  <2> HIDE DEF W
  <2>4. QED
    BY <1>4, <2>2, <2>3
<1>12. fetch_addr_q' \div 2 = W(h + n + a)
  <2>1. fetch_addr_q' \div 2 = ((i.addr \div 2) + fresh) % Words
    BY RequestAddress
  <2>2. QED
    BY <1>2, <1>7, <2>1
<1>13. QED
  BY <1>0, <1>2, <1>5, <1>10, <1>11, <1>12 DEF InOrder, WordAt

(* Inv holds initially.                                                    *)
LEMMA InvInit ==
  ASSUME Init
  PROVE  Inv
<1>1. PICK a \in Half : PrefetchInit(a)
  BY DEF Init, FetchInit
<1>2. /\ Words \in Nat \ {0} /\ a \in 0 .. 2 * Words - 1 /\ Entry = {0, 1, 2} /\ Req = {0, 1}
  BY FetchFifoAssumption DEF Half, Entry, DEPTH, Req, NUM_REQS
<1>3. a \div 2 \in Word
  BY <1>2, HalfAddr DEF Word
<1>4. /\ valid_q \in [Entry -> BOOLEAN] /\ \A k \in Entry : ~valid_q[k]
      /\ rdata_outstanding_q \in [Req -> BOOLEAN] /\ \A k \in Req : ~rdata_outstanding_q[k]
      /\ branch_discard_q \in [Req -> BOOLEAN] /\ \A k \in Req : ~branch_discard_q[k]
  BY <1>1 DEF PrefetchInit
<1>5. rdata_q \in [Entry -> Data]
  BY <1>1, <1>3 DEF PrefetchInit, Data
<1>6. bus = <<>> /\ shown = None /\ booted = FALSE /\ pc = instr_addr_q
  BY DEF Init, FetchInit
<1>7. /\ instr_addr_q = a /\ stored_addr_q = a /\ fetch_addr_q = a
      /\ valid_req_q = FALSE /\ discard_req_q = FALSE
  BY <1>1 DEF PrefetchInit
<1>8. TypeOK
  <2>1. bus \in Seq(Word) /\ Len(bus) <= NUM_REQS
    BY <1>6 DEF NUM_REQS
  <2>2. /\ instr_addr_q \in Half /\ stored_addr_q \in Half /\ fetch_addr_q \in Half
        /\ valid_req_q \in BOOLEAN /\ discard_req_q \in BOOLEAN
        /\ booted \in BOOLEAN /\ pc \in Half
    BY <1>1, <1>6, <1>7
  <2>3. QED
    BY <1>4, <1>5, <2>1, <2>2 DEF TypeOK
<1>9. HeldWords = 0 /\ StaleWords = 0 /\ ComingWords = 0 /\ AskedWords = 0
  BY <1>2, <1>4, <1>6, <1>7 DEF HeldWords, StaleWords, ComingWords, AskedWords, Count
<1>10. OutstandingTracked /\ EntriesPacked /\ RoomForAll
  BY <1>2, <1>4, <1>6, <1>7, <1>9 DEF OutstandingTracked, EntriesPacked, RoomForAll, DEPTH
<1>11. WordAt(0) = a \div 2
  BY <1>7, <1>8, WordAtType
<1>12. InOrder
  <2>1. ASSUME NEW k \in 1 .. NUM_REQS PROVE ~(k <= Len(bus))
    BY <1>6
  <2>2. QED
    BY <1>4, <1>6, <1>7, <1>9, <1>11, <2>1 DEF InOrder
<1>13. QED
  BY <1>6, <1>8, <1>10, <1>12 DEF Inv, ShownWaits

(* Every cycle preserves Inv.                                              *)
LEMMA InvStep ==
  ASSUME Inv, [Next]_vars
  PROVE  Inv'
<1>1. CASE Next
  <2>1. PICK i : CycleOf(i)
    BY <1>1, NextIsCycle
  <2>2. OutstandingTracked' /\ Len(bus') <= NUM_REQS
    BY <2>1, CountsStep
  <2>3. EntriesPacked' /\ RoomForAll' /\ ShownWaits'
    BY <2>1, EntriesStep, RoomStep, ShownStep
  <2>4. InOrder' /\ instr_addr_q' \in Half
    <3>1. CASE i.branch
      BY <2>1, <3>1, OrderStepBranch
    <3>2. CASE ~i.branch
      BY <2>1, <3>2, OrderStepNoBranch, AddressStep
    <3>3. QED
      BY <3>1, <3>2
  <2>5. /\ valid_q' \in [Entry -> BOOLEAN] /\ rdata_q' \in [Entry -> Data]
        /\ rdata_outstanding_q' \in [Req -> BOOLEAN]
        /\ branch_discard_q' \in [Req -> BOOLEAN]
        /\ valid_req_q' \in BOOLEAN /\ discard_req_q' \in BOOLEAN
        /\ stored_addr_q' \in Half /\ fetch_addr_q' \in Half /\ bus' \in Seq(Word)
    BY <2>1, EntriesStep, RequestStep, RequestAddress, BusStep
  <2>6. booted' \in BOOLEAN /\ pc' \in Half
    BY <2>1, <2>4 DEF CycleOf, FetchCycle, InOrder
  <2>7. TypeOK'
    BY <2>2, <2>4, <2>5, <2>6 DEF TypeOK
  <2>8. QED
    BY <2>2, <2>3, <2>4, <2>7 DEF Inv
<1>2. CASE UNCHANGED vars
  BY <1>2 DEF vars, fetchVars, pfVars, fifoVars, Inv, TypeOK, OutstandingTracked, EntriesPacked,
     RoomForAll, InOrder, ShownWaits, HeldWords, StaleWords, ComingWords, AskedWords, WordAt
<1>3. QED
  BY <1>1, <1>2

(* Inv is an invariant of the fetch side.                                  *)
THEOREM SpecInv == Spec => []Inv
  BY InvInit, InvStep, PTL DEF Spec

(* The outstanding and discard vectors of the prefetch buffer always       *)
(* describe the words on the bus, never more than NUM_REQS of them.        *)
THEOREM SpecFetchConsistent == Spec => []FetchConsistent
<1>1. Inv => FetchConsistent
  BY DEF Inv, FetchConsistent
<1>2. QED
  BY <1>1, SpecInv, PTL

(* A request that is not granted is shown again with the same address in   *)
(* the next cycle, also when a branch comes in between.                    *)
THEOREM SpecRequestStable == Spec => RequestStable
<1>1. Inv /\ [Next]_vars =>
        [shown # None /\ ~shown.gnt => shown' # None /\ shown'.word = shown.word]_vars
  BY NextIsCycle, ShownStep
<1>2. QED
  BY <1>1, SpecInv, PTL DEF Spec, RequestStable

(* Assertions IbexFetchFifoPushFull and IbexFetchFifoPushPopFull: an       *)
(* answer that is not stale always finds a free entry.                     *)
THEOREM SpecFifoNeverOverflows == Spec => []FifoNeverOverflows
<1>1. Inv => FifoNeverOverflows
  <2>1. SUFFICES ASSUME Inv, bus # <<>>, ~branch_discard_q[0] PROVE ~valid_q[2]
    BY DEF FifoNeverOverflows, DEPTH
  <2>2. Len(bus) >= 1 /\ ~branch_discard_q[1]
    BY <2>1 DEF Inv, TypeOK, OutstandingTracked
  <2>3. ComingWords >= 1
    BY <2>1, <2>2, CountTypes DEF StaleWords, Count
  <2>4. HeldWords <= 2
    BY <2>1, <2>3, CountTypes DEF Inv, RoomForAll, DEPTH
  <2>5. QED
    BY <2>1, <2>4, Bits DEF Inv, EntriesPacked, HeldWords, Count
<1>2. QED
  BY <1>1, SpecInv, PTL

(* s holds the words from the j-th one of the stream on.                   *)
Follows(s, j) == s \in Seq(Word) /\ \A k \in 1 .. Len(s) : s[k] = WordAt(j + k - 1)

(* Two pieces of the stream, one after the other, are one piece.           *)
LEMMA FollowsConcat ==
  ASSUME NEW s, NEW t, Follows(s, 0), Follows(t, Len(s))
  PROVE  Follows(s \o t, 0) /\ Len(s \o t) = Len(s) + Len(t)
<1>1. /\ s \in Seq(Word) /\ t \in Seq(Word)
      /\ \A k \in 1 .. Len(s) : s[k] = WordAt(0 + k - 1)
      /\ \A k \in 1 .. Len(t) : t[k] = WordAt(Len(s) + k - 1)
  BY DEF Follows
<1>2. /\ s \o t \in Seq(Word) /\ Len(s \o t) = Len(s) + Len(t)
      /\ Len(s) \in Nat /\ Len(t) \in Nat
  BY <1>1
<1>3. \A k \in 1 .. Len(s) + Len(t) :
        (s \o t)[k] = IF k <= Len(s) THEN s[k] ELSE t[k - Len(s)]
  BY <1>1
<1>4. ASSUME NEW k \in 1 .. Len(s \o t) PROVE (s \o t)[k] = WordAt(0 + k - 1)
  <2>1. CASE k <= Len(s)
    BY <1>1, <1>2, <1>3, <2>1
  <2>2. CASE ~(k <= Len(s))
    <3>1. k - Len(s) \in 1 .. Len(t) /\ Len(s) + (k - Len(s)) - 1 = 0 + k - 1
      BY <1>2, <2>2
    <3>2. (s \o t)[k] = t[k - Len(s)]
      BY <1>2, <1>3, <2>2
    <3>3. QED
      BY <1>1, <3>1, <3>2
  <2>3. QED
    BY <2>1, <2>2
<1>5. QED
  BY <1>2, <1>4 DEF Follows

(* The words held, coming, asked for and fetched next are the words of the *)
(* program from the next instruction on, without gap or repetition.        *)
THEOREM SpecStreamContiguous == Spec => []StreamContiguous
<1>1. Inv => StreamContiguous
  <2> SUFFICES ASSUME Inv PROVE StreamContiguous
    OBVIOUS
  <2>1. /\ HeldWords \in 0 .. 3 /\ StaleWords \in 0 .. 2 /\ StaleWords <= Len(bus)
        /\ ComingWords \in 0 .. 2 /\ AskedWords \in {0, 1}
        /\ Len(bus) \in Nat /\ ComingWords = Len(bus) - StaleWords
    BY CountTypes
  <2>2. TypeOK /\ EntriesPacked /\ Entry = {0, 1, 2} /\ bus \in Seq(Word) /\ Len(bus) <= 2
    BY Bits DEF Inv, TypeOK
  <2>3. \A k \in Nat : WordAt(k) \in Word
    BY <2>2, WordAtType
  <2>4. Follows(Held, 0) /\ Len(Held) = HeldWords
    <3> DEFINE full(m) == \A e \in Entry : valid_q[e] <=> e < m
               n == CHOOSE m \in 0 .. DEPTH : full(m)
    <3>1. HeldWords \in 0 .. DEPTH /\ full(HeldWords)
      BY <2>1, <2>2, Bits DEF HeldWords, Count, EntriesPacked, DEPTH
    <3>2. n \in 0 .. 3 /\ full(n)
      BY <3>1 DEF DEPTH
    <3>3. n = HeldWords
      BY <2>1, <2>2, <3>1, <3>2
    <3> HIDE DEF n
    <3>4. Held = [k \in 1 .. n |-> rdata_q[k - 1].word]
      BY DEF Held, n
    <3>5. ASSUME NEW k \in 1 .. n
          PROVE  rdata_q[k - 1].word = WordAt(0 + k - 1) /\ WordAt(0 + k - 1) \in Word
      <4>1. k - 1 \in Entry /\ valid_q[k - 1] /\ 0 + k - 1 = k - 1 /\ k - 1 \in Nat
        BY <2>2, <3>2
      <4>2. rdata_q[k - 1] = Fetched(WordAt(k - 1))
        BY <4>1 DEF Inv, InOrder
      <4>3. QED
        BY <2>3, <4>1, <4>2, FetchedFields
    <3>6. Held \in Seq(Word) /\ Len(Held) = n
      <4>1. \A k \in 1 .. n : rdata_q[k - 1].word \in Word
        BY <3>5
      <4>2. QED
        BY <3>2, <3>4, <4>1
    <3>7. \A k \in 1 .. Len(Held) : Held[k] = WordAt(0 + k - 1)
      BY <3>4, <3>5, <3>6
    <3>8. QED
      BY <3>3, <3>6, <3>7 DEF Follows
  <2>5. Follows(Coming, HeldWords) /\ Len(Coming) = ComingWords
    <3>1. Coming = SubSeq(bus, StaleWords + 1, Len(bus))
      BY Bits DEF Coming, StaleWords, Count, Inv, OutstandingTracked
    <3>2. Coming \in Seq(Word) /\ Len(Coming) = ComingWords
      BY <2>1, <2>2, <3>1
    <3>3. ASSUME NEW k \in 1 .. Len(Coming) PROVE Coming[k] = WordAt(HeldWords + k - 1)
      <4>1. Coming[k] = bus[StaleWords + k]
        BY <2>1, <2>2, <3>1, <3>2
      <4>2. /\ StaleWords + k \in 1 .. NUM_REQS /\ StaleWords + k > StaleWords
            /\ StaleWords + k <= Len(bus)
        BY <2>1, <2>2, <3>2 DEF NUM_REQS
      <4>3. bus[StaleWords + k] = WordAt(HeldWords + (StaleWords + k) - StaleWords - 1)
        BY <4>2 DEF Inv, InOrder
      <4>4. HeldWords + (StaleWords + k) - StaleWords - 1 = HeldWords + k - 1
        BY <2>1
      <4>5. QED
        BY <4>1, <4>3, <4>4
    <3>4. QED
      BY <3>2, <3>3 DEF Follows
  <2>6. Follows(Asked, HeldWords + ComingWords) /\ Len(Asked) = AskedWords
    <3>1. CASE valid_req_q /\ ~discard_req_q
      <4>1. stored_addr_q \div 2 = WordAt(HeldWords + ComingWords) /\ Asked = <<stored_addr_q \div 2>>
        BY <3>1 DEF Inv, InOrder, Asked
      <4>2. WordAt(HeldWords + ComingWords) \in Word /\ AskedWords = 1
            /\ HeldWords + ComingWords + 1 - 1 = HeldWords + ComingWords
        BY <2>1, <2>3, <3>1 DEF AskedWords, Count
      <4>3. Asked \in Seq(Word) /\ Len(Asked) = 1 /\ Asked[1] = WordAt(HeldWords + ComingWords + 1 - 1)
        BY <4>1, <4>2
      <4>4. QED
        BY <4>2, <4>3 DEF Follows
    <3>2. CASE ~(valid_req_q /\ ~discard_req_q)
      BY <3>2 DEF Asked, AskedWords, Count, Follows
    <3>3. QED
      BY <3>1, <3>2
  <2>7. Follows(<<fetch_addr_q \div 2>>, HeldWords + ComingWords + AskedWords)
    <3> DEFINE total == HeldWords + ComingWords + AskedWords
    <3>1. fetch_addr_q \div 2 = WordAt(total) /\ WordAt(total) \in Word /\ total + 1 - 1 = total
      BY <2>1, <2>3 DEF Inv, InOrder
    <3> HIDE DEF total
    <3>2. /\ <<fetch_addr_q \div 2>> \in Seq(Word) /\ Len(<<fetch_addr_q \div 2>>) = 1
          /\ <<fetch_addr_q \div 2>>[1] = WordAt(total + 1 - 1)
      BY <3>1
    <3>3. QED
      BY <3>2 DEF Follows, total
  <2>8. Follows(Held \o Coming, 0) /\ Len(Held \o Coming) = HeldWords + ComingWords
    BY <2>4, <2>5, FollowsConcat
  <2>9. /\ Follows(Held \o Coming \o Asked, 0)
        /\ Len(Held \o Coming \o Asked) = HeldWords + ComingWords + AskedWords
    BY <2>6, <2>8, FollowsConcat
  <2>10. Follows(Stream, 0)
    BY <2>7, <2>9, FollowsConcat DEF Stream
  <2>11. \A k \in DOMAIN Stream : Stream[k] = WordAt(0 + k - 1)
    BY <2>10 DEF Follows
  <2>12. ASSUME NEW k \in DOMAIN Stream
         PROVE  WordAt(0 + k - 1) = ((instr_addr_q \div 2) + k - 1) % Words
    <3>1. k \in Nat /\ instr_addr_q \div 2 \in Nat
      <4>1. k \in Nat
        BY <2>10 DEF Follows
      <4>2. WordAt(0) \in Word /\ WordAt(0) = instr_addr_q \div 2
        BY <2>2, WordAtType
      <4>3. QED
        BY <4>1, <4>2 DEF Word
    <3>2. (instr_addr_q \div 2) + (0 + k - 1) = (instr_addr_q \div 2) + k - 1
      BY <3>1
    <3>3. QED
      BY <3>2 DEF WordAt
  <2>13. QED
    BY <2>11, <2>12 DEF StreamContiguous
<1>2. QED
  BY <1>1, SpecInv, PTL

(* An instruction the FIFO offers is the one at the next address: its half *)
(* words, its error and which half the error is in.                        *)
LEMMA TakenCorrect ==
  ASSUME Inv, NEW i, CycleOf(i), OutValid(FifoValid(i), i.in),
         NEW o, o = Out(i.in), NEW h, h = instr_addr_q
  PROVE  /\ o.addr = h
         /\ o.err <=> FirstFaulty(h) \/ SecondFaulty(h)
         /\ ~o.err => o.low = h /\ (IsLong(h) => o.high = Next2(h))
         /\ o.err => (o.plus2 <=> h \div 2 # Next2(h) \div 2 /\ SecondFaulty(h))
<1> DEFINE w0 == WordAt(0)
           w1 == WordAt(1)
           iv == FifoValid(i)
<1>1. /\ Words \in Nat \ {0} /\ h \in 0 .. 2 * Words - 1 /\ TypeOK /\ iv \in BOOLEAN
      /\ valid_q[0] \in BOOLEAN /\ valid_q[1] \in BOOLEAN /\ (valid_q[1] => valid_q[0])
  BY Bits, AnswerInOrder, FetchFifoAssumption DEF Inv, TypeOK, Half, EntriesPacked
<1>2. /\ w0 = h \div 2 /\ w1 = ((h \div 2) + 1) % Words /\ w0 \in Nat /\ w1 \in Nat
      /\ h = 2 * w0 + (h % 2) /\ h % 2 \in {0, 1}
  BY <1>1, WordAtType DEF WordAt, Word
<1>3. /\ valid_q[0] \/ iv
      /\ Rdata(i.in) = Fetched(w0)
      /\ Unaligned => (UnalignedIsCompressed(i.in) <=> ~IsLong(h))
      /\ Unaligned /\ IsLong(h) =>
              /\ valid_q[1] \/ (valid_q[0] /\ iv)
              /\ Upper(i.in) = Fetched(w1)
  BY HeadOfStream
<1>4. Rdata(i.in).word = w0 /\ Rdata(i.in).err = (w0 \in Faulty)
  BY <1>3, FetchedFields
<1>5. FirstFaulty(h) <=> w0 \in Faulty
  BY <1>2 DEF FirstFaulty
<1>6. /\ o.addr = h
      /\ o.low = 2 * w0 + (IF Unaligned THEN 1 ELSE 0)
      /\ o.high = IF Unaligned THEN 2 * Upper(i.in).word ELSE 2 * w0 + 1
      /\ o.err = IF Unaligned THEN ErrUnaligned(i.in) ELSE w0 \in Faulty
      /\ o.plus2 = (Unaligned /\ ErrPlus2(i.in))
  BY <1>4 DEF Out
<1>7. CASE Unaligned
  <2>1. h = 2 * w0 + 1 /\ h % 2 = 1
    BY <1>2, <1>7 DEF Unaligned
  <2>2. Next2(h) = 2 * w1
    BY <1>1, <1>2, <2>1, HalfAddr DEF Next2
  <2>3. Next2(h) \div 2 = w1
    BY <1>2, <2>2
  <2>4. SecondFaulty(h) <=> w0 \notin Faulty /\ IsLong(h) /\ w1 \in Faulty
    BY <1>5, <2>3 DEF SecondFaulty
  <2>5. IsLong(h) => Upper(i.in).word = w1 /\ Upper(i.in).err = (w1 \in Faulty)
    BY <1>3, <1>7, FetchedFields
  <2>6. w0 \in Faulty => IsLong(h)
    BY <1>5 DEF IsLong
  <2>7. /\ valid_q[0] => rdata_q[0].err = (w0 \in Faulty)
        /\ ~valid_q[0] => i.in.err = (w0 \in Faulty)
    BY <1>4 DEF Rdata
  <2>8. /\ valid_q[1] /\ IsLong(h) => rdata_q[1].err = (w1 \in Faulty)
        /\ ~valid_q[1] /\ IsLong(h) => i.in.err = (w1 \in Faulty)
    BY <2>5 DEF Upper
  <2>9. i.in.err \in BOOLEAN
    BY AnswerInOrder DEF Data
  <2>10. valid_q[1] => rdata_q[1].err \in BOOLEAN
    BY <1>1, Bits DEF TypeOK, Data
  <2>11. ErrUnaligned(i.in) <=> w0 \in Faulty \/ SecondFaulty(h)
    <3>1. CASE valid_q[1]
      <4>1. ErrUnaligned(i.in) <=> (rdata_q[1].err /\ IsLong(h)) \/ w0 \in Faulty
        BY <1>1, <1>3, <1>7, <2>7, <2>10, <3>1 DEF ErrUnaligned
      <4>2. QED
        BY <2>4, <2>8, <3>1, <4>1
    <3>2. CASE ~valid_q[1] /\ valid_q[0]
      <4>1. ErrUnaligned(i.in) <=> (i.in.err /\ IsLong(h)) \/ w0 \in Faulty
        BY <1>3, <1>7, <2>7, <2>9, <3>2 DEF ErrUnaligned
      <4>2. QED
        BY <2>4, <2>8, <3>2, <4>1
    <3>3. CASE ~valid_q[0]
      <4>1. ErrUnaligned(i.in) <=> i.in.err
        BY <1>1, <2>9, <3>3 DEF ErrUnaligned
      <4>2. ~IsLong(h)
        BY <1>1, <1>3, <1>7, <3>3
      <4>3. QED
        BY <2>4, <2>7, <3>3, <4>1, <4>2
    <3>4. QED
      BY <3>1, <3>2, <3>3
  <2>12. ErrUnaligned(i.in) => (ErrPlus2(i.in) <=> SecondFaulty(h))
    <3>1. SUFFICES ASSUME ErrUnaligned(i.in) PROVE ErrPlus2(i.in) <=> SecondFaulty(h)
      OBVIOUS
    <3>2. IsLong(h)
      BY <2>4, <2>6, <2>11, <3>1
    <3>3. valid_q[0]
      BY <1>1, <1>3, <1>7, <3>2
    <3>4. CASE valid_q[1]
      BY <2>4, <2>7, <2>8, <3>2, <3>3, <3>4 DEF ErrPlus2
    <3>5. CASE ~valid_q[1]
      BY <2>4, <2>7, <2>8, <3>2, <3>3, <3>5 DEF ErrPlus2
    <3>6. QED
      BY <3>4, <3>5
  <2>13. SecondFaulty(h) => h \div 2 # Next2(h) \div 2
    BY <1>2, <2>3, <2>4
  <2>14. o.low = h /\ (IsLong(h) => o.high = Next2(h))
    BY <1>6, <1>7, <2>1, <2>2, <2>5
  <2>15. (o.err <=> ErrUnaligned(i.in)) /\ (o.plus2 <=> ErrPlus2(i.in))
    BY <1>6, <1>7
  <2>16. QED
    BY <1>5, <1>6, <2>11, <2>12, <2>13, <2>14, <2>15
<1>8. CASE ~Unaligned
  <2>1. h = 2 * w0 /\ h % 2 = 0
    BY <1>2, <1>8 DEF Unaligned
  <2>2. Next2(h) = 2 * w0 + 1 /\ Next2(h) \div 2 = w0
    <3>1. h + 1 # 2 * Words
      BY <1>1, <1>2, <2>1
    <3>2. (h + 1) % (2 * Words) = h + 1
      BY <1>1, <3>1, HalfAddr
    <3>3. (2 * w0 + 1) \div 2 = w0
      BY <1>2
    <3>4. QED
      BY <2>1, <3>2, <3>3 DEF Next2
  <2>3. ~SecondFaulty(h)
    BY <1>5, <2>2 DEF SecondFaulty
  <2>4. /\ o.low = 2 * w0 + 0 /\ o.high = 2 * w0 + 1 /\ (o.err <=> w0 \in Faulty) /\ ~o.plus2
    BY <1>6, <1>8
  <2>5. o.low = h
    BY <1>2, <2>1, <2>4
  <2>6. QED
    BY <1>5, <1>6, <2>2, <2>3, <2>4, <2>5
<1>9. QED
  BY <1>7, <1>8

(* The pipeline gets the instructions of the program, each complete, in    *)
(* order and with its own errors.                                          *)
THEOREM SpecInstructionsCorrect == Spec => []InstructionsCorrect
<1>1. Init => InstructionsCorrect
  BY DEF Init, FetchInit, InstructionsCorrect
<1>2. ASSUME Inv, InstructionsCorrect, [Next]_vars
      PROVE  InstructionsCorrect'
  <2>1. CASE Next
    <3>1. PICK i : CycleOf(i)
      BY <2>1, NextIsCycle
    <3>2. got' = IF i.branch THEN [at |-> i.addr, out |-> None]
                 ELSE IF Taken(i) THEN [at |-> pc, out |-> Out(i.in)] ELSE None
      BY <3>1 DEF CycleOf, FetchCycle
    <3>3. CASE ~i.branch /\ Taken(i)
      <4>1. got'.out = Out(i.in) /\ got'.at = instr_addr_q
        BY <1>2, <3>2, <3>3 DEF Inv, InOrder
      <4>2. OutValid(FifoValid(i), i.in)
        BY <3>3 DEF Taken
      <4>3. LET o == got'.out
                h == got'.at
            IN  /\ o.addr = h
                /\ o.err <=> FirstFaulty(h) \/ SecondFaulty(h)
                /\ ~o.err => o.low = h /\ (IsLong(h) => o.high = Next2(h))
                /\ o.err => (o.plus2 <=> h \div 2 # Next2(h) \div 2 /\ SecondFaulty(h))
        BY <1>2, <3>1, <4>1, <4>2, TakenCorrect
      <4>4. QED
        BY <4>3 DEF InstructionsCorrect, FirstFaulty, SecondFaulty, IsLong, Next2
    <3>4. CASE i.branch
      BY <3>2, <3>4 DEF InstructionsCorrect
    <3>5. CASE ~i.branch /\ ~Taken(i)
      BY <3>2, <3>5 DEF InstructionsCorrect
    <3>6. QED
      BY <3>3, <3>4, <3>5
  <2>2. CASE UNCHANGED vars
    BY <1>2, <2>2 DEF vars, fetchVars, InstructionsCorrect, FirstFaulty, SecondFaulty, IsLong, Next2
  <2>3. QED
    BY <1>2, <2>1, <2>2
<1>3. QED
  BY <1>1, <1>2, SpecInv, PTL DEF Spec

=============================================================================
