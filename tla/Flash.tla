------------------------------- MODULE Flash -------------------------------
(***************************************************************************)
(* The flash library (flashlib.c): a range is erased sector by sector, or  *)
(* the whole chip at once when the range is the chip; a buffer is          *)
(* programmed byte by byte; each command is polled until bit 7 of the byte *)
(* shows that it is done.  rtems-flash.c is one sequence of such calls;    *)
(* here any calls follow each other.  A byte is two bits, bit 7 and        *)
(* another: erasing sets both, programming can only clear them.            *)
(***************************************************************************)
EXTENDS Integers

CONSTANTS
  DevStart, SectorCount, SectorSize,   \* fldev
  MaxCalls                             \* bound: calls

ASSUME FlashDevice ==
  /\ DevStart \in Nat /\ {SectorCount, SectorSize, MaxCalls} \subseteq Nat \ {0}
  /\ DevStart % SectorSize = 0

VARIABLES
  fl_mem,     \* what the chip holds
  fl_call,    \* the call under way: op, start, end or length, data; and its answer
  fl_curr,    \* where it is: the next sector or byte
  fl_busy,    \* the addresses the chip is erasing, {} if it is not
  fl_calls,   \* calls so far
  fl_before   \* history: fl_mem when the call began

fl_vars == <<fl_mem, fl_call, fl_curr, fl_busy, fl_calls, fl_before>>

Erased == 3
FlBytes == 0 .. 3
Bit7(byte) == byte \div 2
AndBytes(x, y) == IF x = y \/ y = 3 THEN x ELSE IF x = 3 THEN y ELSE 0

DevEnd == DevStart + SectorCount * SectorSize
Device == DevStart .. DevEnd - 1
SectorStart(a) == a - (a % SectorSize)
SectorOf(start) == start .. start + SectorSize - 1

Idle == [op |-> "none", start |-> 0, end |-> 0, byte |-> 0, ret |-> 0]

FlashInit ==
  /\ \E byte \in {0, Erased} : fl_mem = [a \in Device |-> byte]
  /\ fl_before = fl_mem
  /\ fl_call = Idle /\ fl_curr = 0 /\ fl_busy = {} /\ fl_calls = 0

-----------------------------------------------------------------------------
(* flashlib_erase.  A start below the device is not refused.               *)
EraseChecks(start, end) ==
  IF start > end THEN -1
  ELSE IF start % SectorSize # 0 THEN -2
  ELSE IF end >= DevEnd THEN -3
  ELSE 0

SectCntFloor(start, end) ==                   \* mutant: counts whole sectors
  (end + 1 - start) \div SectorSize

SectCnt(start, end) == 1 + (SectorStart(end) - start) \div SectorSize

WholeChip(start, end) == start = DevStart /\ SectCnt(start, end) = SectorCount

Returned(op, start, end, byte, ret) ==
  fl_call' = [op |-> op, start |-> start, end |-> end, byte |-> byte, ret |-> ret]

Begin(op, start, end, byte, ret) ==
  /\ fl_calls < MaxCalls /\ fl_calls' = fl_calls + 1
  /\ Returned(op, start, end, byte, ret)
  /\ fl_curr' = start /\ fl_before' = fl_mem
  /\ UNCHANGED <<fl_mem, fl_busy>>

Waiting == 1  \* the answer of a call that has not returned

EraseCall ==
  /\ fl_call.ret # Waiting
  /\ \E start \in Device, end \in Device \cup {DevEnd} :
       LET ret == EraseChecks(start, end) IN
         Begin("erase", start, end, 0, IF ret = 0 THEN Waiting ELSE ret)

(* The command for the chip or for the next sector; a chip that erases     *)
(* shows a 0 in bit 7.                                                     *)
EraseBegin ==
  /\ fl_call.op = "erase" /\ fl_call.ret = Waiting /\ fl_busy = {}
  /\ fl_busy' = IF WholeChip(fl_call.start, fl_call.end) THEN Device ELSE SectorOf(fl_curr)
  /\ UNCHANGED <<fl_mem, fl_call, fl_curr, fl_calls, fl_before>>

EraseDone ==
  /\ fl_busy # {}
  /\ fl_mem' = [a \in Device |-> IF a \in fl_busy THEN Erased ELSE fl_mem[a]]
  /\ fl_busy' = {}
  /\ LET next == fl_curr + SectorSize
         last == \/ WholeChip(fl_call.start, fl_call.end)
                 \/ next = fl_call.start + SectCnt(fl_call.start, fl_call.end) * SectorSize
     IN  fl_curr' = next /\ fl_call' = [fl_call EXCEPT !.ret = IF last THEN 0 ELSE Waiting]
  /\ UNCHANGED <<fl_calls, fl_before>>

-----------------------------------------------------------------------------
(* flashlib_program of a buffer that holds one byte over and over.         *)
ProgramChecks(start, length) ==
  IF DevStart > start THEN -1 ELSE IF DevEnd < start + length THEN -2 ELSE 0

ProgramCall ==
  /\ fl_call.ret # Waiting
  /\ \E start \in Device \cup (IF DevStart = 0 THEN {} ELSE {DevStart - 1}),
        length \in 0 .. SectorSize + 1, byte \in FlBytes :
       LET ret == ProgramChecks(start, length) IN
         Begin("program", start, start + length, byte, IF ret = 0 THEN Waiting ELSE ret)

(* The poll goes on for ever when a bit 7 that should be 1 was 0.          *)
ProgramByte ==
  /\ fl_call.op = "program" /\ fl_call.ret = Waiting
  /\ IF fl_curr < fl_call.end
       THEN LET byte == AndBytes(fl_mem[fl_curr], fl_call.byte) IN
              /\ fl_mem' = [fl_mem EXCEPT ![fl_curr] = byte]
              /\ fl_curr' = IF Bit7(byte) = Bit7(fl_call.byte) THEN fl_curr + 1 ELSE fl_curr
              /\ UNCHANGED fl_call
       ELSE fl_call' = [fl_call EXCEPT !.ret = 0] /\ UNCHANGED <<fl_mem, fl_curr>>
  /\ UNCHANGED <<fl_busy, fl_calls, fl_before>>

FlashNext == EraseCall \/ EraseBegin \/ EraseDone \/ ProgramCall \/ ProgramByte

FlashSpec == FlashInit /\ [][FlashNext]_fl_vars

-----------------------------------------------------------------------------
FlashTypeOK ==
  /\ fl_mem \in [Device -> FlBytes] /\ fl_before \in [Device -> FlBytes]
  /\ fl_call.op \in {"none", "erase", "program"} /\ fl_call.ret \in -3 .. 1
  /\ fl_curr \in 0 .. DevEnd + 1 /\ fl_busy \subseteq Device /\ fl_calls \in 0 .. MaxCalls

(* "Erase an address range", "end does not need to be aligned": an erase   *)
(* that succeeds has erased the sectors with an address of the range and   *)
(* no other; one that was refused has erased nothing; programming changes  *)
(* its range only, and what was erased there is the buffer afterwards.     *)
FlashRight ==
  LET touched == IF fl_call.op = "erase"
                   THEN UNION {SectorOf(SectorStart(a)) : a \in fl_call.start .. fl_call.end}
                   ELSE fl_call.start .. fl_call.end - 1
      after(a) == IF fl_call.op = "erase" THEN {Erased}
                  ELSE IF fl_before[a] = Erased THEN {fl_call.byte} ELSE FlBytes
  IN  fl_call.ret # Waiting =>
        \A a \in Device : IF fl_call.ret = 0 /\ a \in touched THEN fl_mem[a] \in after(a)
                          ELSE fl_mem[a] = fl_before[a]
=============================================================================
