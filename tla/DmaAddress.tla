------------------------------ MODULE DmaAddress ------------------------------
(***************************************************************************)
(* Which memory requests a DMA instruction becomes:                        *)
(* Instruction::get_dram_address (TOGSim/src/Instruction.cc) as            *)
(* DMA::get_memory_access calls it.  Module Core only counts the requests  *)
(* (its constant Requests); here they have addresses.  A transfer is a     *)
(* base address, a tile of rows and columns with a stride each, and the    *)
(* width of an element.  The other two of the four dimensions have extent  *)
(* 1, and there is no indirect index.                                      *)
(***************************************************************************)
EXTENDS Integers, FiniteSets

CONSTANT DramReqSize     \* dram_req_size

\* "address & dram_req_size-1" is a remainder for powers of two only.
AddressAssumption == DramReqSize \in Nat \ {0} /\ \E n \in 0..16 : DramReqSize = 2 ^ n
ASSUME AddressParameters == AddressAssumption

(* dram_addr, tile_size and tile_stride of the two dimensions, and _elem_bits of an instruction. *)
Transfer == [base : Nat, rows : Nat \ {0}, columns : Nat \ {0}, rowStride : Nat, columnStride : Nat,
             bits : Nat \ {0}]

\* In "dram_addr + (address * _elem_bits + 7) >> 3" the shift comes last.
Address(t, offset) == (t.base + offset * t.bits + 7) \div 8

FaultyLine(a) == a
Line(a) == a - (a % DramReqSize)

Elements(t) == (0..(t.rows - 1)) \X (0..(t.columns - 1))
ElementOffset(t, e) == e[1] * t.rowStride + e[2] * t.columnStride

DramAddresses(t) == {Line(Address(t, ElementOffset(t, e))) : e \in Elements(t)}

(* DMA::get_memory_access makes the requests of a transfer in the order of their addresses. *)
RequestsOf(t) ==
  LET lines == DramAddresses(t)
  IN [n \in 1..Cardinality(lines) |-> CHOOSE a \in lines : Cardinality({b \in lines : b < a}) = n - 1]

-------------------------------------------------------------------------------
Ceiling(a, b) == (a + b - 1) \div b
(* A transfer of neighbouring elements takes as many requests as the bytes of its rows need, or one more for *)
(* each row, which may start inside a line.                                                                  *)
MostRequests(t) == t.rows * (Ceiling(t.columns * t.bits, 8 * DramReqSize) + 1)
(* Where an element really is: base is the byte address of the tensor (data_ptr, Simulator/simulator.py) and an   *)
(* offset counts elements.                                                                                     *)
ElementByte(t, e) == t.base + (ElementOffset(t, e) * t.bits) \div 8
(* Address shifts the base with the offset, so that a transfer asks for bytes seven eighths of its base too low. *)
Displacement(t) == t.base - t.base \div 8
(* An element of whole bytes at a multiple of its size lies in one line. *)
Aligned(t) == t.bits % 8 = 0 /\ t.base % t.bits = 0 /\ DramReqSize % (t.bits \div 8) = 0
(* Moved down by so many bytes, every byte of every element lies in one of the lines. *)
Covered(t, lines, displacement) ==
  \A e \in Elements(t) : \E a \in lines :
    LET first == ElementByte(t, e) - displacement
    IN a <= first /\ first + Ceiling(t.bits, 8) <= a + DramReqSize
===============================================================================
