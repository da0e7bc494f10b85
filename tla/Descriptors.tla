------------------------------ MODULE Descriptors ------------------------------
(***************************************************************************)
(* The descriptors the kernel packs for the CPU: segments and the task     *)
(* state segment (gdt.rs), gates (idt.rs).  A word is the set of its bits  *)
(* that are 1, so that addresses of 64 bits keep their width.  The packers *)
(* are the kernel's; the readers are the CPU's, from the layout that the   *)
(* architecture fixes.                                                     *)
(***************************************************************************)
EXTENDS Integers

Word == 0 .. 63

(* (w >> lo) & (2^n - 1), and a field value moved to bit lo.               *)
Bits(w, lo, n) == {i \in 0 .. n - 1 : i + lo \in w}
Place(lo, w) == {i + lo : i \in w}

Flag(lo, b) == IF b THEN {lo} ELSE {}

(* A with_ method of the bitfield: it panics when the value is wider than  *)
(* its field; a dropped bit stands for the panic.                          *)
With(lo, n, w) == {i \in lo .. lo + n - 1 : i - lo \in w}

-----------------------------------------------------------------------------
(* GdtSegemntDescriptor::create and TssDescriptor::create                  *)

SegmentCreate(rw, dc, executable, base, limit, dpl, granularity) ==
  With(0, 16, Bits(limit, 0, 16)) \cup With(16, 24, Bits(base, 0, 24))
    \cup Flag(41, rw) \cup Flag(42, dc) \cup Flag(43, executable)
    \cup Flag(44, TRUE) \cup With(45, 2, Bits(dpl, 0, 2)) \cup Flag(47, TRUE)
    \cup With(48, 4, Bits(limit, 16, 8)) \cup Flag(52, TRUE)
    \cup Flag(53, executable) \cup Flag(54, ~executable)
    \cup With(55, 1, Bits(granularity, 0, 1)) \cup With(56, 8, Bits(base, 24, 8))

TssSize == {3, 5, 6}                              \* 104 bytes

TssCreate(base) ==
  With(0, 16, Bits(TssSize, 0, 16)) \cup With(16, 24, Bits(base, 0, 24))
    \cup With(40, 4, {0, 3}) \cup Flag(47, TRUE)
    \cup With(48, 4, Bits(TssSize, 16, 8)) \cup Flag(53, TRUE)
    \cup Flag(55, TRUE) \cup With(56, 40, Bits(base, 24, 40))

(* IdtDescriptor::create                                                   *)
GateCreate(segment_selector, ist_index, gate_type, dpl, f) ==
  With(0, 16, Bits(f, 0, 16)) \cup With(16, 16, segment_selector)
    \cup With(32, 3, ist_index) \cup With(40, 4, Bits(gate_type, 0, 4))
    \cup With(45, 2, Bits(dpl, 0, 2)) \cup Flag(47, TRUE)
    \cup With(48, 16, Bits(f, 16, 16)) \cup With(64, 32, Bits(f, 32, 32))

-----------------------------------------------------------------------------
(* What the CPU reads                                                      *)

GateOffset(d) ==
  Bits(d, 0, 16) \cup Place(16, Bits(d, 48, 16)) \cup Place(32, Bits(d, 64, 32))
GateSelector(d) == Bits(d, 16, 16)
GateIst(d) == Bits(d, 32, 3)
IsInterruptGate(d) == Bits(d, 40, 5) = {1, 2, 3} /\ 47 \in d

SegmentBase(d) == Bits(d, 16, 24) \cup Place(24, Bits(d, 56, 8))
SegmentLimit(d) == Bits(d, 0, 16) \cup Place(16, Bits(d, 48, 4))
IsLongCode(d) == {43, 44, 47, 53} \subseteq d /\ 54 \notin d
IsWritableData(d) == {41, 44, 47} \subseteq d /\ 43 \notin d

TssBase(d) ==
  Bits(d, 16, 24) \cup Place(24, Bits(d, 56, 8)) \cup Place(32, Bits(d, 64, 32))
IsAvailableTss(d) == Bits(d, 40, 5) = {0, 3} /\ 47 \in d

===============================================================================
