--------------------------- MODULE DescriptorProofs ---------------------------
(***************************************************************************)
(* The CPU reads back from every descriptor what the kernel packed into    *)
(* it, for all addresses, limits and selectors of their width.             *)
(***************************************************************************)
EXTENDS Descriptors, TLAPS

(* IdtDescriptor::create (idt.rs:250) loses no bit of the address of an    *)
(* entry point, and the selector and the IST index stay apart from it.     *)
THEOREM GateReadsBack ==
  ASSUME NEW f \in SUBSET Word, NEW sel \in SUBSET (0 .. 15),
         NEW ist \in SUBSET (0 .. 2), NEW dpl \in SUBSET (0 .. 1),
         NEW d, d = GateCreate(sel, ist, {1, 2, 3}, dpl, f)
  PROVE  /\ GateOffset(d) = f
         /\ GateSelector(d) = sel
         /\ GateIst(d) = ist
         /\ IsInterruptGate(d)
<1>1. /\ \A i \in 0 .. 15 : i \in d <=> i \in f
      /\ \A i \in 0 .. 15 : i + 48 \in d <=> i + 16 \in f
      /\ \A i \in 0 .. 31 : i + 64 \in d <=> i + 32 \in f
  BY DEF GateCreate, With, Bits, Flag, Word
<1>2. /\ \A i \in 0 .. 15 : i + 16 \in d <=> i \in sel
      /\ \A i \in 0 .. 2 : i + 32 \in d <=> i \in ist
      /\ \A i \in 40 .. 47 : i \in d <=> \/ i \in {41, 42, 43, 47}
                                         \/ i - 45 \in dpl
  BY DEF GateCreate, With, Bits, Flag
<1>3. GateOffset(d) = f
  <2>1. \A i \in GateOffset(d) : i \in f
    BY <1>1 DEF GateOffset, Bits, Place
  <2>2. ASSUME NEW i \in f  PROVE i \in GateOffset(d)
    <3>1. CASE i \in 0 .. 15
      BY <1>1, <3>1 DEF GateOffset, Bits
    <3>2. CASE i \in 16 .. 31
      <4>1. i - 16 \in Bits(d, 48, 16) /\ i = (i - 16) + 16
        BY <1>1, <3>2 DEF Bits
      <4>. QED  BY <4>1 DEF GateOffset, Place
    <3>3. CASE i \in 32 .. 63
      <4>1. i - 32 \in Bits(d, 64, 32) /\ i = (i - 32) + 32
        BY <1>1, <3>3 DEF Bits
      <4>. QED  BY <4>1 DEF GateOffset, Place
    <3>. QED  BY <3>1, <3>2, <3>3 DEF Word
  <2>. QED  BY <2>1, <2>2
<1>4. GateSelector(d) = sel
  <2>1. \A i \in GateSelector(d) : i \in sel
    BY <1>2 DEF GateSelector, Bits
  <2>2. \A i \in sel : i \in GateSelector(d)
    BY <1>2 DEF GateSelector, Bits
  <2>. QED  BY <2>1, <2>2, Zenon
<1>5. GateIst(d) = ist
  <2>1. \A i \in GateIst(d) : i \in ist
    BY <1>2 DEF GateIst, Bits
  <2>2. \A i \in ist : i \in GateIst(d)
    BY <1>2 DEF GateIst, Bits
  <2>. QED  BY <2>1, <2>2, Zenon
<1>6. IsInterruptGate(d)
  BY <1>2 DEF IsInterruptGate, Bits
<1>. QED  BY <1>3, <1>4, <1>5, <1>6

(* TssDescriptor::create (gdt.rs:150): the CPU finds the TSS, and with it  *)
(* the stacks of the IST, at the address it was allocated.                 *)
THEOREM TssReadsBack ==
  ASSUME NEW base \in SUBSET Word, NEW d, d = TssCreate(base)
  PROVE  TssBase(d) = base /\ IsAvailableTss(d)
<1>1. /\ \A i \in 0 .. 23 : i + 16 \in d <=> i \in base
      /\ \A i \in 0 .. 7 : i + 56 \in d <=> i + 24 \in base
      /\ \A i \in 0 .. 31 : i + 64 \in d <=> i + 32 \in base
  BY DEF TssCreate, TssSize, With, Bits, Flag, Word
<1>2. \A i \in 40 .. 47 : i \in d <=> i \in {40, 43, 47}
  BY DEF TssCreate, TssSize, With, Bits, Flag
<1>3. TssBase(d) = base
  <2>1. \A i \in TssBase(d) : i \in base
    BY <1>1 DEF TssBase, Bits, Place
  <2>2. ASSUME NEW i \in base  PROVE i \in TssBase(d)
    <3>1. CASE i \in 0 .. 23
      BY <1>1, <3>1 DEF TssBase, Bits
    <3>2. CASE i \in 24 .. 31
      <4>1. i - 24 \in Bits(d, 56, 8) /\ i = (i - 24) + 24
        BY <1>1, <3>2 DEF Bits
      <4>. QED  BY <4>1 DEF TssBase, Place
    <3>3. CASE i \in 32 .. 63
      <4>1. i - 32 \in Bits(d, 64, 32) /\ i = (i - 32) + 32
        BY <1>1, <3>3 DEF Bits
      <4>. QED  BY <4>1 DEF TssBase, Place
    <3>. QED  BY <3>1, <3>2, <3>3 DEF Word
  <2>. QED  BY <2>1, <2>2
<1>4. IsAvailableTss(d)
  BY <1>2 DEF IsAvailableTss, Bits
<1>. QED  BY <1>3, <1>4

(* The base and the limit that the CPU gathers from a segment descriptor.  *)
LEMMA SegmentFields ==
  ASSUME NEW base \in SUBSET (0 .. 31), NEW limit \in SUBSET (0 .. 19), NEW d,
         \A i \in 0 .. 23 : i + 16 \in d <=> i \in base,
         \A i \in 0 .. 7 : i + 56 \in d <=> i + 24 \in base,
         \A i \in 0 .. 15 : i \in d <=> i \in limit,
         \A i \in 0 .. 3 : i + 48 \in d <=> i + 16 \in limit
  PROVE  SegmentBase(d) = base /\ SegmentLimit(d) = limit
<1>1. SegmentBase(d) = base
  <2>1. \A i \in SegmentBase(d) : i \in base
    BY DEF SegmentBase, Bits, Place
  <2>2. ASSUME NEW i \in base  PROVE i \in SegmentBase(d)
    <3>1. CASE i \in 0 .. 23
      BY <3>1 DEF SegmentBase, Bits
    <3>2. CASE i \in 24 .. 31
      <4>1. i - 24 \in Bits(d, 56, 8) /\ i = (i - 24) + 24
        BY <3>2 DEF Bits
      <4>. QED  BY <4>1 DEF SegmentBase, Place
    <3>. QED  BY <3>1, <3>2
  <2>. QED  BY <2>1, <2>2, Zenon
<1>2. SegmentLimit(d) = limit
  <2>1. \A i \in SegmentLimit(d) : i \in limit
    BY DEF SegmentLimit, Bits, Place
  <2>2. ASSUME NEW i \in limit  PROVE i \in SegmentLimit(d)
    <3>1. CASE i \in 0 .. 15
      BY <3>1 DEF SegmentLimit, Bits
    <3>2. CASE i \in 16 .. 19
      <4>1. i - 16 \in Bits(d, 48, 4) /\ i = (i - 16) + 16
        BY <3>2 DEF Bits
      <4>. QED  BY <4>1 DEF SegmentLimit, Place
    <3>. QED  BY <3>1, <3>2
  <2>. QED  BY <2>1, <2>2, Zenon
<1>. QED  BY <1>1, <1>2

(* GdtSegemntDescriptor::create (gdt.rs:45) of an executable segment gives *)
(* long mode code with the base of 32 and the limit of 20 bits asked for.  *)
THEOREM CodeSegmentReadsBack ==
  ASSUME NEW base \in SUBSET (0 .. 31), NEW limit \in SUBSET (0 .. 19), NEW d,
         d = SegmentCreate(TRUE, FALSE, TRUE, base, limit, {}, {0})
  PROVE  SegmentBase(d) = base /\ SegmentLimit(d) = limit /\ IsLongCode(d)
<1>1. \A i \in 0 .. 23 : i + 16 \in d <=> i \in base
  BY DEF SegmentCreate, With, Bits, Flag
<1>2. \A i \in 0 .. 7 : i + 56 \in d <=> i + 24 \in base
  BY DEF SegmentCreate, With, Bits, Flag
<1>3. \A i \in 0 .. 15 : i \in d <=> i \in limit
  BY DEF SegmentCreate, With, Bits, Flag
<1>4. \A i \in 0 .. 3 : i + 48 \in d <=> i + 16 \in limit
  BY DEF SegmentCreate, With, Bits, Flag
<1>5. IsLongCode(d)
  BY DEF SegmentCreate, With, Bits, Flag, IsLongCode
<1>6. SegmentBase(d) = base /\ SegmentLimit(d) = limit
  BY ONLY <1>1, <1>2, <1>3, <1>4, SegmentFields, ZenonT(60)
<1>. QED  BY <1>5, <1>6, Zenon

(* GdtSegemntDescriptor::create (gdt.rs:45) of any other segment gives     *)
(* writable data with the base and the limit asked for.                    *)
THEOREM DataSegmentReadsBack ==
  ASSUME NEW base \in SUBSET (0 .. 31), NEW limit \in SUBSET (0 .. 19), NEW d,
         d = SegmentCreate(TRUE, FALSE, FALSE, base, limit, {}, {0})
  PROVE  SegmentBase(d) = base /\ SegmentLimit(d) = limit /\ IsWritableData(d)
<1>1. \A i \in 0 .. 23 : i + 16 \in d <=> i \in base
  BY DEF SegmentCreate, With, Bits, Flag
<1>2. \A i \in 0 .. 7 : i + 56 \in d <=> i + 24 \in base
  BY DEF SegmentCreate, With, Bits, Flag
<1>3. \A i \in 0 .. 15 : i \in d <=> i \in limit
  BY DEF SegmentCreate, With, Bits, Flag
<1>4. \A i \in 0 .. 3 : i + 48 \in d <=> i + 16 \in limit
  BY DEF SegmentCreate, With, Bits, Flag
<1>5. IsWritableData(d)
  BY DEF SegmentCreate, With, Bits, Flag, IsWritableData
<1>6. SegmentBase(d) = base /\ SegmentLimit(d) = limit
  BY ONLY <1>1, <1>2, <1>3, <1>4, SegmentFields, Zenon
<1>. QED  BY <1>5, <1>6, Zenon
===============================================================================
