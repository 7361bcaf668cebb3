-------------------------- MODULE MmadInstructions --------------------------
(***************************************************************************)
(* The instruction sequences that the BlockMmad classes of gemm/block have *)
(* in common.  `stages` holds the ring sizes they depend on, [l1, l0A]:    *)
(* the events of B follow those of A.  `at` holds ring positions,          *)
(* [l1, l0A, l0B, l0C].                                                    *)
(***************************************************************************)
EXTENDS Pipes, SequencesExt

\* The ring position after id.
Wrap(id, size) == IF id + 1 < size THEN id + 1 ELSE 0

L1AEvent(i) == i
L1BEvent(i, stages) == i + stages.l1
L0AEvent(i) == i
L0BEvent(i, stages) == i + stages.l0A

\* GM to L1: one k tile of A and of B to L1 slot i, when that slot is free.
LoadTileA(tile, i) ==
    << WaitFlag(MTE1_MTE2(L1AEvent(i))), Load(tile, L1A(i)), SetFlag(MTE2_MTE1(L1AEvent(i))) >>
LoadTile(tile, i, stages) ==
    LoadTileA(tile, i) \o
    << WaitFlag(MTE1_MTE2(L1BEvent(i, stages))), Load(tile, L1B(i)), SetFlag(MTE2_MTE1(L1BEvent(i, stages))) >>

\* Mutation of MmadPart: the L1 slot is given back after its first part.
MmadPartEarlyRelease(at, stages, part, kParts, initC) ==
    << WaitFlag(M_MTE1(L0AEvent(at.l0A))) >>
    \o OnlyIf(part = 0, WaitFlag(MTE2_MTE1(L1AEvent(at.l1))))
    \o << Copy(L1A(at.l1), part, L0A(at.l0A)) >>
    \o OnlyIf(part = 0, SetFlag(MTE1_MTE2(L1AEvent(at.l1))))
    \o << WaitFlag(M_MTE1(L0BEvent(at.l0B, stages))) >>
    \o OnlyIf(part = 0, WaitFlag(MTE2_MTE1(L1BEvent(at.l1, stages))))
    \o << Copy(L1B(at.l1), part, L0B(at.l0B)) >>
    \o OnlyIf(part = 0, SetFlag(MTE1_MTE2(L1BEvent(at.l1, stages))))
    \o << SetFlag(MTE1_M(0)), WaitFlag(MTE1_M(0)),
          Mmad(L0A(at.l0A), L0B(at.l0B), L0C(at.l0C), initC),
          SetFlag(M_MTE1(L0BEvent(at.l0B, stages))), SetFlag(M_MTE1(L0AEvent(at.l0A))) >>

\* One k part: L1 to L0A and L0B, then the multiplication.  The first part
\* waits for the tile in L1, the last one gives its L1 slot back.
MmadPart(at, stages, part, kParts, initC) ==
    << WaitFlag(M_MTE1(L0AEvent(at.l0A))) >>
    \o OnlyIf(part = 0, WaitFlag(MTE2_MTE1(L1AEvent(at.l1))))
    \o << Copy(L1A(at.l1), part, L0A(at.l0A)) >>
    \o OnlyIf(part = kParts - 1, SetFlag(MTE1_MTE2(L1AEvent(at.l1))))
    \o << WaitFlag(M_MTE1(L0BEvent(at.l0B, stages))) >>
    \o OnlyIf(part = 0, WaitFlag(MTE2_MTE1(L1BEvent(at.l1, stages))))
    \o << Copy(L1B(at.l1), part, L0B(at.l0B)) >>
    \o OnlyIf(part = kParts - 1, SetFlag(MTE1_MTE2(L1BEvent(at.l1, stages))))
    \o << SetFlag(MTE1_M(0)), WaitFlag(MTE1_M(0)),
          Mmad(L0A(at.l0A), L0B(at.l0B), L0C(at.l0C), initC),
          SetFlag(M_MTE1(L0BEvent(at.l0B, stages))), SetFlag(M_MTE1(L0AEvent(at.l0A))) >>

\* L0C to GM, then slot i of L0C is free.
StoreBlock(i, b) ==
    << SetFlag(M_FIX(i)), WaitFlag(M_FIX(i)), Store(L0C(i), GmC(b)), SetFlag(FIX_M(i)) >>
=============================================================================
