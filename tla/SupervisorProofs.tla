-------------------------- MODULE SupervisorProofs --------------------------
(***************************************************************************)
(* The last-good snapshot is whole, for any number of versions, crashes    *)
(* and edits, and also when the files become again what they were before.  *)
(***************************************************************************)
EXTENDS Supervisor, SequenceTheorems, TLAPS

-----------------------------------------------------------------------------
(* The invariant: a copy under way has its first half, of any version, or  *)
(* both, of its generation.                                                *)

HalfCopy == [gen : Nat, half : Seq(Nat)]

CopyFits ==
  \/ work = None
  \/ work \in HalfCopy /\ (Len(work.half) = 1 \/ work.half = <<work.gen, work.gen>>)

SnapshotInv ==
  /\ files \in Nat /\ newest \in Nat /\ gen \in Nat
  /\ CopyFits
  /\ SnapshotWhole

LEMMA SnapshotInvInit == Init => SnapshotInv
BY DEF Init, StaticInit, SnapshotInv, CopyFits, SnapshotWhole

(* The files and the generation change; a copy begins, or is dropped.      *)
LEMMA EditsKeep ==
  ASSUME SnapshotInv, EditStatic \/ LiveStarts \/ WatchStarts \/ LiveEnds \/ Recompute \/ ClientReady
  PROVE  SnapshotInv'
<1> USE DEF SnapshotInv
<1>1. files' \in Nat /\ newest' \in Nat /\ gen' \in Nat
  BY DEF EditStatic, LiveStarts, WatchStarts, LiveEnds, Recompute, ClientReady
<1>2. snap' = snap
  BY DEF EditStatic, LiveStarts, WatchStarts, LiveEnds, Recompute, ClientReady
<1>3. CopyFits'
  <2>1. CASE ClientReady
    <3>1. work' = [gen |-> gen, half |-> <<files>>]
      BY <2>1 DEF ClientReady
    <3>2. work' \in HalfCopy /\ Len(work'.half) = 1
      BY <3>1 DEF HalfCopy
    <3>. QED
      BY <3>2 DEF CopyFits
  <2>2. CASE work' \in {work, None}
    BY <2>2 DEF CopyFits
  <2>. QED
    BY <2>1, <2>2 DEF EditStatic, LiveStarts, WatchStarts, LiveEnds, Recompute
<1>. QED
  BY <1>1, <1>2, <1>3 DEF SnapshotWhole

LEMMA TwoHalves ==
  ASSUME NEW g \in Nat
  PROVE  Append(<<g>>, g) = <<g, g>>
<1>1. <<g>> \in Seq(Nat) /\ <<g, g>> \in Seq(Nat) /\ Len(<<g>>) = 1 /\ Len(<<g, g>>) = 2
  OBVIOUS
<1>2. Append(<<g>>, g) \in Seq(Nat) /\ Len(Append(<<g>>, g)) = 2
  BY <1>1, AppendProperties
<1>3. \A i \in 1..2 : Append(<<g>>, g)[i] = <<g, g>>[i]
  BY <1>1, AppendProperties
<1>. QED
  BY <1>1, <1>2, <1>3, SeqEqual

(* The second half is kept only if the files are still the generation's,   *)
(* as the first half was.                                                  *)
LEMMA CopiedKeeps ==
  ASSUME SnapshotInv, Copied
  PROVE  SnapshotInv'
<1> USE DEF SnapshotInv
<1>1. UNCHANGED <<files, newest, gen, snap>> /\ work # None /\ work \in HalfCopy
  BY DEF Copied, CopyFits
<1>2. CASE work' = None
  BY <1>1, <1>2 DEF CopyFits, SnapshotWhole
<1>3. CASE work.half = <<work.gen>> /\ files = work.gen
           /\ work' = [work EXCEPT !.half = Append(@, files)]
  <2>1. work.gen \in Nat /\ work.half \in Seq(Nat)
    BY <1>1 DEF HalfCopy
  <2>2. PICK g \in Nat : g = work.gen
    BY <2>1
  <2>3. Append(work.half, files) = <<g, g>>
    BY <1>3, <2>2, TwoHalves
  <2>4. <<g, g>> \in Seq(Nat)
    OBVIOUS
  <2>5. work' = [work EXCEPT !.half = <<g, g>>]
    BY <1>3, <2>3
  <2>6. work' \in HalfCopy /\ work'.gen = g /\ work'.half = <<g, g>>
    BY <1>1, <2>2, <2>4, <2>5 DEF HalfCopy
  <2>. QED
    BY <1>1, <2>6 DEF CopyFits, SnapshotWhole
<1>. QED
  BY <1>2, <1>3 DEF Copied

(* What is renamed in has both its halves.                                 *)
LEMMA RenamesKeep ==
  ASSUME SnapshotInv, StepsAside \/ RenamedIn
  PROVE  SnapshotInv'
<1> USE DEF SnapshotInv
<1>1. CASE StepsAside
  BY <1>1 DEF StepsAside, CopyFits, SnapshotWhole
<1>2. CASE RenamedIn
  <2>1. UNCHANGED <<files, newest, gen>> /\ work' = None /\ snap' = work
        /\ work # None /\ Len(work.half) = 2
    BY <1>2 DEF RenamedIn
  <2>2. work.half = <<work.gen, work.gen>>
    BY <2>1 DEF CopyFits
  <2>. QED
    BY <2>1, <2>2 DEF CopyFits, SnapshotWhole
<1>. QED
  BY <1>1, <1>2

LEMMA SnapshotInvKept ==
  ASSUME SnapshotInv, [Next]_liveVars
  PROVE  SnapshotInv'
<1>1. CASE UNCHANGED staticVars
  BY <1>1 DEF SnapshotInv, CopyFits, SnapshotWhole, staticVars
<1>2. CASE EditStatic \/ StaticStep
  BY <1>2, EditsKeep, CopiedKeeps, RenamesKeep DEF StaticStep, WriterStep
<1>3. CASE SwapStep \/ FallbackStops \/ FallbackStarts \/ Edit \/ Shutdown \/ ShutDown
  BY <1>1, <1>3 DEF SwapStep, Fires, Checked, ChildStopped, StartChild, Listens,
                    FallbackStops, FallbackStarts, Edit, Shutdown, ShutDown
<1>4. CASE ChildHashes \/ ChildBinds \/ Exits
  BY <1>4, EditsKeep DEF ChildHashes, ChildBinds, Exits
<1>. QED
  BY <1>1, <1>2, <1>3, <1>4 DEF Next, ProcessStep, liveVars

(* "A half-written snapshot never exists": all its files are of the        *)
(* generation that a page has rendered, wherever edits fall between the    *)
(* two halves, and wherever the child dies.                                *)
THEOREM SnapshotsAreWhole == Spec => []SnapshotWhole
<1>1. SnapshotInv /\ [Next]_liveVars => SnapshotInv'
  BY SnapshotInvKept
<1>2. SnapshotInv => SnapshotWhole
  BY DEF SnapshotInv
<1>. QED
  BY <1>1, <1>2, SnapshotInvInit, PTL DEF Spec
=============================================================================
