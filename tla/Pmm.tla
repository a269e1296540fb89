-------------------------------- MODULE Pmm --------------------------------
(***************************************************************************)
(* The physical memory manager (pmm.c): one bit per physical frame, set    *)
(* while the frame is reserved.  The manager keeps no record of who holds  *)
(* a frame: PmmReleaseMemory clears whatever bits it is told to clear, so  *)
(* every guarantee about frames is a guarantee about its callers.          *)
(***************************************************************************)
EXTENDS Integers, FiniteSets

CONSTANT
    NumFrames       \* HighestPhysicalAddressPresent / PAGE_SIZE

ASSUME NumFramesAssumption == NumFrames \in Nat /\ NumFrames > 1

Frames == 0 .. NumFrames - 1

\* The scan's MAX_DWORD, and PmmReserveMemoryEx's NULL.  Physical address 0 is
\* NULL as well, which is why frame 0 must never be handed out.
NoFrame == -1

VARIABLE bitmap     \* AllocationBitmap: the frames whose bit is set

\* The frames of a run of n that starts at i.
FrameRun(i, n) == i .. i + n - 1

\* Starts of the clear runs of n bits at or after `start' in the bitmap b.
ClearRuns(b, start, n) ==
    {i \in Frames : /\ i >= start
                    /\ i + n <= NumFrames
                    /\ FrameRun(i, n) \cap b = {}}

\* The bitmap library's scan: the first clear run, or MAX_DWORD.
BitmapScanFrom(b, start, n) ==
    IF ClearRuns(b, start, n) = {} THEN NoFrame
    ELSE CHOOSE i \in ClearRuns(b, start, n) :
             \A j \in ClearRuns(b, start, n) : i <= j

\* What a reservation of n frames at or after the frame `min' returns.
PmmReserveMemoryEx(b, n, min) ==
    IF n = 0 THEN NoFrame ELSE BitmapScanFrom(b, min, n)

\* The bits a reservation that returned f sets, and those a release clears.
PmmReserved(b, f, n) == IF f = NoFrame THEN b ELSE b \cup FrameRun(f, n)
PmmReleaseMemory(b, f, n) == b \ FrameRun(f, n)
=============================================================================
