------------------------------- MODULE Chunks -------------------------------
(***************************************************************************)
(* chunkText of momorch.go: a transcript of n words cut into overlapping     *)
(* windows, each the pair of the first and the last of its words.            *)
(***************************************************************************)
EXTENDS Integers, Sequences

CONSTANTS
  ChunkWords,   \* chunkWords, the size of a window
  OverlapWords  \* overlapWords, how many words a window repeats of the one before

ASSUME ChunksAssumption == ChunkWords \in Nat \ {0} /\ OverlapWords \in Nat

\* "step < 1" guards against an overlap of a whole window.
Stride == IF ChunkWords > OverlapWords THEN ChunkWords - OverlapWords ELSE ChunkWords

Window(start, n) ==
  [first |-> start + 1, last |-> IF start + ChunkWords < n THEN start + ChunkWords ELSE n]

\* The loop: windows from start on, up to the first that reaches the end.
WindowsFrom(n) ==
  LET from[start \in 0 .. n] ==
        IF start + ChunkWords >= n THEN <<Window(start, n)>>
        ELSE <<Window(start, n)>> \o from[start + Stride]
  IN from

ChunkText(n) == IF n = 0 THEN <<>> ELSE WindowsFrom(n)[0]

\* The words that occur in some of the windows.
WordsOf(windows) == UNION {windows[k].first .. windows[k].last : k \in DOMAIN windows}
=============================================================================
