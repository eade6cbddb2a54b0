------------------------------ MODULE StgArgs ------------------------------
(***************************************************************************)
(* The part of run() in stgpipe.c that turns its OpSet argument into the   *)
(* OpKinds[] array: at most 32 characters are scanned, up to the first     *)
(* NUL; R/W/F/U in either case select a kind and every other character is *)
(* skipped; an empty result becomes the default cycle Write, Read.         *)
(* The argument is a sequence of one-character strings.                   *)
(***************************************************************************)
EXTENDS Integers, Sequences, TLC

ReadKind  == "Read"
WriteKind == "Write"
FlushKind == "Flush"
UnmapKind == "Unmap"

\* The switch on OpSet[I].
KindOfChar == [c \in {"R", "r"} |-> ReadKind] @@ [c \in {"W", "w"} |-> WriteKind]
           @@ [c \in {"F", "f"} |-> FlushKind] @@ [c \in {"U", "u"} |-> UnmapKind]

\* The characters the loop looks at: I < 32 and OpSet[I] != L'\0' (the
\* sequence holds the characters before the terminating NUL).
Scanned(set) == SubSeq(set, 1, IF Len(set) < 32 THEN Len(set) ELSE 32)

ParseOpSet(set) ==
    LET kept == SelectSeq(Scanned(set), LAMBDA c : c \in DOMAIN KindOfChar)
    IN  IF kept = <<>> THEN <<WriteKind, ReadKind>>
                       ELSE [k \in 1..Len(kept) |-> KindOfChar[kept[k]]]
=============================================================================
