--------------------------- MODULE OrderedStream ---------------------------
(***************************************************************************)
(* What each direction of the ASGI bridge promises: what the reader has got *)
(* is, item by item, the beginning of what the writer has handed over.      *)
(* Nothing is lost in between, duplicated or reordered; the stream may be   *)
(* cut off anywhere.                                                        *)
(***************************************************************************)
EXTENDS Naturals, Sequences

CONSTANT Items

VARIABLES written, read

\* The writer may have left a first item before the reader exists.
Init == /\ read = <<>>
        /\ written = <<>> \/ \E x \in Items : written = <<x>>

Write == /\ \E x \in Items : written' = Append(written, x)
         /\ UNCHANGED read

Read == /\ Len(read) < Len(written)
        /\ read' = Append(read, written[Len(read) + 1])
        /\ UNCHANGED written

Spec == Init /\ [][Write \/ Read]_<<written, read>>
=============================================================================
