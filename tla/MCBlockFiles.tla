---------------------------- MODULE MCBlockFiles ----------------------------
(***************************************************************************)
(* Blocks of up to three series on a machine with 4-bit groups and 16-bit  *)
(* words, a segment size that holds two small chunks or one large one.     *)
(***************************************************************************)
EXTENDS BlockFiles

C(id, length, lo, hi) == [data |-> id, len |-> length, num |-> 2, min |-> lo, max |-> hi]

Series(ls, cs) == [labels |-> ls, chunks |-> cs]

(* No series; one without chunks; chunks that overlap and go back in time; *)
(* times at both ends of the range; labels that share names and values; a  *)
(* chunk longer than a segment; an empty label value.                      *)
Inputs ==
    { <<>>,
      <<Series(<<<<1, 2>>>>, <<>>), Series(<<<<1, 3>>>>, <<C(1, 4, 0, 5)>>)>>,
      <<Series(<<<<1, 4>>, <<3, 2>>>>, <<C(1, 4, 0, 5), C(2, 9, 5, 9), C(3, 4, 3, 4)>>),
        Series(<<<<1, 4>>, <<3, 5>>>>, <<C(4, 40, -32768, 32767), C(5, 4, -32768, -32768)>>)>>,
      <<Series(<<<<1, 1>>>>, <<C(1, 9, -5, -1)>>),
        Series(<<<<1, 0>>, <<2, 1>>>>, <<C(2, 8, 0, 0), C(3, 7, 1, 1)>>),
        Series(<<<<2, 1>>, <<4, 5>>>>, <<C(4, 9, 30000, 32767)>>)>> }

Sizes == <<3, 9, 1, 2, 5>> @@ (0 :> 0)
=============================================================================
