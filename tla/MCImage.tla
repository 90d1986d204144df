------------------------------- MODULE MCImage -------------------------------
(***************************************************************************)
(* A small instance of OciImage: a tree in which /usr2 begins like /usr;   *)
(* an erofs builder, a squashfs builder with excluded paths and one        *)
(* without verity data; two publishers of one tag and a reader.            *)
(***************************************************************************)
EXTENDS OciImage

CONSTANTS diff, base, extra, n1, n2, n3, n4, first, second

MCTree == {<<"usr">>, <<"usr", "bin">>, <<"usr2">>}
MCDirs == {<<"usr">>, <<"usr", "bin">>}
MCNameStarts == {<<"usr", "usr2">>}

MCKind == base :> "erofs" @@ diff :> "squashfs" @@ extra :> "squashfs"
MCUsed == base :> 5000 @@ diff :> 5000 @@ extra :> 8192
MCAddLayers == first :> <<base, diff>> @@ second :> <<extra>>

(* The names of the two packages begin differently.                        *)
MCImageNames == base :> {n3} @@ diff :> {n1, n2} @@ extra :> {n1, n2}

Symmetric == Permutations({n1, n2})
=============================================================================
