----------------------------- MODULE MCExtract -----------------------------
(***************************************************************************)
(* Small instances of ExtractPolicy: four calls of one process that may    *)
(* fail at any step, and processes that share a directory.                 *)
(***************************************************************************)
EXTENDS ExtractPolicy, TLC

CONSTANTS c1, c2, c3, c4

(* c4 is in another process, where nothing is installed.                   *)
FourCallers == [c \in Callers |-> IF c = c4 THEN "y" ELSE "x"]
TwoCallers  == [c \in Callers |-> IF c = c2 THEN "y" ELSE "x"]

TwoDirs == [c \in Callers |-> IF c = c3 THEN "e" ELSE "d"]
OneDir  == [c \in Callers |-> "d"]

AllKinds   == "x" :> <<"kmount", "fuse", "unpack">> @@ "y" :> << >>
OnlyUnpack == [x \in Policies |-> <<"unpack">>]

AnyStep == {"mkdir", "look", "mount", "unpack", "unpacking", "removeAll"}
=============================================================================
