----------------------------- MODULE MCProgrammer -----------------------------
(* Two regions, one with sectors of two blocks, the other with an end that  *)
(* is no end of a sector (algo_extractor.cpp:232), a flash that is not      *)
(* blank, and files that meet the cases of parser and accessor.             *)
EXTENDS Programmer

Rec(type, a, data, value) ==
  [type |-> type, addr |-> a, data |-> data, value |-> value, ok |-> TRUE]
At(a, data) == Rec("data", a, data, 0)
Custom(a, data) == Rec("custom", a, data, 0)
Address(type, value) == Rec(type, 0, <<0, 0>>, value)
Eof == Rec("eof", 0, <<>>, 0)

(* In order, over the border of the regions, with gaps.                     *)
Ascending == <<At(0, <<1, 2>>), At(2, <<3>>), Rec("other", 0, <<>>, 0),
               Address("linear", 1), At(1, <<4, 5>>), Eof>>
(* More than the caller's buffer takes, a segment, and custom data.         *)
Long == <<Address("segment", 4), At(3, <<1, 2>>), Custom(5, <<3, 4>>), At(7, <<5>>), Eof>>
(* A sector left and entered again; an address given twice.                 *)
Back == <<At(1, <<1>>), At(0, <<2>>), At(1, <<3>>), At(4, <<4>>), At(2, <<5>>), Eof>>
(* A block left and entered again in its sector.                            *)
BackInSector == <<At(0, <<1>>), At(2, <<2>>), At(1, <<3>>), Eof>>
(* A sector to its end, then the second block of the next.                  *)
Gap == <<At(2, <<1, 2>>), At(6, <<3>>), Eof>>
(* A sector to its end, then the same one again.                            *)
Turn == <<At(2, <<1, 2>>), At(0, <<3>>), Eof>>
Bad == <<Address("linear", 1), At(0, <<1>>), [At(1, <<2>>) EXCEPT !.ok = FALSE], Eof>>
(* Two blocks of 28 characters, the first for another version.              *)
Version(v) == Rec("meta", 0, <<v>>, v)
Other == <<Version(1), At(0, <<1>>), Version(0), At(4, <<2>>), Eof>>
(* Data for another version that ends with the third block.                 *)
OtherLong == <<Version(1), At(0, <<1, 2, 3>>), At(3, <<1, 2>>), At(5, <<1, 2>>),
              At(0, <<1, 2, 3, 4>>), Version(0), At(4, <<2>>), Eof>>

(* A record that its line has no room for, and one that just fills it with  *)
(* an address.                                                              *)
TooLong == <<At(0, <<1>>), At(1, <<1, 2, 3, 4, 5>>), Eof>>
Wide == <<At(4, <<1>>), Rec("linear", 0, <<0, 0, 0, 0>>, 1), At(0, <<1>>), Eof>>

MCHexFiles == {Ascending, Long, Back, BackInSector, Gap, Turn, Bad, Other, OtherLong,
               TooLong, Wide}
MCUniversal == {Other, OtherLong}
MCBinFiles == {[addr |-> 0, data |-> <<1>>], [addr |-> 3, data |-> <<1, 2, 3, 4, 5, 6>>]}

MCAddresses == 0 .. 15
MCBytes == 0 .. 7
MCSectors == <<[start |-> 0, size |-> 4], [start |-> 8, size |-> 2]>>
MCRegions == <<[start |-> 0, end |-> 7, default |-> FALSE, algo |-> "a"],
               [start |-> 8, end |-> 14, default |-> TRUE, algo |-> "b"]>>
MCAlgorithms == {"a", "b"}
MCBufferSize == [x \in MCAlgorithms |-> IF x = "a" THEN 1 ELSE 3]
MCHasVerify == {"b"}
MCBlank == [a \in MCAddresses |-> 7]

MCStreamBlocks == {5, 9}

=============================================================================
