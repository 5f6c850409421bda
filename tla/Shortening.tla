------------------------------ MODULE Shortening ------------------------------
(***************************************************************************)
(* Texts that are shortened in their middle: the names of files in an      *)
(* answer of json_server, and the data of a read in a line of the log.     *)
(*                                                                         *)
(* The code does not look at the characters; which of them the log prints  *)
(* as numbers is left out.                                                 *)
(***************************************************************************)
EXTENDS Integers, Sequences

(* What stands for the middle: "..." in a name, " ... " in the log.        *)
Gap(n) == [i \in 1 .. n |-> 0]

Begin(text, n) == SubSeq(text, 1, n)
From(text, n) == SubSeq(text, n + 1, Len(text))

(* Mutant: the right part is one character too long.                       *)
shown_name_Long(file, max) ==
  LET middle == Len(file) \div 2
      left == middle + (max \div 2 - middle - 2)
      right == middle + (Len(file) - middle - max \div 2)
  IN  IF Len(file) > max THEN Begin(file, left) \o Gap(3) \o From(file, right) ELSE file

(* my_session::on_message of json_server, for a max_length of 4 or more.   *)
(* Below, left is in front of the name and std::string is made of a range  *)
(* that ends before it begins.                                             *)
shown_name(file, max) ==
  LET middle == Len(file) \div 2
      left == middle + (max \div 2 - middle - 2)
      right == middle + (Len(file) - middle - max \div 2 + 1)
  IN  IF Len(file) > max THEN Begin(file, left) \o Gap(3) \o From(file, right) ELSE file

(* log_interface::reduce.                                                  *)
reduce(data) ==
  IF Len(data) < 2 * 10 + 5 THEN data
  ELSE Begin(data, 10) \o Gap(5) \o From(data, Len(data) - 11 + 1)

-----------------------------------------------------------------------------
(* short is the text's first l and last r characters, which do not overlap *)
(* in it, around a gap.                                                    *)
KeepsEnds(short, text, l, gap, r) ==
  /\ l >= 0 /\ r >= 0 /\ l + r <= Len(text)
  /\ Len(short) = l + gap + r
  /\ \A i \in 1 .. l : short[i] = text[i]
  /\ \A i \in 1 .. r : short[l + gap + i] = text[Len(text) - r + i]

(* A name in the answer of json_server fits the max_length of the client,  *)
(* to within one, and keeps both ends of the file's name: whether lengths  *)
(* are odd or even, the halves fit together.                               *)
NameFits(file, max) ==
  LET short == shown_name(file, max) IN
  \/ Len(file) <= max /\ short = file
  \/ /\ Len(file) > max /\ Len(short) \in {max - 1, max}
     /\ \E l, r \in 0 .. max : r = l + 1 /\ KeepsEnds(short, file, l, 3, r)

(* The log shows the data of a read whole, or its first and last ten bytes *)
(* in a line that is no longer than the data: no byte of the ends is lost  *)
(* or shown twice.                                                         *)
DataShown(data) ==
  LET short == reduce(data) IN
  \/ Len(data) < 25 /\ short = data
  \/ Len(data) >= 25 /\ Len(short) <= Len(data) /\ KeepsEnds(short, data, 10, 5, 10)
=============================================================================
