----------------------------- MODULE MCPetitFat -----------------------------
(* Instance of PetitFat: a volume without partitions, two FATs and clusters *)
(* of one sector, one in a partition with clusters of two sectors, and one  *)
(* whose file ends too early in the FAT; directories and files over several *)
(* clusters that are not in order.                                          *)
EXTENDS PetitFat, TLC

mcSfn == ("a" :> "A") @@ ("A" :> "A") @@ ("d" :> "D") @@ ("b" :> "B") @@ ("x" :> "X")
mcPaths == {<<>>, <<"a">>, <<"A">>, <<"d">>, <<"d", "b">>, <<"a", "b">>, <<"x">>}

Label == Entry("L", "vol", 0, 0)
Deleted == Entry("deleted", "file", 3, 1)

Small ==
  [mbr |-> FALSE, type |-> "FAT32", rsvd |-> 2, fats |-> 2, csize |-> 1, root |-> 2,
   fat |-> (2 :> 5) @@ (3 :> 6) @@ (4 :> 7) @@ (5 :> EOC) @@ (6 :> EOC) @@ (7 :> EOC) @@ (8 :> EOC),
   dirs |-> (2 :> <<Label, Entry("D", "dir", 4, 0)>>) @@ (5 :> <<Entry("A", "file", 3, 3)>>)
            @@ (4 :> <<Entry(".", "dir", 4, 0), Deleted>>) @@ (7 :> <<Entry("B", "file", 8, 1)>>),
   files |-> (<<"A">> :> [chain |-> <<3, 6>>, size |-> 3])
             @@ (<<"D", "B">> :> [chain |-> <<8>>, size |-> 1]),
   list |-> (<<>> :> <<"D", "A">>) @@ (<<"D">> :> <<"B">>)]

Large ==
  [mbr |-> TRUE, type |-> "FAT32", rsvd |-> 1, fats |-> 1, csize |-> 2, root |-> 3,
   fat |-> (2 :> 5) @@ (3 :> EOC) @@ (4 :> 2) @@ (5 :> EOC),
   dirs |-> (3 :> <<Label, Deleted, Entry("A", "file", 4, 10)>>),
   files |-> (<<"A">> :> [chain |-> <<4, 2, 5>>, size |-> 10]),
   list |-> (<<>> :> <<"A">>)]

Broken == [Large EXCEPT !.fat[2] = 0, !.fats = 2]
Foreign == [Small EXCEPT !.type = "NTFS"]

mcVolumes == {Small, Large, Broken, Foreign}
=============================================================================
