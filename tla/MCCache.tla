------------------------------ MODULE MCCache -------------------------------
(***************************************************************************)
(* Constants for CacheSystem: two blocks.  Two cached addresses share a    *)
(* block, the word at one of them has two versions; one has the other      *)
(* block; one is not cached.                                               *)
(***************************************************************************)
EXTENDS CacheSystem

Addr(tag, idx, ofs) == [tag |-> tag, idx |-> idx, ofs |-> ofs]
Read(a)  == [addr |-> a, rw |-> FALSE, amo |-> FALSE, version |-> 0]
Write(a) == [addr |-> a, rw |-> TRUE, amo |-> FALSE, version |-> 0]
Swap(a)  == [addr |-> a, rw |-> TRUE, amo |-> TRUE, version |-> 1]

Watched == Addr("t1", 0, BLOCK - 1)
Rival   == Addr("t2", 0, 0)
MCAccesses == {Read(Watched), Write(Watched), Swap(Watched),
               Read(Rival), Write(Rival),
               Write(Addr("t1", 1, 0)), Read(Addr("u", 0, 0))}
MCJunk == Word(Addr("none", 0, 0), 0)
=============================================================================
