------------------------------ MODULE PetitFat ------------------------------
(***************************************************************************)
(* Petit FatFs as the bootloader uses it (sw/bootloader/petit_fatfs):      *)
(* disk_initialize and disk_readp of diskio.c, and of pff.c mounting,      *)
(* opening, reading, seeking and listing a directory, with FAT32.  (Seek   *)
(* and listing are switched off in pffconf.h as delivered, writing too; it *)
(* is not modelled.)                                                       *)
(*                                                                         *)
(* A medium is a sequence of sectors, put together by Format the way a FAT *)
(* volume is laid out.  A sector has SS units of a file instead of 512     *)
(* bytes, EPS entries of the FAT instead of 128 and DPS directory entries  *)
(* instead of 16.  Each access to the card may fail.                       *)
(***************************************************************************)
EXTENDS Integers, Sequences, FiniteSets

CONSTANTS
  Volumes,      \* descriptions of volumes, see Format
  Cards,        \* kinds of cards: {"SDHC", "SD2", "SD1", "MMC", "none"}
  Paths,        \* sequences of names, to be opened
  Sfn,          \* create_name: from path components to 8.3 names
  Lengths       \* how much a call reads

SS == 2
EPS == 4
DPS == 2
MinFat32 == 4           \* 0xFFF7: fewer clusters are not FAT32
EOC == 99               \* end of chain: any number beyond the clusters

VARIABLES
  volume,               \* the description of the medium; never changes
  card, CardType,       \* what is inserted, and what diskio.c takes it for
  fs,                   \* FATFS, and for the properties the path of the file
  dj,                   \* DIR, and for the properties its path and the names listed
  call,                 \* the call in progress, with its locals
  ret                   \* history: the last call that returned and its result

vars == <<volume, card, CardType, fs, dj, call, ret>>

-----------------------------------------------------------------------------
(* The medium.  A volume v has reserved sectors, copies of the FAT, and    *)
(* clusters 2 .. n + 1 of csize sectors; v.fat is the chain of clusters,   *)
(* v.dirs gives the entries of directory clusters.                         *)
Entry(name, attr, clust, size) == [name |-> name, attr |-> attr, clust |-> clust, size |-> size]
EndEntry == Entry("end", "file", 0, 0)

Clusters(v) == DOMAIN v.fat

DataSector(v, c, s) ==
  IF c \in DOMAIN v.dirs
    THEN [k \in 0 .. DPS - 1 |-> IF s * DPS + k < Len(v.dirs[c]) THEN v.dirs[c][s * DPS + k + 1]
                                 ELSE EndEntry]
    ELSE [k \in 0 .. SS - 1 |-> <<c, s, k>>]

FatSectors(v) == (Cardinality(Clusters(v)) + 2 + EPS - 1) \div EPS
FatSector(v, i) == [k \in 0 .. EPS - 1 |->
                      IF i * EPS + k \in Clusters(v) THEN v.fat[i * EPS + k] ELSE EOC]

Format(v) ==
  LET n == Cardinality(Clusters(v))
      total == v.rsvd + v.fats * FatSectors(v) + n * v.csize
      boot == [sig |-> TRUE, type |-> v.type, part |-> 0, rsvd |-> v.rsvd, fats |-> v.fats,
               fatsz |-> FatSectors(v), csize |-> v.csize, total |-> total, root |-> v.root]
      mbr == [boot EXCEPT !.type = "none", !.part = 1]
  IN  (IF v.mbr THEN <<mbr>> ELSE <<>>) \o <<boot>>
      \o [i \in 1 .. v.rsvd - 1 |-> [boot EXCEPT !.sig = FALSE]]
      \o [i \in 1 .. v.fats * FatSectors(v) |-> FatSector(v, (i - 1) % FatSectors(v))]
      \o [i \in 1 .. n * v.csize |-> DataSector(v, 2 + (i - 1) \div v.csize, (i - 1) % v.csize)]

-----------------------------------------------------------------------------
(* diskio.c.  Response of a card to a command, as send_cmd returns it; an  *)
(* ACMD is refused if its prefix CMD55 is.                                 *)
send_cmd(c, ready, cmd) ==
  CASE c = "none"                    -> 255
    [] cmd = "CMD0"                  -> 1
    [] cmd = "CMD8"                  -> IF c \in {"SDHC", "SD2"} THEN 1 ELSE 5
    [] cmd = "ACMD41" /\ c = "MMC"   -> 5
    [] cmd \in {"ACMD41", "CMD1"}    -> IF ready THEN 0 ELSE 1
    [] cmd \in {"CMD58", "CMD16"}    -> 0

\* ready: the card leaves the idle state before the time-out of 10000 polls.
disk_initialize(c, ready) ==
  IF send_cmd(c, ready, "CMD0") # 1 THEN {}
  ELSE IF send_cmd(c, ready, "CMD8") = 1
    THEN IF send_cmd(c, ready, "ACMD41") # 0 \/ send_cmd(c, ready, "CMD58") # 0 THEN {}
         ELSE IF c = "SDHC" THEN {"CT_SD2", "CT_BLOCK"} ELSE {"CT_SD2"}
  ELSE LET ty  == IF send_cmd(c, ready, "ACMD41") <= 1 THEN "CT_SD1" ELSE "CT_MMC"
           cmd == IF ty = "CT_SD1" THEN "ACMD41" ELSE "CMD1"
       IN  IF send_cmd(c, ready, cmd) # 0 \/ send_cmd(c, ready, "CMD16") # 0 THEN {} ELSE {ty}

\* The sector that the card delivers: only SDHC cards take sector numbers.
Address(sector) == IF "CT_BLOCK" \in CardType THEN sector ELSE 512 * sector
Delivered(sector) == IF card = "SDHC" THEN Address(sector) ELSE Address(sector) \div 512

Disk == Format(volume)
disk_readp(sector) == Disk[Delivered(sector) + 1]

-----------------------------------------------------------------------------
Clust(c) == c \in 2 .. fs.n_fatent - 1
get_fat(c) == IF Clust(c) THEN disk_readp(fs.fatbase + c \div EPS)[c % EPS] ELSE 1
clust2sect(c) == IF Clust(c) THEN (c - 2) * fs.csize + fs.database ELSE 0

NoFs == [mounted |-> FALSE, opened |-> FALSE, fatbase |-> 0, csize |-> 1, n_fatent |-> 2,
         dirbase |-> 0, database |-> 0, fptr |-> 0, fsize |-> 0, org |-> 0, curr |-> 0, dsect |-> 0,
         path |-> <<>>]
NoDir == [sclust |-> 0, clust |-> 0, sect |-> 0, index |-> 0, path |-> <<>>, listed |-> <<>>]
NoCall == [op |-> "none"]

Init == /\ volume \in Volumes
        /\ card \in Cards
        /\ CardType = {}
        /\ fs = NoFs /\ dj = NoDir /\ call = NoCall
        /\ ret = [op |-> "none"]

Return(r) == call' = NoCall /\ ret' = r

\* ABORT: the file is closed, too.
Abort(r) == fs' = [fs EXCEPT !.opened = FALSE] /\ Return(r)

\* check_fs
IsFs(sector) == disk_readp(sector).sig /\ disk_readp(sector).type = "FAT32"

(* pf_mount: the volume starts in sector 0 or in the first partition.      *)
Layout(b, bsect) ==
  LET fsize == b.fats * b.fatsz
      clusters == (b.total - b.rsvd - fsize) \div b.csize
  IN  [NoFs EXCEPT !.mounted = clusters + 2 >= MinFat32,
                   !.fatbase = bsect + b.rsvd, !.csize = b.csize,
                   !.n_fatent = clusters + 2, !.dirbase = b.root,
                   !.database = bsect + b.rsvd + fsize]

Initialize ==                   \* disk_initialize
  /\ call = NoCall /\ ~fs.mounted
  /\ \E ready \in BOOLEAN : CardType' = disk_initialize(card, ready)
  /\ call' = [op |-> "mount"]
  /\ UNCHANGED <<volume, card, fs, dj, ret>>

pf_mount ==
  /\ call = [op |-> "mount"]
  /\ LET bsect == IF disk_readp(0).type = "none" THEN disk_readp(0).part ELSE 0 IN
       \/ fs' = NoFs /\ Return([op |-> "mount", ok |-> FALSE])      \* not ready, or a failing read
       \/ /\ CardType # {} /\ IsFs(bsect)
          /\ fs' = Layout(disk_readp(bsect), bsect)
          /\ Return([op |-> "mount", ok |-> fs'.mounted])
  /\ UNCHANGED <<volume, card, CardType, dj>>

-----------------------------------------------------------------------------
(* Directories.  dir_rewind and dir_next give the new DIR and a result.    *)
dir_rewind(d) ==
  LET c == IF d.sclust = 0 THEN fs.dirbase ELSE d.sclust
  IN  [d EXCEPT !.index = 0, !.clust = c, !.sect = clust2sect(c)]

CanRewind(d) == d.sclust # 1 /\ d.sclust < fs.n_fatent

DirEntry(d) == disk_readp(d.sect)[d.index % DPS]

\* At the end of a cluster the chain is followed; note the sector at its end.
dir_next(d, failing) ==
  LET i == d.index + 1
      c == IF failing THEN 1 ELSE get_fat(d.clust)
  IN  IF i % DPS # 0 THEN [res |-> "OK", dir |-> [d EXCEPT !.index = i]]
      ELSE IF (i \div DPS) % fs.csize # 0
        THEN [res |-> "OK", dir |-> [d EXCEPT !.index = i, !.sect = @ + 1]]
      ELSE IF c <= 1 THEN [res |-> "DISK_ERR", dir |-> [d EXCEPT !.sect = @ + 1]]
      ELSE IF c >= fs.n_fatent THEN [res |-> "NO_FILE", dir |-> [d EXCEPT !.sect = @ + 1]]
      ELSE [res |-> "OK", dir |-> [d EXCEPT !.index = i, !.clust = c, !.sect = clust2sect(c)]]

Opened(ok, err) == [op |-> call.op, path |-> call.path, ok |-> ok, err |-> err]

\* pf_open and pf_opendir: the path is followed from the root.
Open(op) ==
  /\ call = NoCall /\ fs.mounted
  /\ \E p \in Paths : call' = [op |-> op, path |-> p, rest |-> p, rewind |-> TRUE]
  /\ dj' = NoDir
  /\ fs' = IF op = "open" THEN [fs EXCEPT !.opened = FALSE] ELSE fs
  /\ UNCHANGED <<volume, card, CardType, ret>>

Following == call.op \in {"open", "opendir"}

\* Rewind for the next component.  After the last one of opendir, and for the
\* root itself, the search is over.
FollowRewind ==
  /\ Following /\ call.rewind
  /\ IF ~CanRewind(dj) THEN dj' = dj /\ Return(Opened(FALSE, TRUE))
     ELSE /\ dj' = dir_rewind(dj)
          /\ IF call.rest # <<>> THEN call' = [call EXCEPT !.rewind = FALSE] /\ UNCHANGED ret
             ELSE Return(Opened(call.op = "opendir", FALSE))
  /\ UNCHANGED <<volume, card, CardType, fs>>

\* dir_find has come to the entry of this component, e.
Found(e) ==
  IF Len(call.rest) > 1
    THEN IF e.attr # "dir" THEN Return(Opened(FALSE, FALSE)) /\ UNCHANGED <<fs, dj>>
         ELSE /\ dj' = [dj EXCEPT !.sclust = e.clust]
              /\ call' = [call EXCEPT !.rest = Tail(@), !.rewind = TRUE]
              /\ UNCHANGED <<fs, ret>>
  ELSE IF (e.attr = "dir") # (call.op = "opendir")
    THEN Return(Opened(FALSE, FALSE)) /\ UNCHANGED <<fs, dj>>
  ELSE IF call.op = "opendir"
    THEN /\ dj' = [dj EXCEPT !.sclust = e.clust, !.path = call.path]
         /\ call' = [call EXCEPT !.rest = <<>>, !.rewind = TRUE]
         /\ UNCHANGED <<fs, ret>>
  ELSE /\ fs' = [fs EXCEPT !.org = e.clust, !.fsize = e.size, !.fptr = 0, !.opened = TRUE,
                           !.path = call.path]
       /\ Return(Opened(TRUE, FALSE)) /\ UNCHANGED dj

DirFind ==
  /\ Following /\ ~call.rewind
  /\ LET e == DirEntry(dj) IN
       \/ Return(Opened(FALSE, TRUE)) /\ UNCHANGED <<fs, dj>>          \* a failing read
       \/ /\ e.name = "end"
          /\ Return(Opened(FALSE, FALSE)) /\ UNCHANGED <<fs, dj>>
       \/ /\ e.name # "end" /\ e.attr # "vol" /\ e.name = Sfn[Head(call.rest)]
          /\ Found(e)
       \/ /\ e.name # "end" /\ (e.attr = "vol" \/ e.name # Sfn[Head(call.rest)])
          /\ \E failing \in BOOLEAN :
               LET n == dir_next(dj, failing) IN
               /\ dj' = n.dir
               /\ IF n.res = "OK" THEN UNCHANGED <<call, ret>>
                  ELSE Return(Opened(FALSE, n.res = "DISK_ERR"))
          /\ UNCHANGED fs
  /\ UNCHANGED <<volume, card, CardType>>

\* pf_readdir: on to the next entry that is in use.  done: the end was reached.
Listed(ok, done) == [op |-> "readdir", ok |-> ok, done |-> done]

Live_all(e) == e.attr # "vol"           \* Mutant: deleted entries are not skipped

Live(e) == e.name \notin {"deleted", "."} /\ e.attr # "vol"

ReadDir ==
  /\ call = NoCall /\ fs.mounted /\ dj.sect # 0 /\ ret.op \in {"opendir", "readdir"} /\ ret.ok
  /\ call' = [op |-> "readdir"]
  /\ UNCHANGED <<volume, card, CardType, fs, dj, ret>>

DirRead ==
  /\ call = [op |-> "readdir"]
  /\ LET e == DirEntry(dj) IN
       \/ dj' = [dj EXCEPT !.sect = 0] /\ Return(Listed(FALSE, FALSE))  \* a failing read
       \/ e.name = "end" /\ dj' = [dj EXCEPT !.sect = 0] /\ Return(Listed(TRUE, TRUE))
       \/ /\ e.name # "end"
          /\ \E failing \in BOOLEAN :
               LET n == dir_next(dj, failing) IN
               IF Live(e)
                 THEN /\ dj' = [n.dir EXCEPT !.listed = Append(@, e.name)]
                      /\ Return(Listed(n.res # "DISK_ERR", FALSE))
                 ELSE IF n.res = "OK" THEN dj' = n.dir /\ UNCHANGED <<call, ret>>
                 ELSE dj' = [n.dir EXCEPT !.sect = 0] /\ Return(Listed(n.res = "NO_FILE", TRUE))
  /\ UNCHANGED <<volume, card, CardType, fs>>

-----------------------------------------------------------------------------
(* pf_read and pf_lseek.                                                   *)
Lesser(a, b) == IF a < b THEN a ELSE b
bcs == fs.csize * SS

Read ==
  /\ call = NoCall /\ fs.opened
  /\ \E n \in Lengths :
       call' = [op |-> "read", n |-> n, from |-> fs.fptr, units |-> <<>>,
                btr |-> Lesser(n, fs.fsize - fs.fptr)]
  /\ UNCHANGED <<volume, card, CardType, fs, dj, ret>>

ReadReturn(ok) == [op |-> "read", from |-> call.from, n |-> call.n, units |-> call.units, ok |-> ok]

\* The cluster to read from when fptr is at the beginning of a sector.
Current(failing) ==
  IF fs.fptr % bcs # 0 THEN fs.curr
  ELSE IF fs.fptr = 0 THEN fs.org
  ELSE IF failing THEN 1 ELSE get_fat(fs.curr)

ReadSector ==
  /\ call.op = "read" /\ call.btr > 0
  /\ \E failing \in SUBSET {"fat", "data"} :
       LET start == fs.fptr % SS = 0
           c     == IF start THEN Current("fat" \in failing) ELSE fs.curr
           dsect == IF start THEN clust2sect(c) + ((fs.fptr \div SS) % fs.csize) ELSE fs.dsect
           rcnt  == Lesser(SS - (fs.fptr % SS), call.btr)
       IN  IF (start /\ ~Clust(c)) \/ "data" \in failing
             THEN /\ fs' = [fs EXCEPT !.opened = FALSE]
                  /\ Return(ReadReturn(FALSE))
             ELSE /\ fs' = [fs EXCEPT !.curr = c, !.dsect = dsect, !.fptr = @ + rcnt]
                  /\ call' = [call EXCEPT !.btr = @ - rcnt, !.units =
                       @ \o [k \in 1 .. rcnt |-> disk_readp(dsect)[(fs.fptr % SS) + k - 1]]]
                  /\ UNCHANGED ret
  /\ UNCHANGED <<volume, card, CardType, dj>>

ReadEnd ==
  /\ call.op = "read" /\ call.btr = 0
  /\ Return(ReadReturn(TRUE))
  /\ UNCHANGED <<volume, card, CardType, fs, dj>>

Seek_keep ==                    \* Mutant: always starts from the current cluster
  /\ call = NoCall /\ fs.opened
  /\ \E to \in 0 .. fs.fsize + 1 :
       LET ofs == Lesser(to, fs.fsize)
           here == fs.fptr > 0 /\ ofs > 0
           base == IF here THEN ((fs.fptr - 1) \div bcs) * bcs ELSE 0
       IN  /\ call' = [op |-> "seek", to |-> ofs, ofs |-> ofs - base]
           /\ fs' = [fs EXCEPT !.fptr = base, !.curr = IF here \/ ofs = 0 THEN @ ELSE fs.org]
  /\ UNCHANGED <<volume, card, CardType, dj, ret>>

\* Seek starts at the beginning of the current cluster if the target is not before it.
Seek ==
  /\ call = NoCall /\ fs.opened
  /\ \E to \in 0 .. fs.fsize + 1 :
       LET ofs == Lesser(to, fs.fsize)
           here == fs.fptr > 0 /\ ofs > 0 /\ (ofs - 1) \div bcs >= (fs.fptr - 1) \div bcs
           base == IF here THEN ((fs.fptr - 1) \div bcs) * bcs ELSE 0
       IN  /\ call' = [op |-> "seek", to |-> ofs, ofs |-> ofs - base]
           /\ fs' = [fs EXCEPT !.fptr = base, !.curr = IF here \/ ofs = 0 THEN @ ELSE fs.org]
  /\ UNCHANGED <<volume, card, CardType, dj, ret>>

SeekCluster ==
  /\ call.op = "seek"
  /\ \E failing \in BOOLEAN :
       LET c == IF failing THEN 1 ELSE get_fat(fs.curr) IN
       IF call.ofs <= bcs
         THEN IF call.ofs > 0 /\ ~Clust(fs.curr)
                THEN Abort([op |-> "seek", ok |-> FALSE])
                ELSE /\ fs' = [fs EXCEPT !.fptr = @ + call.ofs,
                          !.dsect = IF call.ofs = 0 THEN @ ELSE
                             clust2sect(fs.curr) + (((fs.fptr + call.ofs) \div SS) % fs.csize)]
                     /\ Return([op |-> "seek", ok |-> TRUE])
         ELSE IF ~Clust(c) THEN Abort([op |-> "seek", ok |-> FALSE])
         ELSE /\ fs' = [fs EXCEPT !.curr = c, !.fptr = @ + bcs]
              /\ call' = [call EXCEPT !.ofs = @ - bcs]
              /\ UNCHANGED ret
  /\ UNCHANGED <<volume, card, CardType, dj>>

-----------------------------------------------------------------------------
Next == \/ Initialize \/ pf_mount
        \/ Open("open") \/ Open("opendir") \/ FollowRewind \/ DirFind
        \/ ReadDir \/ DirRead \/ Read \/ ReadSector \/ ReadEnd \/ Seek \/ SeekCluster

Spec == Init /\ [][Next]_vars

-----------------------------------------------------------------------------
(* What the description of the volume says, without looking at sectors.    *)
Names(p) == [i \in DOMAIN p |-> Sfn[p[i]]]
FileAt(p) == volume.files[Names(p)]
IsFile(p) == Names(p) \in DOMAIN volume.files

ChainUnits(chain) ==
  [i \in 1 .. Len(chain) * volume.csize * SS |->
     <<chain[(i - 1) \div (volume.csize * SS) + 1], ((i - 1) \div SS) % volume.csize, (i - 1) % SS>>]

Content(p) == SubSeq(ChainUnits(FileAt(p).chain), 1, FileAt(p).size)

\* Opening succeeds for exactly the files of the volume, unless the card fails,
\* and finds their size; and whatever was read or sought before, a read delivers
\* the units that follow the file position, all of them unless the card fails.
ReadsContent ==
  call = NoCall =>
    /\ ret.op = "open" /\ ~ret.err =>
         /\ ret.ok = IsFile(ret.path)
         /\ ret.ok => fs.fsize = FileAt(ret.path).size
    /\ ret.op = "read" => LET want == Content(fs.path) IN
         /\ ret.units = SubSeq(want, ret.from + 1, ret.from + Len(ret.units))
         /\ ret.ok => Len(ret.units) = Lesser(ret.n, Len(want) - ret.from)

\* A listing names the entries in use, in order, and ends after the last one.
ListsDirectory ==
  ret.op = "readdir" /\ call = NoCall =>
    LET live == volume.list[Names(dj.path)]
    IN  /\ dj.listed = SubSeq(live, 1, Len(dj.listed))
        /\ ret.ok /\ ret.done => dj.listed = live

-----------------------------------------------------------------------------
(* Names of pff.c: from a path to the name as a directory holds it, and    *)
(* back.  Above a path is a sequence of names, and Sfn looks them up; here *)
(* it is a sequence of characters.  Body and extension have two of them    *)
(* rather than eight and three, and no padding.  "end" is any character up *)
(* to the space; a directory writes a leading "E5", which marks a deleted  *)
(* entry, as "05".                                                         *)
BodyLength == 2
ExtLength == 2

toupper(c) == IF c = "a" THEN "A" ELSE IF c = "b" THEN "B" ELSE c

\* Picks a segment of a path that has an end; what follows its end is the rest.
create_name(path) ==
  LET Segment[p \in Seq(STRING), body \in Seq(STRING), ext \in Seq(STRING), dot \in BOOLEAN] ==
        LET c == Head(p)
            full == IF dot THEN Len(ext) = ExtLength ELSE Len(body) = BodyLength
        IN CASE c = "." /\ ~dot -> Segment[Tail(p), body, ext, TRUE]
             [] c \notin {"end", "/", "."} /\ ~full /\ ~dot ->
                  Segment[Tail(p), Append(body, toupper(c)), ext, FALSE]
             [] c \notin {"end", "/", "."} /\ ~full /\ dot ->
                  Segment[Tail(p), body, Append(ext, toupper(c)), TRUE]
             [] OTHER -> [fn |-> <<body, ext>>, last |-> c = "end", path |-> Tail(p)]
  IN Segment[path, <<>>, <<>>, FALSE]

get_fileinfo(name) ==
  LET body == [i \in 1 .. Len(name[1]) |-> IF name[1][i] = "05" THEN "E5" ELSE name[1][i]]
  IN body \o (IF name[2] = <<>> THEN <<>> ELSE <<".">> \o name[2])

-----------------------------------------------------------------------------
Words(chars, longest) == UNION {[1 .. n -> chars] : n \in 0 .. longest}

\* Names a directory may hold, and names as users write them.
Entries == {<<body, ext>> : body \in Words({"A", "B", "E5"}, BodyLength) \ {<<>>},
                            ext \in Words({"A", "B"}, ExtLength)}
Stored(name) == IF name[1][1] = "E5" THEN <<<<"05">> \o Tail(name[1]), name[2]>> ELSE name
Typed(text) == [i \in 1 .. Len(text) |-> IF text[i] = "A" THEN "a" ELSE text[i]]

\* A listed name finds its entry, in either case of letters, at the end of a
\* path or before a further segment; but not if it begins with "E5", which is
\* listed translated and looked for as it is.
ASSUME ListedNamesAreFound ==
  \A name \in Entries :
    LET text == get_fileinfo(Stored(name))
        found == name[1][1] # "E5" IN
    /\ (create_name(text \o <<"end">>).fn = Stored(name)) <=> found
    /\ found =>
         /\ create_name(Typed(text) \o <<"end">>)
              = [fn |-> Stored(name), last |-> TRUE, path |-> <<>>]
         /\ create_name(text \o <<"/", "A", "end">>)
              = [fn |-> Stored(name), last |-> FALSE, path |-> <<"A", "end">>]

\* Different names are listed differently.
ASSUME ListedNamesDiffer ==
  \A a \in Entries, b \in Entries : get_fileinfo(Stored(a)) = get_fileinfo(Stored(b)) => a = b

\* A segment that is too long is not refused: it is taken for a directory of its
\* first characters, the next character is lost, and the rest is looked for in it.
ASSUME LongNamesAreSplit ==
  \A body \in [1 .. BodyLength -> {"A", "B"}], rest \in Words({"A", "B"}, 2) :
    create_name(body \o <<"A">> \o rest \o <<"end">>)
      = [fn |-> <<body, <<>>>>, last |-> FALSE, path |-> rest \o <<"end">>]
=============================================================================
