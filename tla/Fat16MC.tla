------------------------------ MODULE Fat16MC ------------------------------
(***************************************************************************)
(* Small drives for Fat16: one partition table entry holds the volume, a   *)
(* file of up to three clusters lies anywhere among four, and the root     *)
(* directory holds other entries before it.                                *)
(***************************************************************************)
EXTENDS Fat16, TLC

CONSTANT RootLength,   \* clusters the root directory takes
         Kernel, Other \* stems of file names

Name(stem) == [stem |-> stem, last |-> "x"]

(* A name that the search does not tell from Name(Kernel). *)
AlikeName == [stem |-> Kernel, last |-> "y"]

MCNames == {Name(Kernel), AlikeName, Name(Other)}

(* The file's clusters in order, without repetition. *)
Chains == {c \in UNION {[1 .. n -> 2 .. 5] : n \in 0 .. 3} :
             \A j, k \in DOMAIN c : c[j] = c[k] => j = k}

(* Sizes that end in a file's last cluster. *)
Sizes(chain, clusterSize) ==
  IF chain = <<>> THEN {0}
  ELSE {(Len(chain) - 1) * clusterSize + 1, Len(chain) * clusterSize}

(* Before the file come a deleted entry of its name, or a subdirectory or  *)
(* the volume's label which bears it, a long name, other files and         *)
(* directories; behind it may come one whose name is nearly the same.      *)
Root(at, before, alike, chain, size) ==
  LET first == IF chain = <<>> THEN 0 ELSE chain[1]
      file(name, start, sz) == [kind |-> "file", name |-> name, start |-> start, size |-> sz]
  IN  [k \in 0 .. at + 1 |->
        IF k = at + 1
        THEN file(IF alike THEN AlikeName ELSE [stem |-> k, last |-> "x"], 5, 1)
        ELSE IF k = at THEN file(Name(Kernel), first, size)
        ELSE LET kind == IF k = 0 THEN before ELSE <<"long", "file", "dir", "unused">>[(k % 4) + 1]
             IN  [kind  |-> kind,
                  name  |-> IF k > 0 /\ kind \in {"file", "dir"} THEN [stem |-> k, last |-> "x"]
                            ELSE Name(Kernel),
                  start |-> IF kind = "volume" THEN 0 ELSE 5,
                  size  |-> IF kind \in {"dir", "volume"} THEN 0 ELSE 1]]

(* Where the file's entry is, what comes first and whether a name like the *)
(* file's follows.                                                         *)
Layouts == {<<1, "volume", FALSE>>, <<1, "unused", TRUE>>,
            <<RootLength * 2 - 2, "unused", FALSE>>, <<RootLength * 2 - 2, "dir", TRUE>>}

Entry(boot, first, num) ==
  [status |-> IF boot THEN "boot" ELSE "plain", first |-> first, num |-> num]

(* One volume of spc sectors per cluster in partition p, which another     *)
(* entry precedes when it is not the first, and which may end before the   *)
(* volume's last cluster.  Its chain ends in one mark or another.          *)
Disk(spc, p, boot, cut, chain, size, layout) ==
  LET start == 1 + 3 * p
      sectors == 7 + RootLength * spc + 4 * spc
  IN  [start |-> start, sectors |-> sectors, res |-> 1, nf |-> 2, spf |-> 3, spc |-> spc,
       rootEntries |-> RootLength * spc * 2, chain |-> chain,
       eoc |-> IF boot THEN 65535 ELSE 65528,
       root |-> Root(layout[1], layout[2], layout[3], chain, size),
       table |-> [q \in Partitions |->
                    IF q = p THEN Entry(boot, start, sectors - cut * spc)
                    ELSE IF q < p THEN Entry(TRUE, 1, 3)
                    ELSE NoEntry]]

MCDisks ==
  UNION {{Disk(spc, p, boot, cut, chain, size, layout) :
            size \in Sizes(chain, 2 * spc)} :
          spc \in 1 .. 2, p \in 0 .. 1, boot \in BOOLEAN, cut \in 0 .. 1, chain \in Chains,
          layout \in Layouts}

(* The drives of the first run are those the theorems on loading are about. *)
ASSUME LoadableAssumption ==
  RootLength = 8 => \A d \in Disks : Loadable(d) /\ Complete(d)
=============================================================================
