---------------------------- MODULE MCFileSystem ----------------------------
EXTENDS FileSystem, FatName, TLC

CONSTANTS a, b   \* two file names, as model values

(* Two data clusters, two root slots and two names: enough for a second *)
(* file to be given a cluster a first one still names, and for a chain of  *)
(* two clusters.  Sectors of 2 bytes and writes of 1 or 2 bytes reach both *)
(* a partial sector and a sector end.                                      *)
MCNClusters == 4
MCNRoot == 2
MCBases == {a, b}
(* Nothing in the file store orders or compares names except for equality, *)
(* so renaming a and b maps behaviours to behaviours.                      *)
MCSymmetry == Permutations(MCBases)
MCSectorSize == 2
MCSizes == {1, 2}
MCSeekOffsets == {-1, 1}
MCMaxFileSize == 2
(* Names as bytes for the 8.3 conversion: every name of one or two of 'a', *)
(* 'A' and 'b', which meet case folding and differ in length, and three   *)
(* of six bytes, the longest whose unstripped form "//" + name still fits *)
(* the 8 name bytes.                                                       *)
MCNameBases ==
  (SeqOf({97, 65, 98}, 2) \ {<<>>})
  \cup {<<97, 97, 97, 97, 97, 97>>, <<97, 97, 97, 97, 97, 98>>, <<65, 97, 97, 97, 97, 98>>}
(* The bytes the model values a and b stand for.  Both are one lower-case *)
(* letter, so swapping them, as the symmetry does, keeps NamesAsStored.   *)
MCNameOf == [n \in {a, b} |-> IF n = a THEN <<97>> ELSE <<98>>]

(* The name and extension bytes of a root slot: a zeroed slot, a slot     *)
(* whose name[0] remove_directory_entry set to 0xE5 (the old bytes after   *)
(* it start no typed name and are shown as spaces), or convert_filename    *)
(* of the key's slashes and name.                                          *)
SlotBytes(n) ==
  CASE n = EMPTY   -> [name |-> [i \in 1..8 |-> 0], ext |-> [i \in 1..3 |-> 0]]
    [] n = DELETED -> [name |-> <<229>> \o [i \in 1..7 |-> SPACE], ext |-> [i \in 1..3 |-> SPACE]]
    [] OTHER       -> ConvertFilename(TypedPath(n.lvl, MCNameOf[n.base]))

(* For each typed path, the slot names whose bytes each lookup accepts:   *)
(* find_directory_entry and remove/update_directory_entry skip slots whose *)
(* name[0] is 0 or 0xE5, find_entry only those whose name[0] is 0.        *)
CodeMatches ==
  LET Live(e) == e.name[1] # 0 /\ e.name[1] # 229
      Used(e) == e.name[1] # 0
      Names == Keys \cup {EMPTY, DELETED}
  IN [p \in Paths |->
        LET q == TypedPath(p.lead, MCNameOf[p.base]) IN
        [find  |-> {n \in Names : Live(SlotBytes(n)) /\ FindDirectoryEntryMatches(SlotBytes(n), q)},
         raw   |-> {n \in Names : Live(SlotBytes(n)) /\ RawMatches(SlotBytes(n), q)},
         entry |-> {n \in Names : Used(SlotBytes(n)) /\ FindEntryMatches(SlotBytes(n), q)}]]

(* The slot names on which every code lookup of every typed path agrees  *)
(* with the model's key lookup: accepted exactly when the key matches.    *)
AgreeingNames ==
  LET Agrees(n) ==
        \A p \in Paths :
          /\ (n \in CodeMatches[p].find) = (n = FindKey(p))
          /\ (n \in CodeMatches[p].raw) = (n = RawKey(p))
          /\ (n \in CodeMatches[p].entry) = (n = FindKey(p))
  IN UNION {IF Agrees(n) THEN {n} ELSE {} : n \in Keys \cup {EMPTY, DELETED}}

(* The names the model keeps are the names the code stores.  Over typed   *)
(* names of mixed case and up to six letters, every typed path is valid   *)
(* and each of the three lookups matches an entry exactly when the key it *)
(* uses equals the entry's key (TypedNamesAgree).  And every name a slot   *)
(* holds in a reachable directory is one whose bytes find_directory_entry, *)
(* remove_directory_entry (and update_directory_entry) and find_entry     *)
(* accept exactly when FileSystem's keys match, so, scanning the slots in  *)
(* the same order, each lookup picks the slot the model picks.             *)
NamesAsStored ==
  /\ TypedNamesAgree
  /\ \A i \in 1..NRoot : root[i].name \in AgreeingNames
====
