------------------------------ MODULE FatName ------------------------------
(***************************************************************************)
(* The 8.3 names of src/fs/filesystem.c over the string routines of        *)
(* src/lib/string.c, on C strings as sequences of byte values (the NUL     *)
(* terminator is the end of the sequence).                                 *)
(*                                                                         *)
(* A directory entry stores convert_filename of a name: 8 name bytes and 3 *)
(* extension bytes, space padded and upper-cased.  Three lookups read it:  *)
(*   find_directory_entry strips one leading '/' and compares converted    *)
(*     names byte for byte (memcmp);                                       *)
(*   remove_directory_entry and update_directory_entry compare the         *)
(*     converted path as given, slash included;                            *)
(*   find_entry (fs_chdir) turns the entry back into a string with         *)
(*     convert_filename_back and compares it with strcasecmp.              *)
(* FileSystem abstracts all of this to keys [lvl, base]; TypedNamesAgree *)
(* relates that abstraction to these operators.                           *)
(***************************************************************************)
EXTENDS Integers, SequencesExt

CONSTANT NameBases   \* typed names: byte sequences without '/', '.' or NUL

SPACE == 32
DOT == 46
SLASH == 47

(* strchr: the index of the first byte c, or 0 for NULL.                   *)
Strchr(s, c) ==
  IF \E i \in 1..Len(s) : s[i] = c
  THEN CHOOSE i \in 1..Len(s) : s[i] = c /\ \A j \in 1..(i - 1) : s[j] # c
  ELSE 0

(* The ASCII case maps of strcasecmp and convert_filename.                *)
ToUpper(c) == IF c >= 97 /\ c <= 122 THEN c - 32 ELSE c
ToLower(c) == IF c >= 65 /\ c <= 90 THEN c + 32 ELSE c
UpperSeq(s) == [i \in 1..Len(s) |-> ToUpper(s[i])]

(* A byte read through a plain char, and *str with the terminator.        *)
SignedChar(c) == IF c >= 128 THEN c - 256 ELSE c
ByteAt(s) == IF s = <<>> THEN 0 ELSE Head(s)

(* strcasecmp: lower-cased signed chars until one string ends, then the   *)
(* unsigned difference of the bytes reached.                              *)
RECURSIVE Strcasecmp(_, _)
Strcasecmp(s, t) ==
  IF s = <<>> \/ t = <<>> THEN ByteAt(s) - ByteAt(t)
  ELSE LET c1 == ToLower(SignedChar(Head(s)))
           c2 == ToLower(SignedChar(Head(t)))
       IN IF c1 # c2 THEN c1 - c2 ELSE Strcasecmp(Tail(s), Tail(t))

(* The first n bytes of s (memcpy of a length cut to n), and s padded with *)
(* spaces to n (the memset before it).                                     *)
Prefix(s, n) == SubSeq(s, 1, IF Len(s) > n THEN n ELSE Len(s))
Pad(s, n) == s \o [i \in 1..(n - Len(s)) |-> SPACE]

(* Mutant: convert_filename without its upper-casing loops.               *)
ConvertFilenameKeepCase(f) ==
  LET dot == Strchr(f, DOT)
      nm == IF dot # 0 THEN Prefix(SubSeq(f, 1, dot - 1), 8) ELSE Prefix(f, 8)
      ex == IF dot # 0 THEN Prefix(SubSeq(f, dot + 1, Len(f)), 3) ELSE <<>>
  IN [name |-> Pad(nm, 8), ext |-> Pad(ex, 3)]

(* convert_filename: the bytes before the first '.' (at most 8) and after *)
(* it (at most 3), padded and upper-cased.                                 *)
ConvertFilename(f) ==
  LET dot == Strchr(f, DOT)
      nm == IF dot # 0 THEN Prefix(SubSeq(f, 1, dot - 1), 8) ELSE Prefix(f, 8)
      ex == IF dot # 0 THEN Prefix(SubSeq(f, dot + 1, Len(f)), 3) ELSE <<>>
  IN [name |-> UpperSeq(Pad(nm, 8)), ext |-> UpperSeq(Pad(ex, 3))]

(* convert_filename_back: the name up to its first space, then '.' and    *)
(* the extension up to its first space unless the extension starts blank.  *)
ConvertFilenameBack(e) ==
  LET UpToSpace(s) == IF Strchr(s, SPACE) = 0 THEN s ELSE SubSeq(s, 1, Strchr(s, SPACE) - 1)
  IN UpToSpace(e.name) \o (IF e.ext[1] # SPACE THEN <<DOT>> \o UpToSpace(e.ext) ELSE <<>>)

(* is_valid_filename: non-empty; 1..8 bytes before a '.' and at most 3    *)
(* after it, or at most 8 with no '.'.                                     *)
IsValidFilename(f) ==
  LET dot == Strchr(f, DOT) IN
  /\ Len(f) # 0
  /\ IF dot # 0 THEN dot - 1 # 0 /\ dot - 1 <= 8 /\ Len(f) - dot <= 3
     ELSE Len(f) <= 8

(* validate_path: "..", "." and "/" pass; anything else is '/' and a      *)
(* valid file name.                                                        *)
ValidatePath(p) ==
  /\ Len(p) # 0
  /\ \/ p \in {<<DOT, DOT>>, <<DOT>>, <<SLASH>>}
     \/ p[1] = SLASH /\ Len(p) > 1 /\ IsValidFilename(Tail(p))

(* The "if (filename[0] == '/') filename++" of the stripping lookups.     *)
StripSlash(p) == IF p # <<>> /\ Head(p) = SLASH THEN Tail(p) ELSE p

(* What add_directory_entry_to_dir stores for p, and whether each lookup  *)
(* of q matches a stored entry e.                                          *)
StoredName(p) == ConvertFilename(StripSlash(p))
FindDirectoryEntryMatches(e, q) == e = ConvertFilename(StripSlash(q))
RawMatches(e, q) == e = ConvertFilename(q)
FindEntryMatches(e, q) == q # <<SLASH>> /\ Strcasecmp(ConvertFilenameBack(e), StripSlash(q)) = 0

-----------------------------------------------------------------------------
(* The shell's paths: "/" + argv[1], where argv[1] may itself start with  *)
(* a slash, and the keys FileSystem gives them (FindKey and RawKey there). *)
TypedPath(lead, b) == [i \in 1..lead |-> SLASH] \o b
AbsFindKey(lead, b) == [lvl |-> lead - 1, base |-> UpperSeq(b)]
AbsRawKey(lead, b) == [lvl |-> lead, base |-> UpperSeq(b)]

(* The entries FileSystem writes: the stripped key (fs_open, fs_mkdir)    *)
(* and the unstripped key of a rename's new name (fs_rename).             *)
StoredEntries ==
  {[e |-> StoredName(TypedPath(l, b)), key |-> AbsFindKey(l, b)] : l \in {1, 2}, b \in NameBases}
  \cup {[e |-> ConvertFilename(TypedPath(l, b)), key |-> AbsRawKey(l, b)] : l \in {1, 2}, b \in NameBases}

(* Every typed path passes validate_path, and for every stored entry each  *)
(* of the three lookups of a typed path matches exactly when the abstract  *)
(* key it uses equals the entry's key.                                     *)
TypedNamesAgree ==
  \A s \in StoredEntries, l \in {1, 2}, b \in NameBases :
    LET q == TypedPath(l, b) IN
    /\ ValidatePath(q)
    /\ FindDirectoryEntryMatches(s.e, q) <=> s.key = AbsFindKey(l, b)
    /\ FindEntryMatches(s.e, q) <=> s.key = AbsFindKey(l, b)
    /\ RawMatches(s.e, q) <=> s.key = AbsRawKey(l, b)
=============================================================================
