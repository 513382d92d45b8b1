-------------------------------- MODULE MC_Io --------------------------------
(***************************************************************************)
(* A small instance of Io.  Blocks of two sectors and two direct pointers *)
(* per inode, so that a three-byte transfer spans blocks and a file can   *)
(* reach past its direct blocks.  Three files: "a" ends inside its second *)
(* block (the size cap), "b" is longer than its direct blocks (the        *)
(* direct-only limit), "c" has a hole (the hole stops the loops); "d" is  *)
(* a directory (open refuses it) and "x" is missing.  The listing is 13   *)
(* bytes: a 13-byte buffer holds it exactly, a 3-byte one cuts it.  A 2x2 *)
(* terminal with two lines of scrollback, so that a few lines scroll,     *)
(* fill the ring and wrap it.                                              *)
(***************************************************************************)
EXTENDS Io, TLC

\* An inode's two direct pointers, or a block's two sectors.
Two(l) == [i \in 0 .. 1 |-> l[i + 1]]

MCInode ==
  (2 :> [dir |-> TRUE, size |-> 2, blk |-> Two(<<8, 0>>)]) @@
  (11 :> [dir |-> FALSE, size |-> 3, blk |-> Two(<<3, 4>>)]) @@
  (12 :> [dir |-> FALSE, size |-> 5, blk |-> Two(<<5, 6>>)]) @@
  (13 :> [dir |-> FALSE, size |-> 3, blk |-> Two(<<7, 0>>)]) @@
  (14 :> [dir |-> TRUE, size |-> 2, blk |-> Two(<<0, 0>>)])

MCDir == ("a" :> 11) @@ ("b" :> 12) @@ ("c" :> 13) @@ ("d" :> 14)

\* The root directory block: ".", "..", a deleted entry, then the names.
MCDirEntries ==
  <<[name |-> <<".">>, ino |-> 2], [name |-> <<".", ".">>, ino |-> 2],
    [name |-> <<"z">>, ino |-> 0], [name |-> <<"a">>, ino |-> 11],
    [name |-> <<"b">>, ino |-> 12], [name |-> <<"c">>, ino |-> 13],
    [name |-> <<"d">>, ino |-> 14]>>

MCDataBlks == {3, 4, 5, 6, 7}

\* The module image's files hold zeros; a formatted disk holds other data.
MCModData == [b \in MCDataBlks |-> Two(<<0, 0>>)]
MCDiskData == [b \in MCDataBlks |-> Two(<<0, 1>>)]

MCDataArgs == {<<1>>, <<1, 1, 1>>}

\* User writes: a character, a line, and a backspace.
MCTexts == {<<"a">>, <<"a", NL>>, <<BS>>}
=============================================================================
