-------------------------------- MODULE Files --------------------------------
(***************************************************************************)
(* What the file-system layer promises its callers (fs.c, the file        *)
(* syscalls SYS_open, SYS_read on fd > 0, SYS_fwrite, SYS_close): at boot *)
(* an ext2 image is mounted, or none is; a file of the root directory is  *)
(* opened on the lowest free descriptor from 3 up; a read returns the     *)
(* next bytes of the file from the descriptor's position and advances it; *)
(* a write overwrites the next bytes in place (files never grow); close   *)
(* frees the descriptor; a call on an unmounted file system or a closed   *)
(* descriptor returns -1 and changes nothing.                              *)
(*                                                                         *)
(* A file is the sequence of its readable bytes.  The driver reads direct *)
(* blocks only and stops at a hole (ext2.c:9-11), so the readable bytes   *)
(* of an inode are its first Extent(i) bytes, a constant of the image's   *)
(* layout given by the module that instantiates this one.  call is the   *)
(* request of the latest step (operation and arguments), so that the     *)
(* result ret can be judged against it.                                    *)
(***************************************************************************)
EXTENDS Integers, Sequences

CONSTANTS
  Vals,     \* byte values
  Names,    \* names a caller passes to open
  Dir,      \* the root directory: name -> inode
  IsDir,    \* inode -> is a directory
  Extent,   \* inode -> number of readable bytes
  MaxFd,    \* EXT2_MAX_FD
  Listing   \* the root directory's names, each followed by a newline

VARIABLES booted, mounted, content, fds, call, ret

vars == <<booted, mounted, content, fds, call, ret>>

FileIno == {i \in DOMAIN IsDir : ~IsDir[i]}
Fd == 0 .. MaxFd - 1
\* c gives every file a content of its extent.
IsContent(c) == DOMAIN c = FileIno /\ \A i \in FileIno : c[i] \in [1 .. Extent[i] -> Vals]
NoFd == [used |-> FALSE, ino |-> 0, pos |-> 0]

Init ==
  /\ booted = FALSE /\ mounted = FALSE
  /\ IsContent(content)
  /\ fds = [f \in Fd |-> NoFd]
  /\ call.op = "boot" /\ ret = 0

\* Boot mounts some image (or none); no descriptor is open yet.
Boot ==
  /\ ~booted /\ booted' = TRUE
  /\ mounted' \in BOOLEAN
  /\ IsContent(content')
  /\ UNCHANGED fds
  /\ call'.op = "boot"
  /\ UNCHANGED ret

Valid(fd) == fd \in Fd /\ fds[fd].used

Fail == ret' = -1 /\ UNCHANGED <<mounted, content, fds>>

Open(name) ==
  /\ booted /\ UNCHANGED booted
  /\ LET free == {f \in 3 .. MaxFd - 1 : ~fds[f].used}
         fd   == CHOOSE f \in free : \A g \in free : f <= g
     IN IF mounted /\ name \in DOMAIN Dir /\ ~IsDir[Dir[name]] /\ free # {}
          THEN /\ fds' = [fds EXCEPT ![fd] = [used |-> TRUE, ino |-> Dir[name], pos |-> 0]]
               /\ ret' = fd
               /\ UNCHANGED <<mounted, content>>
          ELSE Fail

\* How many bytes a transfer of len bytes at the descriptor moves.
Count(fd, len) == LET left == Extent[fds[fd].ino] - fds[fd].pos
                  IN IF len < left THEN len ELSE left

Read(fd, len) ==
  /\ booted /\ UNCHANGED booted
  /\ IF mounted /\ Valid(fd)
       THEN LET f == fds[fd] IN
            /\ ret' = SubSeq(content[f.ino], f.pos + 1, f.pos + Count(fd, len))
            /\ fds' = [fds EXCEPT ![fd].pos = @ + Count(fd, len)]
            /\ UNCHANGED <<mounted, content>>
       ELSE Fail

Write(fd, data) ==
  /\ booted /\ UNCHANGED booted
  /\ IF mounted /\ Valid(fd)
       THEN LET f == fds[fd]
                n == Count(fd, Len(data))
            IN /\ content' = [content EXCEPT ![f.ino] =
                    [k \in DOMAIN @ |-> IF f.pos < k /\ k <= f.pos + n
                                          THEN data[k - f.pos] ELSE @[k]]]
               /\ fds' = [fds EXCEPT ![fd].pos = @ + n]
               /\ ret' = n
               /\ UNCHANGED mounted
       ELSE Fail

Close(fd) ==
  /\ booted /\ UNCHANGED booted
  /\ IF mounted /\ Valid(fd)
       THEN fds' = [fds EXCEPT ![fd].used = FALSE] /\ ret' = 0
            /\ UNCHANGED <<mounted, content>>
       ELSE Fail

\* fs_list: the root directory's names, newline-separated, when they fit in
\* the caller's len bytes; never more than len bytes; nothing (0 bytes)
\* when no file system is mounted.
List(len) ==
  /\ booted /\ UNCHANGED booted
  /\ IF mounted
       THEN /\ IF Len(Listing) <= len THEN ret' = Listing ELSE Len(ret') <= len
            /\ UNCHANGED <<mounted, content, fds>>
       ELSE ret' = <<>> /\ UNCHANGED <<mounted, content, fds>>

\* Each step serves the request it records in call.
Next ==
  \/ Boot
  \/ call'.op = "open" /\ Open(call'.name)
  \/ call'.op = "read" /\ Read(call'.fd, call'.len)
  \/ call'.op = "write" /\ Write(call'.fd, call'.data)
  \/ call'.op = "close" /\ Close(call'.fd)
  \/ call'.op = "list" /\ List(call'.len)

Spec == Init /\ [][Next]_vars
=============================================================================
