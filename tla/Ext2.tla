-------------------------------- MODULE Ext2 --------------------------------
(***************************************************************************)
(* The ext2 driver (src/kernel/fs/ext2.c) and the file-system layer above *)
(* it (src/kernel/fs/fs.c), with the block device underneath reduced to   *)
(* what ata_read_sectors and ata_write_sectors (drivers/ata.c) can do.    *)
(*                                                                         *)
(* The driver serves a mounted image either from the Multiboot module in  *)
(* memory (g_img) or from the disk through a one-block cache              *)
(* (g_block_cache, g_block_cache_num).  fs_init picks one at boot; the    *)
(* file syscalls then open, read, overwrite and close files of the root   *)
(* directory through a 16-entry descriptor table.  Every file operation   *)
(* runs inside the syscall gate with IF clear and fs_init runs before the *)
(* kernel's sti, so each call is one step.                                 *)
(*                                                                         *)
(* The driver's state is one record, fs, threaded through the helpers as  *)
(* the C code threads its globals; a helper that can fail returns the set *)
(* of its outcomes, and Bind chains them.                                  *)
(*                                                                         *)
(* Abstractions.  A block is BSz sectors and a sector one value of Vals;  *)
(* the superblock, group descriptors, inode table and root directory are  *)
(* constants of the layout (nothing writes them: writes only overwrite    *)
(* file bytes), so decoding them is left out and reading them is a fetch  *)
(* of the inode-table block ItBlk or the directory block DirBlk through   *)
(* get_block, which is what they do to the cache.  An image either is a   *)
(* valid ext2 file system or is not (bad magic, block size or group table *)
(* all take the same path).  Every printf is a count of lines printed in  *)
(* the step (log), shown on the terminal by the Io module.                *)
(*                                                                         *)
(* Device faults.  With DiskFaults, a block transfer can fail after any   *)
(* number of its sectors, as ata_read_sectors and ata_write_sectors fail  *)
(* in ata_wait_drq between sectors and ata_write_sectors in its final     *)
(* ata_wait_busy after the last one (AHCI's failures are the k = 0 case). *)
(***************************************************************************)
EXTENDS Integers, Sequences, FiniteSets

CONSTANTS
  BSz,        \* g_block_size, in sectors of one value each
  NDirect,    \* the 12 direct block pointers of an inode
  MaxFd,      \* EXT2_MAX_FD
  Vals, Zero, \* byte values, and the value of a zeroed byte
  Meta,       \* the contents of a metadata block
  ItBlk,      \* the inode-table block
  DirBlk,     \* the root directory's block
  DataBlks,   \* the blocks holding file data
  NoBlk,      \* 0xFFFFFFFF, the invalid cache tag
  RootIno,    \* inode 2
  Inode,      \* inode -> [dir, size, blk : 0 .. NDirect - 1 -> block or 0]
  Dir,        \* root directory: name -> inode
  DirEntries, \* the root directory block's entries, [name : chars, ino], in order
  Names,      \* names passed to open
  ModData,    \* the module image's data blocks
  DiskData,   \* the data blocks of a disk already holding the file system
  DiskFaults, \* whether a block transfer can fail
  FdArgs, LenArgs, DataArgs, ListLens, \* the arguments callers pass
  MaxOps      \* bound on the number of file calls

ASSUME Ext2Assumption ==
  /\ BSz \in Nat \ {0} /\ NDirect \in Nat \ {0} /\ MaxFd \in Nat \ {0, 1, 2, 3}
  /\ Zero \in Vals /\ Meta \notin Vals
  /\ DataBlks \subseteq Nat \ {0} /\ {ItBlk, DirBlk} \cap (DataBlks \cup {0}) = {}
  /\ NoBlk \notin DataBlks \cup {0, ItBlk, DirBlk}
  /\ DiskFaults \in BOOLEAN /\ MaxOps \in Nat

VARIABLES fs, call, ret, nops

Sec == 0 .. BSz - 1
Blk == {ItBlk, DirBlk} \cup DataBlks
Fd == 0 .. MaxFd - 1
ZeroBlock == [i \in Sec |-> Zero]
\* An image with the given data blocks.
Image(data) == [b \in Blk |-> IF b \in DataBlks THEN data[b] ELSE [i \in Sec |-> Meta]]
NoFd == [used |-> FALSE, ino |-> 0, pos |-> 0]

\* Monadic chaining of outcome sets.
Bind(S, F(_)) == UNION {F(o) : o \in S}
Log(s) == [s EXCEPT !.log = @ + 1]
LogN(s, n) == [s EXCEPT !.log = @ + n]
Mounted(s) == s.gdt /\ s.bsz

\* The first k sectors of blk new, the others old: a transfer cut short.
Prefix(new, old, k) == [i \in Sec |-> IF i < k THEN new[i] ELSE old[i]]
\* blk with the sectors from off on replaced by src.
Overlay(blk, off, src) ==
  [i \in Sec |-> IF off <= i /\ i < off + Len(src) THEN src[i - off + 1] ELSE blk[i]]
MinOf(S) == CHOOSE m \in S : \A n \in S : m <= n

-----------------------------------------------------------------------------
(* Block access.                                                           *)

\* get_block: block 0 is a hole; from memory the module's block; from disk
\* the cache when it holds the block, else block_read into the cache and
\* tag it.  A failed block_read leaves the sectors it did read in the
\* cache, whose tag is unchanged, and prints.
GetBlock(s, b) ==
  CASE b = 0 -> {[s |-> s, ok |-> FALSE, data |-> ZeroBlock]}
    [] ~s.usedisk -> {[s |-> s, ok |-> s.imgset, data |-> s.mod[b]]}
    [] s.cache.num = b -> {[s |-> s, ok |-> TRUE, data |-> s.cache.data]}
    [] OTHER ->
         {[s |-> [s EXCEPT !.cache = [num |-> b, data |-> s.disk[b]]],
           ok |-> TRUE, data |-> s.disk[b]]}
         \cup {[s |-> Log([s EXCEPT !.cache.data = Prefix(s.disk[b], @, k)]),
                ok |-> FALSE, data |-> ZeroBlock] : k \in IF DiskFaults THEN Sec ELSE {}}

\* write_block (disk mode): block_write, then invalidate the cache; a failed
\* block_write may have written some sectors, prints, and returns -1
\* before the invalidation.
WriteBlock(s, b, data) ==
  {[s |-> [s EXCEPT !.disk[b] = data, !.cache.num = NoBlk], ok |-> TRUE]}
  \cup {[s |-> Log([s EXCEPT !.disk[b] = Prefix(data, @, k)]), ok |-> FALSE]
          : k \in IF DiskFaults THEN 0 .. BSz ELSE {}}

\* copy_to_block: into the module in memory, or on disk read_block_into the
\* cache, patch the cache, write_block the cache.
CopyToBlock(s, b, off, src) ==
  IF ~s.usedisk
    THEN {[s |-> [s EXCEPT !.mod[b] = Overlay(@, off, src)], ok |-> s.imgset]}
    ELSE Bind(GetBlock(s, b), LAMBDA g :
           IF g.ok
             THEN LET new == Overlay(g.data, off, src)
                  IN WriteBlock([g.s EXCEPT !.cache.data = new], b, new)
             ELSE {[s |-> g.s, ok |-> FALSE]})

\* read_inode: inode 0 and inodes past the groups fail; otherwise the
\* inode's bytes are copied out of the inode-table block.
ReadInode(s, ino) ==
  IF ino \notin DOMAIN Inode THEN {[s |-> s, ok |-> FALSE]}
  ELSE {[s |-> g.s, ok |-> g.ok] : g \in GetBlock(s, ItBlk)}

-----------------------------------------------------------------------------
(* The direct-block loops.                                                 *)

\* Mutant: the chunk is not capped by the bytes left in the file.
Mut_Chunk(i, off, len) ==
  LET bo == off % BSz
  IN [idx |-> off \div BSz, bo |-> bo, n |-> IF len < BSz - bo THEN len ELSE BSz - bo]

\* One chunk of a transfer at offset off: the block index, the offset in
\* the block and the length, MIN(len, block_size - blk_off) capped by the
\* bytes left in the file.
Chunk(i, off, len) ==
  LET bo == off % BSz
      n1 == IF len < BSz - bo THEN len ELSE BSz - bo
      n  == IF n1 > Inode[i].size - off THEN Inode[i].size - off ELSE n1
  IN [idx |-> off \div BSz, bo |-> bo, n |-> n]

\* The loop stops at the end of the request or of the file, or past the
\* direct blocks.
LoopDone(i, off, len) == len = 0 \/ off >= Inode[i].size \/ off \div BSz >= NDirect

\* read_file_direct: copy chunk by chunk into out; stop at a block that
\* get_block cannot give (a hole, or a failed read).
RECURSIVE ReadFileDirect(_, _, _, _, _)
ReadFileDirect(s, i, off, len, out) ==
  IF LoopDone(i, off, len) THEN {[s |-> s, out |-> out]}
  ELSE LET c == Chunk(i, off, len) IN
       Bind(GetBlock(s, Inode[i].blk[c.idx]), LAMBDA g :
         IF ~g.ok THEN {[s |-> g.s, out |-> out]}
         ELSE ReadFileDirect(g.s, i, off + c.n, len - c.n,
                             out \o [k \in 1 .. c.n |-> g.data[c.bo + k - 1]]))

\* write_file_direct: overwrite chunk by chunk from src; stop at a hole or
\* when copy_to_block fails.  Returns the bytes written.
RECURSIVE WriteFileDirect(_, _, _, _, _)
WriteFileDirect(s, i, off, src, w) ==
  IF LoopDone(i, off, Len(src)) \/ Inode[i].blk[off \div BSz] = 0
    THEN {[s |-> s, w |-> w]}
  ELSE LET c == Chunk(i, off, Len(src)) IN
       Bind(CopyToBlock(s, Inode[i].blk[c.idx], c.bo, SubSeq(src, 1, c.n)), LAMBDA t :
         IF ~t.ok THEN {[s |-> t.s, w |-> w]}
         ELSE WriteFileDirect(t.s, i, off + c.n, SubSeq(src, c.n + 1, Len(src)), w + c.n))

-----------------------------------------------------------------------------
(* Mounting.                                                               *)

ClearFds(f) == [d \in Fd |-> [f[d] EXCEPT !.used = FALSE]]

\* ext2_mount_from_module: point at the module, leave disk mode; a bad image
\* drops the image and the block size (and the g_gdt pointer) and fails.
MountFromModule(s) ==
  LET s1 == [s EXCEPT !.imgset = TRUE, !.usedisk = FALSE, !.cache.num = NoBlk]
  IN IF s.module = "ext2"
       THEN [s |-> Log([s1 EXCEPT !.gdt = TRUE, !.bsz = TRUE, !.fds = ClearFds(@)]), r |-> 0]
       ELSE [s |-> Log([s1 EXCEPT !.imgset = FALSE, !.gdt = FALSE, !.bsz = FALSE]), r |-> -1]

\* ext2_mount_from_disk: leave disk mode and drop the cache, then read the
\* superblock (a failed read returns with the rest untouched); a bad magic
\* or block size zeroes g_block_size; the group table read can fail and
\* frees g_gdt; success forgets the module and enters disk mode.
MountFromDisk(s) ==
  LET s0 == [s EXCEPT !.usedisk = FALSE, !.cache.num = NoBlk]
      sbFail  == {[s |-> Log(s0), r |-> -1] : x \in IF DiskFaults THEN {1} ELSE {}}
      gdtFail == {[s |-> Log([s0 EXCEPT !.gdt = FALSE, !.bsz = FALSE]), r |-> -1]
                    : x \in IF DiskFaults THEN {1} ELSE {}}
  IN sbFail \cup
     IF ~s.diskfs
       THEN {[s |-> Log([s0 EXCEPT !.bsz = FALSE]), r |-> -1]}
       ELSE gdtFail \cup
            {[s |-> Log([s0 EXCEPT !.gdt = TRUE, !.bsz = TRUE, !.imgset = FALSE,
                                   !.usedisk = TRUE, !.fds = ClearFds(@)]), r |-> 0]}

\* The blocks of the image in LBA order; the superblock comes first.
CopyOrder == CHOOSE q \in [1 .. Cardinality(Blk) -> Blk] :
               \A j, k \in DOMAIN q : j < k => q[j] < q[k]

\* copy_module_to_disk: block_write the image sector by sector from LBA 0.
\* A failure stops the copy: j = 0 before the superblock is written, j > 0
\* after it and the first j - 1 blocks of the image.
CopyModuleToDisk(s) ==
  {[s |-> [s EXCEPT !.disk = [b \in Blk |-> s.mod[b]], !.diskfs = TRUE], ok |-> TRUE]}
  \cup {[s |-> Log([s EXCEPT !.disk = [b \in Blk |->
                     IF \E k \in 1 .. j - 1 : CopyOrder[k] = b THEN s.mod[b] ELSE s.disk[b]],
                   !.diskfs = @ \/ j > 0]), ok |-> FALSE]
          : j \in IF DiskFaults THEN 0 .. Cardinality(Blk) ELSE {}}

\* fs.c:72-87: with a module mounted and a disk present, try the disk; if
\* it holds no file system, copy the module there and mount the copy, or
\* fall back to the module when that mount fails.
SyncToDisk(s) ==
  Bind(MountFromDisk(s), LAMBDA d :
    IF d.r = 0 THEN {d.s}
    ELSE Bind(CopyModuleToDisk(Log(d.s)), LAMBDA c :
           IF ~c.ok THEN {Log(c.s)}
           ELSE Bind(MountFromDisk(c.s), LAMBDA e :
                  IF e.r = 0 THEN {Log(e.s)} ELSE {MountFromModule(Log(e.s)).s})))

\* fs_init: the disk first, then the module, then the sync; the warning is
\* printed from fs_init's local 'mounted', not from ext2_is_mounted.
FsInit(s) ==
  Bind(IF s.ready THEN MountFromDisk(s) ELSE {[s |-> s, r |-> -1]}, LAMBDA a :
    LET m == IF a.r = 0 \/ s.module = "none"
               THEN [s |-> a.s, r |-> -1] ELSE MountFromModule(a.s)
        mounted == a.r = 0 \/ m.r = 0
    IN {IF mounted THEN t ELSE Log(t)
          : t \in IF m.r = 0 /\ s.ready THEN SyncToDisk(m.s) ELSE {m.s}})

-----------------------------------------------------------------------------
(* The file operations: fs_* check ext2_is_mounted, then call ext2_*.     *)

\* lookup_in_root: read the root inode, then scan its directory block.
LookupInRoot(s, name) ==
  Bind(ReadInode(s, RootIno), LAMBDA r :
    IF ~r.ok THEN {[s |-> r.s, ino |-> 0]}
    ELSE {[s |-> d.s, ino |-> IF d.ok /\ name \in DOMAIN Dir THEN Dir[name] ELSE 0]
            : d \in GetBlock(r.s, DirBlk)})

FreeFds(s) == {d \in 3 .. MaxFd - 1 : ~s.fds[d].used}

\* fs_open / ext2_open: look the name up, read its inode, refuse a
\* directory, take the lowest free descriptor from 3.
FsOpen(s, name) ==
  IF ~Mounted(s) THEN {[s |-> s, ret |-> -1]}
  ELSE Bind(LookupInRoot(s, name), LAMBDA l :
         IF l.ino = 0 THEN {[s |-> l.s, ret |-> -1]}
         ELSE {IF ~q.ok \/ Inode[l.ino].dir \/ FreeFds(q.s) = {}
                 THEN [s |-> q.s, ret |-> -1]
                 ELSE LET d == MinOf(FreeFds(q.s)) IN
                      [s |-> [q.s EXCEPT !.fds[d] = [used |-> TRUE, ino |-> l.ino, pos |-> 0]],
                       ret |-> d]
                 : q \in ReadInode(l.s, l.ino)})

ValidFd(s, fd) == fd \in Fd /\ s.fds[fd].used

\* fs_read / ext2_read: the bytes read (ret is the buffer's contents) and
\* the position advanced by their number.
FsRead(s, fd, len) ==
  IF ~Mounted(s) \/ ~ValidFd(s, fd) THEN {[s |-> s, ret |-> -1]}
  ELSE LET f == s.fds[fd] IN
       Bind(ReadInode(s, f.ino), LAMBDA q :
         IF ~q.ok THEN {[s |-> q.s, ret |-> -1]}
         ELSE {[s |-> [o.s EXCEPT !.fds[fd].pos = @ + Len(o.out)], ret |-> o.out]
                 : o \in ReadFileDirect(q.s, f.ino, f.pos, len, <<>>)})

\* fs_write / ext2_write: overwrite in place, advance by the bytes written.
FsWrite(s, fd, data) ==
  IF ~Mounted(s) \/ ~ValidFd(s, fd) THEN {[s |-> s, ret |-> -1]}
  ELSE LET f == s.fds[fd] IN
       Bind(ReadInode(s, f.ino), LAMBDA q :
         IF ~q.ok THEN {[s |-> q.s, ret |-> -1]}
         ELSE {[s |-> [o.s EXCEPT !.fds[fd].pos = @ + o.w], ret |-> o.w]
                 : o \in WriteFileDirect(q.s, f.ino, f.pos, data, 0)})

\* fs_close / ext2_close.
FsClose(s, fd) ==
  IF ~Mounted(s) \/ ~ValidFd(s, fd) THEN {[s |-> s, ret |-> -1]}
  ELSE {[s |-> [s EXCEPT !.fds[fd].used = FALSE], ret |-> 0]}

-----------------------------------------------------------------------------
(* The listing (SYS_fs_list).                                              *)

\* The inner loop of ext2_list on one entry's name, with out already
\* holding n = Len(out) bytes: copy characters while n + 1 < len, then the
\* newline while n < len.
CopyName(out, name, len) ==
  LET k  == MinOf({Len(name)} \cup {j \in 0 .. Len(name) : Len(out) + j + 1 >= len})
      o2 == out \o SubSeq(name, 1, k)
  IN IF Len(o2) < len THEN Append(o2, "\n") ELSE o2

\* Entries with an inode and a name are listed.
Listed(e) == e.ino # 0 /\ Len(e.name) > 0

RECURSIVE ScanEntries(_, _, _)
ScanEntries(out, es, len) ==
  IF es = <<>> THEN out
  ELSE ScanEntries(IF Listed(Head(es)) THEN CopyName(out, Head(es).name, len) ELSE out,
                   Tail(es), len)

\* The entries ext2_list finds in block b of the root directory.
EntriesOf(b) == IF b = DirBlk THEN DirEntries ELSE <<>>

\* ext2_list's loop over the root's direct blocks from i: a hole is
\* skipped, a block get_block fails on is skipped; a block read prints a
\* line, one per entry and one more per listed entry, and a last line.
RECURSIVE ListBlocks(_, _, _, _)
ListBlocks(s, i, out, len) ==
  IF i = NDirect THEN {[s |-> s, out |-> out]}
  ELSE LET b == Inode[RootIno].blk[i] IN
       IF b = 0 THEN ListBlocks(s, i + 1, out, len)
       ELSE Bind(GetBlock(s, b), LAMBDA g :
              IF ~g.ok THEN ListBlocks(g.s, i + 1, out, len)
              ELSE LET es == EntriesOf(b)
                       nl == 2 + Len(es) + Len(SelectSeq(es, Listed))
                   IN ListBlocks(LogN(g.s, nl), i + 1, ScanEntries(out, es, len), len))

\* fs_dump_list: 0 bytes when nothing is mounted; else ext2_list, which
\* reads the root inode (failing with -1), prints two lines, and scans.
\* ret is the bytes the caller gets: none on -1 (ush counts -1 as 0).
FsList(s, len) ==
  IF ~Mounted(s) THEN {[s |-> s, ret |-> <<>>]}
  ELSE Bind(ReadInode(s, RootIno), LAMBDA r :
         IF ~r.ok THEN {[s |-> r.s, ret |-> <<>>]}
         ELSE {[s |-> o.s, ret |-> o.out] : o \in ListBlocks(LogN(r.s, 2), 0, <<>>, len)})

-----------------------------------------------------------------------------
(* The specification.                                                      *)

Block == [Sec -> Vals \cup {Meta}]
Call(op, name, fd, len, data) == [op |-> op, name |-> name, fd |-> fd, len |-> len, data |-> data]

\* Before fs_init: block_init has found a disk or not, and the disk holds
\* the file system or not; the boot modules hold an ext2 image, something
\* else, or nothing; every driver global is zero, the cache tag invalid.
Init ==
  /\ fs \in {[ready |-> r, module |-> m, diskfs |-> r /\ f, booted |-> FALSE,
              gdt |-> FALSE, bsz |-> FALSE, usedisk |-> FALSE, imgset |-> FALSE,
              mod |-> Image(ModData),
              disk |-> IF r /\ f THEN Image(DiskData) ELSE [b \in Blk |-> ZeroBlock],
              cache |-> [num |-> NoBlk, data |-> ZeroBlock],
              fds |-> [d \in Fd |-> NoFd], log |-> 0]
             : r \in BOOLEAN, m \in {"none", "bad", "ext2"}, f \in BOOLEAN}
  /\ call = Call("boot", "", 0, 0, <<>>)
  /\ ret = 0
  /\ nops = 0

\* kernel_main calls fs_init once, before sti.
FsBoot ==
  /\ ~fs.booted
  /\ fs' \in {[t EXCEPT !.booted = TRUE] : t \in FsInit([fs EXCEPT !.log = 0])}
  /\ call' = Call("boot", "", 0, 0, <<>>)
  /\ UNCHANGED <<ret, nops>>

\* A file syscall after boot: one of the outcomes of its handler.
Serve(c, S) ==
  /\ fs.booted /\ nops < MaxOps
  /\ \E o \in S : fs' = o.s /\ ret' = o.ret
  /\ call' = c
  /\ nops' = nops + 1

Fresh == [fs EXCEPT !.log = 0]

Open(name) == Serve(Call("open", name, 0, 0, <<>>), FsOpen(Fresh, name))
Read(fd, len) == Serve(Call("read", "", fd, len, <<>>), FsRead(Fresh, fd, len))
Write(fd, data) == Serve(Call("write", "", fd, 0, data), FsWrite(Fresh, fd, data))
Close(fd) == Serve(Call("close", "", fd, 0, <<>>), FsClose(Fresh, fd))
List(len) == Serve(Call("list", "", 0, len, <<>>), FsList(Fresh, len))

Next ==
  \/ FsBoot
  \/ \E n \in Names : Open(n)
  \/ \E d \in FdArgs, l \in LenArgs : Read(d, l)
  \/ \E d \in FdArgs, x \in DataArgs : Write(d, x)
  \/ \E d \in FdArgs : Close(d)
  \/ \E l \in ListLens : List(l)

vars == <<fs, call, ret, nops>>

Spec == Init /\ [][Next]_vars

-----------------------------------------------------------------------------
(* Properties.                                                             *)

\* The readable bytes of inode i: up to its size, the direct blocks and
\* the first hole.
ExtentOf(i) ==
  LET holes == {j \in 0 .. NDirect - 1 : Inode[i].blk[j] = 0}
      lim   == IF holes = {} THEN NDirect * BSz ELSE MinOf(holes) * BSz
  IN IF Inode[i].size < lim THEN Inode[i].size ELSE lim

\* Where the mounted file system lives: the disk in disk mode, else the
\* module in memory.
Store(s) == IF s.usedisk THEN s.disk ELSE s.mod

FileBytes(s, i) ==
  [k \in 1 .. ExtentOf(i) |-> Store(s)[Inode[i].blk[(k - 1) \div BSz]][(k - 1) % BSz]]

\* Type invariant of the driver.
TypeOK ==
  /\ fs \in [ready : BOOLEAN, module : {"none", "bad", "ext2"}, diskfs : BOOLEAN,
             booted : BOOLEAN, gdt : BOOLEAN, bsz : BOOLEAN, usedisk : BOOLEAN,
             imgset : BOOLEAN, mod : [Blk -> Block], disk : [Blk -> Block],
             cache : [num : Blk \cup {NoBlk}, data : Block],
             fds : [Fd -> [used : BOOLEAN, ino : {0} \cup DOMAIN Inode, pos : Nat]],
             log : Nat]
  /\ nops \in 0 .. MaxOps

\* The whole listing: each listed entry's name and a newline.
RECURSIVE ListText(_)
ListText(es) ==
  IF es = <<>> THEN <<>>
  ELSE (IF Listed(Head(es)) THEN Append(Head(es).name, "\n") ELSE <<>>) \o ListText(Tail(es))

Abs == INSTANCE Files WITH
         Listing <- ListText(DirEntries),
         booted <- fs.booted, mounted <- Mounted(fs), fds <- fs.fds,
         content <- [i \in {j \in DOMAIN Inode : ~Inode[j].dir} |-> FileBytes(fs, i)],
         Extent <- [i \in DOMAIN Inode |-> ExtentOf(i)],
         IsDir <- [i \in DOMAIN Inode |-> Inode[i].dir]

\* The driver implements the file interface of Files: every open, read,
\* write and close, through the descriptor table, the chunk arithmetic of
\* read_file_direct and write_file_direct, the block cache and the choice
\* of disk or module, returns and changes exactly what that interface
\* says of the bytes stored on the mounted medium.
FilesRefined == Abs!Spec

\* When the driver runs from disk, a valid cache entry holds exactly the
\* block on disk: what get_block serves from g_block_cache is what the
\* disk holds.
CacheCoherent ==
  fs.usedisk /\ fs.cache.num # NoBlk => fs.cache.data = fs.disk[fs.cache.num]

\* After fs_init, a boot with an ext2 module has a mounted file system:
\* fs.c prints "continuing from module image" when the disk sync fails.
MountedAfterInit == fs.booted /\ fs.module = "ext2" => Mounted(fs)
=============================================================================
