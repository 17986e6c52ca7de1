-------------------------------- MODULE Vfs --------------------------------
(***************************************************************************)
(* The guest's virtual file system on a host directory (vfs_stubs.c): the  *)
(* mount table, the descriptor table, the pool of newlib FILE structs and  *)
(* the stdio shims that go through them.                                   *)
(*                                                                         *)
(* A file's content is the sequence of the numbers written to it.  A host  *)
(* FILE buffers what was written until it is flushed or closed; each has a *)
(* name of its own.  The firmware never uses one file twice at a time.     *)
(***************************************************************************)
EXTENDS Integers, Sequences, FiniteSets

CONSTANTS
    Prefixes,     \* mount points the firmware asks for
    Files,        \* those it keeps a file under, one each
    Mounts,       \* VFS_MAX_MOUNTS (4)
    Fds,          \* VFS_MAX_FDS (16), also the number of FILE slots
    Flags,        \* subset of {"r", "w", "a", "rw"}: how open is called
    MaxWrites,    \* numbers written in one behaviour
    MaxOpens      \* opens of one behaviour, the failing ones included

VARIABLE dev

vars == <<dev>>

VfsAssumption ==
    /\ Files \subseteq Prefixes /\ Mounts \in Nat \ {0} /\ Fds \in Nat \ {0}
    /\ Flags \subseteq {"r", "w", "a", "rw"} /\ Flags # {}
    /\ MaxWrites \in Nat /\ MaxOpens \in Nat

\* A file is named by its prefix.  A path with no mount does not resolve.
Absent == <<0>>
NoHost == [id |-> 0, file |-> "", mode |-> "", pos |-> 0, buffer |-> <<>>]
NoStream == [used |-> FALSE, fd |-> 0]

\* fds[i] is the host FILE of descriptor VFS_FD_OFFSET + i; open is the set
\* of host FILEs the process has not closed; streams is the FILE pool, and
\* creating the stream of an fopen in progress (0: none).
Init ==
    dev = [mounted |-> {}, disk |-> [f \in Files |-> Absent],
           fds |-> [i \in 1..Fds |-> NoHost], open |-> {}, next |-> 1,
           streams |-> [i \in 1..Fds |-> NoStream], creating |-> 0,
           written |-> 0, want |-> [f \in Files |-> Absent],
           damaged |-> {}, leaked |-> 0, misread |-> FALSE, size |-> [f \in Files |-> 0]]

InUse(i) == dev.fds[i].id # 0
Lowest(S) == CHOOSE i \in S : \A j \in S : i <= j
Busy(f) == \E i \in 1..Fds : InUse(i) /\ dev.fds[i].file = f

-----------------------------------------------------------------------------
(* vfs_add_mount; a full table is not reported: the caller answers ESP_OK *)

Mount(p) ==
    dev' = IF p \in dev.mounted \/ Cardinality(dev.mounted) >= Mounts THEN dev
           ELSE [dev EXCEPT !.mounted = @ \cup {p}]

Resolves(f) == f \in dev.mounted

-----------------------------------------------------------------------------
(* stub_vfs_open: the mode the flags are mapped to, the host's fopen (which *)
(* truncates or creates the file), then a descriptor                       *)

Opens(d, f, how) == how \in {"w", "a"} \/ d.disk[f] # Absent

AfterFopen(d, f, how) ==
    [d EXCEPT !.disk[f] = IF how = "w" \/ @ = Absent THEN <<>> ELSE @]

\* Without a free descriptor the host FILE is closed again, and the open
\* fails; a file it was to truncate is truncated all the same (damaged).
OpenFile(d, f, how) ==
    LET d1 == AfterFopen(d, f, how)
        free == {i \in 1..Fds : d.fds[i].id = 0}
    IN IF ~Resolves(f) \/ ~Opens(d, f, how) THEN [dev |-> d, fd |-> 0]
       ELSE IF free = {}
            THEN [dev |-> [d1 EXCEPT !.damaged = IF d1.disk[f] = d.disk[f] THEN @
                                                ELSE @ \cup {f},
                                     !.next = @ + 1], fd |-> 0]
       ELSE [dev |-> [d1 EXCEPT !.fds[Lowest(free)] =
                            [id |-> d.next, file |-> f, mode |-> how,
                             pos |-> 0, buffer |-> <<>>],
                        !.open = @ \cup {d.next}, !.next = @ + 1,
                        !.want[f] = IF f \in d.damaged THEN @ ELSE d1.disk[f]],
             fd |-> Lowest(free)]

MayOpen(f) == dev.next <= MaxOpens /\ ~Busy(f)

Open(f, how) ==
    /\ MayOpen(f) /\ dev.creating = 0
    /\ dev' = OpenFile(dev, f, how).dev

-----------------------------------------------------------------------------
(* Reads, writes and seeks on a descriptor *)

\* Appending writes at the end, otherwise at the position.
Merge(content, h) ==
    IF h.buffer = <<>> THEN content
    ELSE IF h.mode = "a" THEN content \o h.buffer
    ELSE SubSeq(content, 1, h.pos - Len(h.buffer)) \o h.buffer
         \o SubSeq(content, h.pos + 1, Len(content))

Flushed(d, i) ==
    LET h == d.fds[i] IN
    [d EXCEPT !.disk[h.file] = IF @ = Absent THEN @ ELSE Merge(@, h),
              !.fds[i].buffer = <<>>]

Wrote(d, i) ==
    LET h == d.fds[i]
        n == d.written + 1
        pos == IF h.mode = "a" THEN Len(d.want[h.file]) ELSE h.pos
    IN [d EXCEPT !.written = n, !.fds[i].buffer = Append(@, n),
                 !.fds[i].pos = pos + 1,
                 !.want[h.file] = SubSeq(@, 1, pos) \o <<n>>
                                  \o SubSeq(@, pos + 2, Len(@))]

Writable(i) == InUse(i) /\ dev.fds[i].mode # "r" /\ dev.written < MaxWrites
               /\ dev.disk[dev.fds[i].file] # Absent
               /\ dev.fds[i].file \notin dev.damaged

\* stub_vfs_write (and __swrite) leaves the data in the host's buffer.
Write(i) == Writable(i) /\ dev' = Wrote(dev, i)

\* stub_vfs_read, __sread, stub_fread and stub_fgets: the host flushes what it
\* holds before it reads on from the position.
Read(i) ==
    /\ InUse(i) /\ dev.fds[i].mode \in {"r", "rw"}
    /\ dev.fds[i].file \notin dev.damaged /\ dev.disk[dev.fds[i].file] # Absent
    /\ LET d == Flushed(dev, i)
           h == dev.fds[i]
       IN \E n \in 1..MaxWrites :
              LET end == IF h.pos + n < Len(d.disk[h.file]) THEN h.pos + n
                         ELSE IF h.pos < Len(d.disk[h.file]) THEN Len(d.disk[h.file])
                         ELSE h.pos
              IN dev' = [d EXCEPT !.fds[i].pos = end,
                                  !.misread = @ \/ SubSeq(d.disk[h.file], h.pos + 1, end)
                                              # SubSeq(d.want[h.file], h.pos + 1, end)]

\* lseek flushes: the host must know where the data belongs.
Seek(i) ==
    /\ InUse(i) /\ dev.fds[i].file \notin dev.damaged
    /\ dev.disk[dev.fds[i].file] # Absent
    /\ LET d == Flushed(dev, i) IN
       \E pos \in 0..Len(d.disk[dev.fds[i].file]) : dev' = [d EXCEPT !.fds[i].pos = pos]

Drop(d, i) == [d EXCEPT !.fds[i] = NoHost, !.open = @ \ {d.fds[i].id}]

\* stub_vfs_close of a descriptor that no stream has.
Close(i) ==
    /\ InUse(i) /\ \A s \in 1..Fds : ~(dev.streams[s].used /\ dev.streams[s].fd = i)
    /\ dev' = Drop(Flushed(dev, i), i)

-----------------------------------------------------------------------------
(* The FILE pool *)

\* fopen of the guest's newlib: __sfp takes a slot, then the file is opened.
Sfp ==
    /\ dev.creating = 0 /\ dev.next <= MaxOpens
    /\ \E s \in 1..Fds : ~dev.streams[s].used
    /\ LET s == Lowest({x \in 1..Fds : ~dev.streams[x].used}) IN
       dev' = [dev EXCEPT !.streams[s] = [used |-> TRUE, fd |-> 0], !.creating = s]

\* When the open fails newlib marks its FILE as free by its flags, which the
\* pool never looks at: the slot stays taken.
FinishFopen(f, how) ==
    /\ dev.creating # 0 /\ MayOpen(f)
    /\ LET r == OpenFile(dev, f, how) IN
       dev' = [r.dev EXCEPT !.streams[dev.creating].fd = r.fd, !.creating = 0,
                            !.leaked = IF r.fd = 0 THEN @ + 1 ELSE @,
                            !.next = IF r.dev.next = dev.next THEN @ + 1 ELSE @]

Stream(s) == dev.streams[s].used /\ dev.streams[s].fd # 0

\* stub_fwrite flushes.
Fwrite(s) ==
    /\ Stream(s) /\ Writable(dev.streams[s].fd)
    /\ dev' = Flushed(Wrote(dev, dev.streams[s].fd), dev.streams[s].fd)

\* stub_fclose (and __sclose): the host FILE, the descriptor and the slot.
Fclose(s) ==
    /\ Stream(s)
    /\ LET i == dev.streams[s].fd IN
       dev' = [Drop(Flushed(dev, i), i) EXCEPT !.streams[s] = NoStream]

-----------------------------------------------------------------------------
(* Paths *)

Unlink(f) ==
    /\ Resolves(f) /\ ~Busy(f)
    /\ dev' = [dev EXCEPT !.disk[f] = Absent, !.want[f] = Absent,
                          !.damaged = @ \ {f}]

Rename(f, g) ==
    /\ Resolves(f) /\ Resolves(g) /\ f # g /\ ~Busy(f) /\ ~Busy(g)
    /\ dev.disk[f] # Absent
    /\ dev' = [dev EXCEPT !.disk = [@ EXCEPT ![g] = dev.disk[f], ![f] = Absent],
                          !.want = [@ EXCEPT ![g] = dev.want[f], ![f] = Absent],
                          !.damaged = IF f \in @ THEN (@ \ {f}) \cup {g} ELSE @ \ {g}]

\* stub_vfs_stat asks the host about the path, stub_vfs_fstat seeks to the
\* end of the descriptor's file, which flushes it.
Stat(f) ==
    /\ Resolves(f) /\ dev.disk[f] # Absent
    /\ dev' = [dev EXCEPT !.size[f] = Len(dev.disk[f])]

Fstat(i) ==
    /\ InUse(i) /\ dev.disk[dev.fds[i].file] # Absent
    /\ LET d == Flushed(dev, i) IN
       dev' = [d EXCEPT !.size[dev.fds[i].file] = Len(d.disk[dev.fds[i].file])]

\* vfs_stubs_destroy and a new session on the same host directory.
Recreate ==
    LET Merged == [f \in Files |->
            IF dev.disk[f] = Absent \/ ~Busy(f) THEN dev.disk[f]
            ELSE LET i == CHOOSE k \in 1..Fds : InUse(k) /\ dev.fds[k].file = f
                 IN Merge(dev.disk[f], dev.fds[i])]
    IN dev' = [dev EXCEPT !.disk = Merged, !.fds = [i \in 1..Fds |-> NoHost],
                          !.open = {}, !.streams = [i \in 1..Fds |-> NoStream],
                          !.creating = 0, !.mounted = {}, !.leaked = 0]

Next ==
    \/ \E p \in Prefixes : Mount(p)
    \/ \E f \in Files, how \in Flags : Open(f, how) \/ FinishFopen(f, how)
    \/ \E i \in 1..Fds : Write(i) \/ Read(i) \/ Seek(i) \/ Close(i) \/ Fstat(i)
    \/ Sfp
    \/ \E s \in 1..Fds : Fwrite(s) \/ Fclose(s)
    \/ \E f \in Files : Unlink(f) \/ Stat(f)
    \/ \E f, g \in Files : Rename(f, g)
    \/ Recreate

Spec == Init /\ [][Next]_vars

-----------------------------------------------------------------------------
TypeOK ==
    /\ dev.mounted \subseteq Prefixes /\ Cardinality(dev.mounted) <= Mounts
    /\ dev.creating \in 0..Fds /\ dev.open \subseteq 1..(MaxOpens + 1)
    /\ \A s \in 1..Fds : dev.streams[s].fd \in 0..Fds

\* The process holds exactly the host FILEs the descriptor table names, each
\* once, so a long run of opens that fail or close can not exhaust them; a
\* stream in use names a descriptor that is open, and no other stream's; and
\* of the FILE pool no slot is lost but the one each failed fopen keeps.
HandlesOwned ==
    /\ dev.open = {dev.fds[i].id : i \in {k \in 1..Fds : InUse(k)}}
    /\ Cardinality(dev.open) = Cardinality({i \in 1..Fds : InUse(i)})
    /\ \A s \in 1..Fds : Stream(s) => InUse(dev.streams[s].fd)
    /\ \A s, t \in 1..Fds : Stream(s) /\ Stream(t) /\ dev.streams[s].fd = dev.streams[t].fd
                               => s = t
    /\ Cardinality({s \in 1..Fds : dev.streams[s].used /\ ~Stream(s)})
           = dev.leaked + (IF dev.creating = 0 THEN 0 ELSE 1)

\* A file that is not open holds what was written to it, through whichever
\* of the two interfaces, in whatever order of writes, seeks and closes, and
\* also when the session was destroyed with the file open; and a read of an
\* open file answers with it.
WritesLand ==
    /\ ~dev.misread
    /\ \A f \in Files :
           ~Busy(f) /\ f \notin dev.damaged => dev.disk[f] = dev.want[f]

\* An open that fails leaves the file as it was.
FailedOpenHarmless == dev.damaged = {}

\* Every slot of the FILE pool belongs to a stream the guest has.  It does not
\* hold of this code: a failed fopen keeps its slot (FinishFopen).
NoSlotLeaked == dev.leaked = 0
=============================================================================
