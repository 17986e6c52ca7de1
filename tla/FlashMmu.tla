------------------------------ MODULE FlashMmu ------------------------------
(***************************************************************************)
(* The flash MMU of the two targets: the table each ESP32 core owns and    *)
(* the one shared table of the ESP32-S3, the guest page table they are     *)
(* applied to, and the translations (predecoded and native code) made from *)
(* what the page table showed.  A physical page carries a version that     *)
(* every programmed or erased range advances; a translation remembers the  *)
(* page and the version it was made from.                                  *)
(***************************************************************************)
EXTENDS Naturals

CONSTANTS
    Cores,          \* the cores that own a table
    DataEntries,    \* entries of the data bus (DROM)
    CodeEntries,    \* entries of the instruction bus (IROM)
    Phys,           \* physical flash pages the backing holds
    Beyond,         \* page numbers past the end of the backing
    MaxVersions     \* bound: programmed versions of one page

VARIABLE dev

Entries == DataEntries \union CodeEntries
Invalid == "invalid"
Unmapped == "unmapped"
Loader == "loader"          \* the temporary linear mapping of mem_create
Values == Phys \union Beyond \union {Invalid}

FlashMmuAssumption ==
    /\ \E c, d \in Cores : c # d /\ Cores = {c, d}
    /\ DataEntries \intersect CodeEntries = {}
    /\ Phys \intersect Beyond = {} /\ MaxVersions \in Nat
    /\ {Invalid, Unmapped, Loader} \intersect (Phys \union Beyond) = {}

Other(c) == CHOOSE d \in Cores : d # c

\* What one table value makes of the pages of an entry.
Mapping(v) == IF v \in Phys THEN v ELSE Unmapped

Init ==
    \E shared \in BOOLEAN :
        dev = [shared    |-> shared,
               own       |-> [c \in Cores |-> [e \in Entries |-> Invalid]],
               effective |-> [e \in Entries |->
                                IF shared THEN Invalid ELSE Loader],
               page      |-> [e \in Entries |->
                                IF shared THEN Unmapped ELSE Loader],
               version   |-> [p \in Phys |-> 0],
               code      |-> [e \in CodeEntries |-> Unmapped]]

\* xtensa_invalidate_code on both engines: the entry's translations go.
InvalidateCode(d, es) ==
    [d EXCEPT !.code = [e \in CodeEntries |->
                          IF e \in es THEN Unmapped ELSE d.code[e]]]

\* The page table follows the value; an instruction entry drops its code.
ApplyEntry(d, e, v) ==
    InvalidateCode([d EXCEPT !.page[e] = Mapping(v)], {e} \intersect CodeEntries)

\* One core's table write: the other core's mapping survives an invalidation.
WriteEntry(c, e, v) ==
    LET other  == dev.own[Other(c)][e]
        chosen == IF v = Invalid /\ other # Invalid THEN other ELSE v
        d      == [dev EXCEPT !.own[c][e] = v]
    IN  /\ ~dev.shared
        /\ dev' = IF dev.effective[e] = chosen THEN d
                  ELSE ApplyEntry([d EXCEPT !.effective[e] = chosen], e, chosen)

\* The shared table: an entry that keeps its value is left alone.
WriteShared(e, v) ==
    /\ dev.shared
    /\ dev' = IF dev.effective[e] = v THEN dev
              ELSE ApplyEntry([dev EXCEPT !.effective[e] = v], e, v)

\* A programmed or erased page: every instruction entry that shows it.
FlashChanged(p) ==
    /\ dev.version[p] < MaxVersions
    /\ dev' = InvalidateCode([dev EXCEPT !.version[p] = @ + 1],
                             {e \in CodeEntries : dev.effective[e] = p})

\* A core executes through the entry: what it fetches is translated.
Execute(e) ==
    /\ dev.page[e] \in Phys
    /\ dev.code[e] = Unmapped
    /\ dev' = [dev EXCEPT !.code[e] = <<dev.page[e], dev.version[dev.page[e]]>>]

Next ==
    \/ \E c \in Cores, e \in Entries, v \in Values : WriteEntry(c, e, v)
    \/ \E e \in Entries, v \in Values : WriteShared(e, v)
    \/ \E p \in Phys : FlashChanged(p)
    \/ \E e \in CodeEntries : Execute(e)

Spec == Init /\ [][Next]_dev

-----------------------------------------------------------------------------
TypeOK ==
    /\ dev.own \in [Cores -> [Entries -> Values]]
    /\ dev.effective \in [Entries -> Values \union {Loader}]
    /\ dev.page \in [Entries -> Phys \union {Unmapped, Loader}]
    /\ dev.version \in [Phys -> 0..MaxVersions]

(* flash_mmu_write_entry: a page stays visible as long as any core still    *)
(* maps it, and shows a mapping some core asked for.                        *)
MappingsHonoured ==
    \A e \in Entries :
        /\ dev.shared => dev.page[e] = Mapping(dev.effective[e])
        /\ ~dev.shared /\ dev.page[e] # Loader =>
             LET asked == {dev.own[c][e] : c \in Cores} \ {Invalid}
             IN  IF asked = {} THEN dev.page[e] = Unmapped
                 ELSE dev.page[e] \in {Mapping(v) : v \in asked}

(* periph_flash_changed and flash_mmu_apply_entry: a translation never      *)
(* outlives the bytes it was made from, whichever alias was remapped or     *)
(* whichever physical page was programmed.                                  *)
NoStaleCode ==
    \A e \in CodeEntries :
        dev.code[e] # Unmapped =>
            /\ dev.page[e] \in Phys
            /\ dev.code[e] = <<dev.page[e], dev.version[dev.page[e]]>>
=============================================================================
