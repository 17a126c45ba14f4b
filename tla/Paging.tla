------------------------------- MODULE Paging -------------------------------
(***************************************************************************)
(* arch/i386: two-level page tables, reached through the recursive slot    *)
(* (the last entry of the page directory points to the directory itself).  *)
(* `mem' holds the frames that serve as tables, as the processor would     *)
(* read them; `tlb' holds, for every page, the translation the processor   *)
(* may still use.  In the worst case that is every translation which was   *)
(* ever present and has not been invalidated since.  Addresses are page    *)
(* numbers; offsets inside a page are left out.                            *)
(***************************************************************************)
EXTENDS Integers, Sequences, FiniteSets, FiniteSetsExt

CONSTANTS
    ENTRIES_AMOUNT, \* entries of a table, and pages of a table's span
    page_directory, \* the frame of the page directory
    kernel_tables,  \* the first frame of the tables for the high half
    boot_tables,    \* the first frame of the tables for the identity map
    Frames          \* the frames that exist

ASSUME PagingAssumption ==
    /\ ENTRIES_AMOUNT \in Nat \ {0, 1}
    /\ Frames \subseteq Nat
    /\ {page_directory, kernel_tables, boot_tables} \subseteq Frames \ {0}

NULL   == 0
Pages  == 0 .. ENTRIES_AMOUNT * ENTRIES_AMOUNT - 1
Absent == [frame |-> NULL, flags |-> {}]
Zeroed == [i \in 0 .. ENTRIES_AMOUNT - 1 |-> Absent]

(* Op of the value v, which is evaluated once.                             *)
With(v, Op(_)) == CHOOSE r \in {Op(x) : x \in {v}} : TRUE

get_pde_index(va) == va \div ENTRIES_AMOUNT
get_pte_index(va) == va % ENTRIES_AMOUNT
Present(entry)    == "PRESENT" \in entry.flags

(* 0xFFC00000 + dir_index * PAGE_SIZE; for the last index, 0xFFFFF000.     *)
TableWindow(dir_index) == (ENTRIES_AMOUNT - 1) * ENTRIES_AMOUNT + dir_index

(* What the processor finds when it walks the tables.  A page can be       *)
(* written when both levels allow it.                                      *)
Walk(mem, va) ==
    LET pde == mem[page_directory][get_pde_index(va)]
        pte == mem[pde.frame][get_pte_index(va)]
    IN  IF ~ Present(pde) \/ ~ Present(pte) THEN Absent
        ELSE [frame |-> pte.frame, flags |-> pte.flags \cap pde.flags]

(* The table seen through its window.                                      *)
Window(mem, dir_index) == Walk(mem, TableWindow(dir_index)).frame

get_table_entry(mem, va) == mem[Window(mem, ENTRIES_AMOUNT - 1)][get_pde_index(va)]
get_page_table(mem, dir_index) ==
    IF Present(mem[Window(mem, ENTRIES_AMOUNT - 1)][dir_index]) THEN TableWindow(dir_index) ELSE NULL
virt_to_phys(mem, va) ==
    IF ~ Present(get_table_entry(mem, va)) THEN NULL
    ELSE LET pte == mem[Window(mem, get_pde_index(va))][get_pte_index(va)]
         IN  IF Present(pte) THEN pte.frame ELSE NULL

paging_to_hw_flags(paging_flags) ==
    paging_flags \cap {"ACCESS", "DIRTY", "WRITE", "USER", "PRESENT"}

KernelFlags == {"PRESENT", "WRITE"}

-----------------------------------------------------------------------------
(* Until paging is on, tables are written at their physical addresses.     *)
(* New tables come from the array free_pt points into, in order.           *)
map_span(mem, free_pt, va, pa, pages) ==
    LET span  == va .. va + pages - 1
        dirs  == {get_pde_index(v) : v \in span}
        fresh == {d \in dirs : ~ Present(mem[page_directory][d])}
        pt(d) == IF d \in fresh THEN free_pt + Cardinality({e \in fresh : e < d})
                 ELSE mem[page_directory][d].frame
        row(f, i) ==
            IF f = page_directory /\ i \in fresh THEN [frame |-> pt(i), flags |-> KernelFlags]
            ELSE IF \E d \in dirs : pt(d) = f /\ d * ENTRIES_AMOUNT + i \in span
            THEN [frame |-> pa + (CHOOSE d \in dirs : pt(d) = f) * ENTRIES_AMOUNT + i - va, flags |-> KernelFlags]
            ELSE IF \E d \in fresh : pt(d) = f THEN Absent
            ELSE mem[f][i]
    IN  [mem     |-> [f \in Frames |-> [i \in DOMAIN Zeroed |-> row(f, i)]],
         free_pt |-> free_pt + Cardinality(fresh)]

(* The first table's span mapped to itself, the boot sections and the      *)
(* kernel proper mapped high, and the directory's recursive slot.          *)
init_paging(boot_base, kernel_base, kernel_end, off) ==
    With(map_span([f \in Frames |-> Zeroed], boot_tables, 0, 0, ENTRIES_AMOUNT), LAMBDA identity :
    With(map_span(identity.mem, kernel_tables, boot_base + off, boot_base, kernel_base - boot_base), LAMBDA boot :
    With(map_span(boot.mem, boot.free_pt, kernel_base + off, kernel_base, kernel_end - kernel_base), LAMBDA kernel :
        [kernel.mem EXCEPT ![page_directory][ENTRIES_AMOUNT - 1] =
            [frame |-> page_directory, flags |-> KernelFlags]])))

(* The worst case after the tables are loaded: every present page cached.  *)
set_cr3(mem) == [va \in Pages |-> Walk(mem, va)]

-----------------------------------------------------------------------------
(* s has the fields mem and tlb.  A page that was not present is not       *)
(* cached, so the first use of the new table's window finds it.            *)
map_table_entry(s, frame, va) ==
    LET d == get_pde_index(va)
        m == [s.mem EXCEPT ![Window(s.mem, ENTRIES_AMOUNT - 1)][d] = [frame |-> frame, flags |-> KernelFlags]]
    IN  [s EXCEPT !.mem = [m EXCEPT ![Window(m, d)] = Zeroed],
                  !.tlb[TableWindow(d)] = Walk(m, TableWindow(d))]

(* The entries of n pages in one table.  A translation that was present    *)
(* stays cached until invlpg; one that was not is found by the next walk.  *)
SetEntries(mem, pa, va, n, flags) ==
    [mem EXCEPT ![Window(mem, get_pde_index(va))] = [i \in DOMAIN @ |->
        IF i \in get_pte_index(va) .. get_pte_index(va) + n - 1
        THEN [frame |-> pa + i - get_pte_index(va), flags |-> flags] ELSE @[i]]]

(* Variant: the stale translations are not invalidated.                    *)
map_page_entry_stale(s, pa, va, n, flags) ==
    With(SetEntries(s.mem, pa, va, n, flags), LAMBDA m :
        [s EXCEPT !.mem = m,
                  !.tlb = [p \in Pages |-> IF p \in va .. va + n - 1 /\ ~ Present(@[p]) THEN Walk(m, p) ELSE @[p]]])
map_page_entry(s, pa, va, n, flags) ==
    With(SetEntries(s.mem, pa, va, n, flags), LAMBDA m :
        [s EXCEPT !.mem = m,
                  !.tlb = [p \in Pages |-> IF p \in va .. va + n - 1 THEN Walk(m, p) ELSE @[p]]])

=============================================================================
