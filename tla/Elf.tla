-------------------------------- MODULE Elf --------------------------------
(***************************************************************************)
(* elf_loader.c: elf_initialize loads the program of the root task.        *)
(*                                                                         *)
(* A file is [ok, phdrs]: whether its headers pass the checks, and its     *)
(* program headers.  Byte k of a file is the number k + 1; zeroed memory   *)
(* holds 0.  Memory as the program sees it is a function of its addresses; *)
(* elf_map gives a segment a block of its own, so mapping the segment      *)
(* replaces what was visible there.                                        *)
(***************************************************************************)
EXTENDS Integers, Sequences, FiniteSets

CONSTANTS
  Files,      \* the images: [ok, phdrs]
  PAGE_SIZE,
  MAX_BLOCK,  \* the largest block gran_alloc gives
  Addresses,  \* bound: addresses of the program
  Unmapped

ASSUME ElfAssumption ==
  /\ PAGE_SIZE \in Nat \ {0}
  /\ MAX_BLOCK \in Nat
  /\ \A f \in Files : \A i \in DOMAIN f.phdrs :
       LET p == f.phdrs[i]
       IN  /\ p.type \in {"NULL", "LOAD", "DYNAMIC", "INTERP", "NOTE"}
           /\ p.flags \in {"RX", "RW", "R"}
           /\ p.align \in Nat \ {0} /\ p.align % PAGE_SIZE = 0

VARIABLES
  file,     \* the image being loaded
  pc,       \* "header", "load", "populate", "remove", "done" or "panic"
  n,        \* program headers read
  segs,     \* elf->segs
  next,     \* position of populate_segments in segs
  blocks,   \* descriptors allocated and not freed
  mem,      \* what the program would read: address -> byte or Unmapped
  mm        \* task->mm

vars == <<file, pc, n, segs, next, blocks, mem, mm>>

Init ==
  /\ file \in Files
  /\ pc = "header"
  /\ n = 0
  /\ segs = << >>
  /\ next = 1
  /\ blocks = 0
  /\ mem = [a \in Addresses |-> Unmapped]
  /\ mm = [start_code |-> 0, end_code |-> 0, start_data |-> 0, end_data |-> 0,
           end_bss |-> 0, start_brk |-> 0]

-----------------------------------------------------------------------------
ALIGN(a, to) == ((a + to - 1) \div to) * to

\* elf64_header_check and elf_arch_check; boot_user_elf panics on an error.
header_check ==
  /\ pc = "header"
  /\ pc' = IF file.ok /\ file.phdrs # << >> THEN "load" ELSE "panic"
  /\ UNCHANGED <<file, n, segs, next, blocks, mem, mm>>

\* mmap grows down, so the loader uses a stack.
segment_stack_push(p) == <<p>> \o segs

\* Mutant: add_segment without its test.
add_segment_any(p) ==
  /\ blocks' = blocks + 1
  /\ segs' = segment_stack_push(p)

\* add_segment allocates the descriptor before it tests the sizes.
add_segment(p) ==
  /\ blocks' = blocks + 1
  /\ segs' = IF p.memsz < p.filesz THEN segs ELSE segment_stack_push(p)

load_segments ==
  /\ pc = "load"
  /\ n < Len(file.phdrs)
  /\ n' = n + 1
  /\ LET p == file.phdrs[n + 1]
     IN  /\ pc' = IF p.type = "NULL" THEN "panic" ELSE "load"
         /\ IF p.type \in {"LOAD", "DYNAMIC"} THEN add_segment(p)
            ELSE UNCHANGED <<segs, blocks>>
  /\ UNCHANGED <<file, next, mem, mm>>

load_done ==
  /\ pc = "load"
  /\ n = Len(file.phdrs)
  /\ pc' = "populate"
  /\ UNCHANGED <<file, n, segs, next, blocks, mem, mm>>

-----------------------------------------------------------------------------
set_mm(s) ==
  IF s.flags = "RX"
  THEN [mm EXCEPT !.start_code = s.vaddr, !.end_code = s.vaddr + s.memsz]
  ELSE [mm EXCEPT !.start_data = s.vaddr, !.end_data = s.vaddr + s.filesz,
                  !.end_bss = s.vaddr + s.memsz,
                  !.start_brk = ALIGN(s.vaddr + s.memsz, PAGE_SIZE)]

align_addr(s) == (s.vaddr \div s.align) * s.align
align_size(s) == ALIGN((s.vaddr % s.align) + s.memsz, s.align)

\* Mutant: the last byte is not copied.
copied_short(s, off) == IF off + 1 < s.filesz THEN s.offset + off + 1 ELSE 0

\* The block's bytes after copy_segment: elf_map has put the address of the
\* block into seg->vaddr, so the copy starts at the block's first byte.
copied(s, off) == IF off < s.filesz THEN s.offset + off + 1 ELSE 0

\* elf_map and copy_segment.
elf_map(s) ==
  [a \in Addresses |->
     IF a \in align_addr(s) .. align_addr(s) + align_size(s) - 1
     THEN copied(s, a - align_addr(s)) ELSE mem[a]]

populate_segments ==
  /\ pc = "populate"
  /\ next <= Len(segs)
  /\ LET s == segs[next]
     IN  IF s.type # "LOAD"
         THEN next' = next + 1 /\ UNCHANGED <<pc, mem, mm>>
         ELSE IF s.flags \notin {"RX", "RW"} \/ align_size(s) > MAX_BLOCK
         THEN pc' = "panic" /\ UNCHANGED <<next, mem, mm>>
         ELSE /\ next' = next + 1
              /\ mm' = set_mm(s)
              /\ mem' = elf_map(s)
              /\ UNCHANGED pc
  /\ UNCHANGED <<file, n, segs, blocks>>

populate_done ==
  /\ pc = "populate"
  /\ next > Len(segs)
  /\ pc' = "remove"
  /\ UNCHANGED <<file, n, segs, next, blocks, mem, mm>>

remove_segments ==
  /\ pc = "remove"
  /\ IF segs = << >> THEN pc' = "done" /\ UNCHANGED <<segs, blocks>>
     ELSE segs' = Tail(segs) /\ blocks' = blocks - 1 /\ UNCHANGED pc
  /\ UNCHANGED <<file, n, next, mem, mm>>

Next ==
  \/ header_check
  \/ load_segments
  \/ load_done
  \/ populate_segments
  \/ populate_done
  \/ remove_segments

Spec == Init /\ [][Next]_vars

-----------------------------------------------------------------------------
loadable(p) == p.type = "LOAD" /\ p.memsz >= p.filesz
headers == {file.phdrs[i] : i \in DOMAIN file.phdrs}

\* Types of the variables; the loader never frees a descriptor it does not have.
TypeOK ==
  /\ pc \in {"header", "load", "populate", "remove", "done", "panic"}
  /\ n \in 0 .. Len(file.phdrs)
  /\ \A i \in DOMAIN segs : segs[i] \in headers
  /\ next \in 1 .. Len(file.phdrs) + 1
  /\ blocks \in 0 .. Len(file.phdrs)

\* The loader's purpose (populate_segments: the segments are copied to the
\* addresses they run at): when the task can start, every byte of every
\* loadable segment is at its address, and the rest of the segment is zero.
ImageVisible ==
  pc = "done" =>
    \A p \in headers : loadable(p) =>
      \A k \in 0 .. p.memsz - 1 :
        mem[p.vaddr + k] = IF k < p.filesz THEN p.offset + k + 1 ELSE 0

\* brk starts on a page of its own, behind everything the file asked for: the
\* heap's first page never replaces part of .bss, whatever the order of the
\* headers.
BreakBehindImage ==
  pc = "done" =>
    \A p \in headers : loadable(p) => p.vaddr + p.memsz <= mm.start_brk

\* A loaded program finds its image in place, and a heap that grows from
\* start_brk leaves it there.
ImageInPlace == ImageVisible /\ BreakBehindImage

\* After remove_segments the only descriptors left are those of headers that
\* add_segment rejected after it had allocated them.
DescriptorsFreed ==
  pc = "done" =>
    blocks = Cardinality({i \in DOMAIN file.phdrs :
                            /\ file.phdrs[i].type \in {"LOAD", "DYNAMIC"}
                            /\ file.phdrs[i].memsz < file.phdrs[i].filesz})
============================================================================
