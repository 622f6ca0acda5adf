------------------------------- MODULE MCElf -------------------------------
(* Pages of two bytes.                                                     *)
EXTENDS Elf

Phdr(type, flags, vaddr, offset, filesz, memsz, align) ==
  [type |-> type, flags |-> flags, vaddr |-> vaddr, offset |-> offset,
   filesz |-> filesz, memsz |-> memsz, align |-> align]

\* As the application's linker script lays it out: code at 0, data on a page of
\* its own, p_align the page size.
Code == {Phdr("LOAD", "RX", 0, 0, s, s, 2) : s \in 1 .. 4}
Data == {Phdr("LOAD", "RW", v, 4, s, m, 2) : v \in {4, 6}, s \in 0 .. 3, m \in 1 .. 5}
Extra == {Phdr("NOTE", "R", 0, 0, 1, 1, 2), Phdr("INTERP", "R", 0, 0, 1, 1, 2),
          Phdr("DYNAMIC", "RW", 4, 4, 1, 1, 2), Phdr("DYNAMIC", "RW", 4, 4, 2, 1, 2),
          Phdr("NULL", "R", 0, 0, 0, 0, 2), Phdr("LOAD", "R", 12, 0, 1, 1, 2),
          Phdr("LOAD", "RW", 4, 0, 9, 9, 2)}

MCFiles ==
  LET image(ok, phdrs) == [ok |-> ok, phdrs |-> phdrs]
      wellsized == {d \in Data : d.filesz <= d.memsz}
  IN  {image(TRUE, <<c, d>>) : c \in Code, d \in wellsized}
      \cup {image(TRUE, <<d, c>>) : c \in Code, d \in wellsized}
      \cup {image(TRUE, <<c, e, d>>) : c \in Code, e \in Extra, d \in wellsized}
      \cup {image(FALSE, <<c>>) : c \in Code}

\* A data segment that does not start on a multiple of its alignment.
MCUnalignedFiles ==
  {[ok |-> TRUE, phdrs |-> <<c, Phdr("LOAD", "RW", 5, 4, 2, 3, 2)>>] : c \in Code}
============================================================================
