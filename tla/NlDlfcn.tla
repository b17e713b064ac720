-------------------------------- MODULE NlDlfcn --------------------------------
(***************************************************************************)
(* lib/nl_dlfcn.c: a shared library is mapped and relocated by the program *)
(* itself. The file is anything: what it says of itself is checked, or the *)
(* load fails and leaves nothing behind.                                   *)
(*                                                                         *)
(* Addresses are counted in words from the load bias, so an address is the *)
(* p_vaddr it belongs to. A symbol, a relocation and a word of the hash    *)
(* table take a word each; the contents of the tables are whatever they    *)
(* may be. The ELF header is right or not.                                 *)
(***************************************************************************)
EXTENDS Integers, Sequences, FiniteSets

CONSTANTS
  PAGE,      \* NL_PAGE_SIZE, in words
  ADDRESSES, \* pages around the image: 0 .. ADDRESSES - 1
  MAX_VADDR, \* NL_MAX_VADDR
  MAX_SPAN,  \* NL_MAX_SPAN
  FSIZE,     \* size of the file
  PHNUM,     \* program headers of the file
  Phdrs,     \* what a program header may say
  Tables     \* what the dynamic section may say

VARIABLES
  dl,      \* where nl_dlopen is, its file descriptor, headers and segments
  mem,     \* page |-> who has it mapped, and how; word |-> value
  relocated \* history: words that relocations wrote

dlVars == <<dl, mem, relocated>>

Pages == 0 .. ADDRESSES - 1
Words == 0 .. ADDRESSES * PAGE - 1
PageOf(w) == w \div PAGE
Down(w) == w - (w % PAGE)
Up(w) == Down(w + PAGE - 1)
PagesOf(from, to) == {n \in Pages : from <= n * PAGE /\ n * PAGE < to}

\* Nobody's page, a page that is reserved.
Free == [owner |-> "other", write |-> FALSE]
Reserved == [owner |-> "none", write |-> FALSE]
Mapped(write) == [owner |-> "image", write |-> write]

Nothing == [page |-> [n \in Pages |-> Free], word |-> [w \in Words |-> "other"]]
NoImage == [pc |-> "closed", fd |-> FALSE, phdrs |-> <<>>, segs |-> <<>>, left |-> 0,
            min |-> 0, max |-> 0, tables |-> <<>>]

DlInit == dl = NoImage /\ mem = Nothing /\ relocated = {}

-----------------------------------------------------------------------------
\* munmap of the reservation
Unmapped == [page |-> [n \in Pages |-> IF n \in PagesOf(dl.min, dl.max) THEN Free ELSE mem.page[n]],
             word |-> [w \in Words |-> IF w \in dl.min .. dl.max - 1 THEN "other" ELSE mem.word[w]]]

\* Mutant: the reservation is not given back.
Fail_StaysMapped ==
  /\ dl' = [NoImage EXCEPT !.pc = "failed"]
  /\ relocated' = {}
  /\ UNCHANGED mem

\* _nl_fail
Fail ==
  /\ dl' = [NoImage EXCEPT !.pc = "failed"]
  /\ mem' = Unmapped
  /\ relocated' = {}

\* open, lseek, the ELF header
DlOpen ==
  /\ dl.pc \in {"closed", "failed"}
  /\ \/ dl' = [NoImage EXCEPT !.pc = "headers", !.fd = TRUE]
     \/ dl' = [NoImage EXCEPT !.pc = "failed"]
  /\ UNCHANGED <<mem, relocated>>

-----------------------------------------------------------------------------
IsLoad(p) == p.type = "LOAD" /\ p.memsz > 0
Loads(phdrs) == {k \in DOMAIN phdrs : IsLoad(phdrs[k])}

\* A PT_LOAD that is well formed.
Plausible(p) ==
  /\ p.vaddr <= MAX_VADDR /\ p.memsz <= MAX_SPAN
  /\ p.filesz <= p.memsz /\ p.offset <= FSIZE /\ p.filesz <= FSIZE - p.offset
  /\ p.vaddr % PAGE = p.offset % PAGE
  /\ ~(p.write /\ p.exec)
  /\ p.memsz > p.filesz => p.write

SharePage(p, q) ==
  /\ Down(p.vaddr) < Up(q.vaddr + q.memsz)
  /\ Down(q.vaddr) < Up(p.vaddr + p.memsz)

\* Mutant: segments that overlap are refused, those that share a page are not.
Acceptable_ByWord(phdrs, p) ==
  IsLoad(p) => /\ Plausible(p)
               /\ \A k \in Loads(phdrs) : \/ p.vaddr >= phdrs[k].vaddr + phdrs[k].memsz
                                          \/ phdrs[k].vaddr >= p.vaddr + p.memsz

Acceptable(phdrs, p) ==
  IsLoad(p) => Plausible(p) /\ \A k \in Loads(phdrs) : ~SharePage(p, phdrs[k])

\* The headers one by one.
CheckHeader ==
  /\ dl.pc = "headers" /\ Len(dl.phdrs) < PHNUM
  /\ \E p \in Phdrs :
       IF Acceptable(dl.phdrs, p)
       THEN dl' = [dl EXCEPT !.phdrs = Append(@, p)] /\ UNCHANGED <<mem, relocated>>
       ELSE Fail

LowestOf(S) == CHOOSE x \in S : \A y \in S : x <= y
HighestOf(S) == CHOOSE x \in S : \A y \in S : x >= y
LoadMin == Down(LowestOf({dl.phdrs[k].vaddr : k \in Loads(dl.phdrs)}))
LoadMax == Up(HighestOf({dl.phdrs[k].vaddr + dl.phdrs[k].memsz : k \in Loads(dl.phdrs)}))

\* The address range of the image is reserved, or cannot be.
Reserve ==
  /\ dl.pc = "headers" /\ Len(dl.phdrs) = PHNUM
  /\ \/ /\ Loads(dl.phdrs) # {} /\ LoadMax - LoadMin <= MAX_SPAN
        /\ dl' = [dl EXCEPT !.pc = "map", !.min = LoadMin, !.max = LoadMax, !.left = 1]
        /\ mem' = [mem EXCEPT !.page = [n \in Pages |->
                     IF n \in PagesOf(LoadMin, LoadMax) THEN Reserved ELSE @[n]]]
        /\ UNCHANGED relocated
     \/ Fail

-----------------------------------------------------------------------------
\* mmap with MAP_FIXED: the file from page-aligned offset off at address at.
FileAt(m, at, size, off, write) ==
  [page |-> [n \in Pages |-> IF n \in PagesOf(at, at + size) THEN Mapped(write) ELSE m.page[n]],
   word |-> [w \in Words |-> IF w \in at .. at + size - 1
                             THEN IF off + w - at < FSIZE THEN <<"file", off + w - at>> ELSE "zero"
                             ELSE m.word[w]]]
\* Zeros in words that are there already, and in fresh pages.
Cleared(m, from, to) ==
  [m EXCEPT !.word = [w \in Words |-> IF w \in from .. to - 1 THEN "zero" ELSE @[w]]]
ZeroPages(m, from, to) ==
  [Cleared(m, from, to) EXCEPT !.page =
     [n \in Pages |-> IF n \in PagesOf(from, to) THEN Mapped(TRUE) ELSE @[n]]]

FilePart(m, p) ==
  LET off == Down(p.offset)
  IN  IF p.filesz = 0 THEN m
      ELSE FileAt(m, Down(p.vaddr), Up(p.offset - off + p.filesz), off, p.write)

\* Mutant: what follows the file's part in its last page is left there.
ZeroPart_KeepsTail(m, p) ==
  LET fileEnd == p.vaddr + p.filesz
      bss == IF p.filesz > 0 THEN Up(fileEnd) ELSE Down(p.vaddr)
  IN  IF p.memsz = p.filesz THEN m ELSE ZeroPages(m, bss, Up(p.vaddr + p.memsz))

ZeroPart(m, p) ==
  LET fileEnd == p.vaddr + p.filesz
      memEnd == p.vaddr + p.memsz
      zeroTo == IF memEnd < Up(fileEnd) THEN memEnd ELSE Up(fileEnd)
      bss == IF p.filesz > 0 THEN Up(fileEnd) ELSE Down(p.vaddr)
  IN  IF p.memsz = p.filesz THEN m
      ELSE ZeroPages(IF p.filesz > 0 THEN Cleared(m, fileEnd, zeroTo) ELSE m, bss, Up(memEnd))

\* The segment does not leave the reservation.
Inside(p) ==
  /\ Down(p.vaddr) >= dl.min
  /\ Up(p.vaddr + p.memsz) <= dl.max
  /\ Down(p.vaddr) + Up((p.offset % PAGE) + p.filesz) <= dl.max

\* A header's segment is mapped; each mmap can fail.
MapSegment ==
  /\ dl.pc = "map" /\ dl.left <= PHNUM
  /\ LET p == dl.phdrs[dl.left]
     IN  IF ~IsLoad(p)
         THEN dl' = [dl EXCEPT !.left = @ + 1] /\ UNCHANGED <<mem, relocated>>
         ELSE \/ /\ Inside(p)
                 /\ mem' = ZeroPart(FilePart(mem, p), p)
                 /\ dl' = [dl EXCEPT !.left = @ + 1,
                                     !.segs = Append(@, [start |-> p.vaddr, end |-> p.vaddr + p.memsz,
                                                         write |-> p.write])]
                 /\ UNCHANGED relocated
              \/ Fail

-----------------------------------------------------------------------------
\* _nl_at: a range that lies in one segment, which is writable if need be.
At(from, len, write) ==
  \E k \in DOMAIN dl.segs :
    /\ from >= dl.segs[k].start /\ from <= dl.segs[k].end
    /\ len <= dl.segs[k].end - from
    /\ write => dl.segs[k].write

\* The file is closed; the dynamic section is in a segment, is complete, and
\* its tables are in the image.
Dynamic ==
  /\ dl.pc = "map" /\ dl.left > PHNUM
  /\ \/ \E k \in DOMAIN dl.phdrs, t \in Tables :
          /\ dl.phdrs[k].type = "DYNAMIC"
          /\ \A j \in 1 .. k - 1 : dl.phdrs[j].type # "DYNAMIC"
          /\ dl.phdrs[k].memsz > 0 /\ At(dl.phdrs[k].vaddr, dl.phdrs[k].memsz, FALSE)
          /\ t.nsym > 0 /\ t.strsz > 0
          /\ At(t.hash, 1 + t.nsym, FALSE)
          /\ At(t.sym, t.nsym, FALSE) /\ At(t.str, t.strsz, FALSE)
          /\ t.nrela > 0 => At(t.rela, t.nrela, FALSE)
          /\ dl' = [dl EXCEPT !.pc = "relocate", !.fd = FALSE, !.tables = t, !.left = t.nrela]
          /\ UNCHANGED <<mem, relocated>>
     \/ Fail

\* Mutant: the target only has to be in the image.
Relocate_Anywhere ==
  /\ dl.pc = "relocate" /\ dl.left > 0
  /\ \E w \in Words :
       /\ At(w, 1, FALSE)
       /\ mem' = [mem EXCEPT !.word[w] = "relocated"]
       /\ relocated' = relocated \cup {w}
  /\ dl' = [dl EXCEPT !.left = @ - 1]

(***************************************************************************)
(* _nl_apply_rela, one entry: no change for NONE, a word that is written,  *)
(* or a target, a symbol, a name or a type that is refused.                *)
(***************************************************************************)
Relocate ==
  /\ dl.pc = "relocate" /\ dl.left > 0
  /\ \/ \E w \in Words :
          /\ At(w, 1, TRUE)
          /\ \/ mem' = [mem EXCEPT !.word[w] = "relocated"] /\ relocated' = relocated \cup {w}
             \/ UNCHANGED <<mem, relocated>>
          /\ dl' = [dl EXCEPT !.left = @ - 1]
     \/ Fail

\* The handle, if there is memory for it.
MakeHandle ==
  /\ dl.pc = "relocate" /\ dl.left = 0
  /\ \/ dl' = [dl EXCEPT !.pc = "open"] /\ UNCHANGED <<mem, relocated>>
     \/ Fail

\* nl_dlclose
DlClose ==
  /\ dl.pc = "open"
  /\ dl' = NoImage
  /\ mem' = Unmapped
  /\ relocated' = {}

DlNext ==
  \/ DlOpen \/ CheckHeader \/ Reserve \/ MapSegment \/ Dynamic \/ Relocate \/ MakeHandle \/ DlClose

-----------------------------------------------------------------------------
\* What the loader maps stays in the range it reserved.
OthersUntouched ==
  \A n \in Pages : mem.page[n].owner = "other" <=>
    n \notin (IF dl.pc \in {"map", "relocate", "open"} THEN PagesOf(dl.min, dl.max) ELSE {})

\* A load that fails, or a library that is closed, leaves no mapping and no
\* file open.
FailureLeavesNothing == dl.pc \in {"closed", "failed"} => mem = Nothing /\ ~dl.fd

\* What a word of a segment holds: the file's, or zero behind it.
Content(p, w) == IF w < p.vaddr + p.filesz THEN <<"file", p.offset + w - p.vaddr>> ELSE "zero"

\* The memory that the segment table describes is there: no segment has
\* replaced a page of another, and zeros are zeros.
SegmentsAreThere ==
  \A k \in DOMAIN dl.segs : \E h \in Loads(dl.phdrs) :
    LET p == dl.phdrs[h]
    IN  /\ p.vaddr = dl.segs[k].start
        /\ \A w \in dl.segs[k].start .. dl.segs[k].end - 1 :
             /\ mem.page[PageOf(w)] = Mapped(dl.segs[k].write)
             /\ mem.word[w] = IF w \in relocated THEN "relocated" ELSE Content(p, w)

\* Relocations write where the file says memory is writable.
WritesAllowed == \A w \in relocated : mem.page[PageOf(w)] = Mapped(TRUE)

ImageSound == OthersUntouched /\ FailureLeavesNothing /\ SegmentsAreThere /\ WritesAllowed
=============================================================================
