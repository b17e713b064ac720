------------------------------ MODULE PngWrite ------------------------------
(***************************************************************************)
(* png_write of src/recorder.c: a picture goes to path.tmp, as a signature *)
(* and the chunks IHDR, IDAT and IEND, and is then renamed to path. IDAT   *)
(* announces its length before its bytes: a zlib header, stored blocks and *)
(* a checksum. Every write can fail, and the program can die between two.  *)
(*                                                                         *)
(* A byte of the raw stream is its row and column; column 0 is the filter  *)
(* byte in front of a row. Recorder calls png_write.                       *)
(***************************************************************************)
EXTENDS Integers, Sequences

CONSTANTS
  Sizes,        \* row lengths (w * channels) and heights of pictures
  BLOCK         \* bytes in a stored block, at most: 65535

ASSUME PngAssumption ==
  /\ BLOCK \in Nat \ {0}
  /\ Sizes \subseteq [rowlen : Nat \ {0}, h : Nat \ {0}]

VARIABLES
  pc, size,     \* next step, "idle" between calls; the picture
  pos,          \* bytes of the raw stream written
  stream,       \* those bytes
  idat,         \* bytes written of IDAT's data
  finals,       \* for each block, its BFINAL
  tmp, path     \* what the files hold

pngVars == <<pc, size, pos, stream, idat, finals, tmp, path>>

stride == size.rowlen + 1
raw == stride * size.h
MinOf(a, b) == IF a < b THEN a ELSE b

Idle ==
  /\ pc = "idle" /\ size = [rowlen |-> 0, h |-> 0]
  /\ pos = 0 /\ stream = <<>> /\ idat = 0 /\ finals = <<>>
  /\ tmp = "none" /\ path = "none"

\* png_write is called, for a path where there is an older picture or none.
Called(there) ==
  /\ pc = "idle" /\ pc' = "open"
  /\ size' \in Sizes
  /\ path' = IF there THEN "old" ELSE "none"
  /\ UNCHANGED <<pos, stream, idat, finals, tmp>>

\* idat_len
IdatLen == 2 + raw + 5 * ((raw + BLOCK - 1) \div BLOCK) + 4

\* Mutant: after a row the column is that of its first pixel.
RawCopy_NoFilter(p, n) ==
  LET Copy[k \in 0 .. n] ==
        IF k = 0 THEN <<>>
        ELSE LET row == (p + k - 1) \div stride
                 col == (p + k - 1) % stride
             IN  Append(Copy[k - 1], <<row, IF col = 0 /\ k > 1 THEN 1 ELSE col>>)
  IN  Copy[n]

(***************************************************************************)
(* raw_copy of n bytes from position p: the filter byte at column 0, then  *)
(* as much of the row as is wanted, then the next row.                     *)
(***************************************************************************)
RawCopy(p, n) ==
  LET Copy[left \in 0 .. n] ==      \* the last left bytes wanted
        IF left = 0 THEN <<>>
        ELSE LET row == (p + n - left) \div stride
                 col == (p + n - left) % stride
                 take == IF col = 0 THEN 1 ELSE MinOf(stride - col, left)
             IN  [i \in 1 .. take |-> <<row, col + i - 1>>] \o Copy[left - take]
  IN  Copy[n]

-----------------------------------------------------------------------------
\* Mutant: the picture is written where it is wanted.
Open_InPlace ==
  /\ pc = "open"
  /\ \/ tmp' = "half" /\ path' = "half" /\ pc' = "header"
     \/ pc' = "failed" /\ UNCHANGED <<tmp, path>>
  /\ UNCHANGED <<size, pos, stream, idat, finals>>

Open ==
  /\ pc = "open"
  /\ \/ tmp' = "half" /\ pc' = "header"
     \/ pc' = "failed" /\ UNCHANGED tmp
  /\ UNCHANGED <<size, pos, stream, idat, finals, path>>

\* Mutant: the file is closed and left.
WriteFails_Leaves ==
  /\ pc \in {"header", "head", "block", "tail", "iend"}
  /\ pc' = "failed"
  /\ UNCHANGED <<size, pos, stream, idat, finals, tmp, path>>

\* A write that fails: the file is closed, and removed.
WriteFails ==
  /\ pc \in {"header", "head", "block", "tail", "iend"}
  /\ pc' = "failed" /\ tmp' = "none"
  /\ UNCHANGED <<size, pos, stream, idat, finals, path>>

\* Signature and IHDR; the head of IDAT with its length and the zlib header.
Header ==
  /\ pc = "header" /\ pc' = "head"
  /\ UNCHANGED <<size, pos, stream, idat, finals, tmp, path>>

IdatHead ==
  /\ pc = "head" /\ pc' = "block"
  /\ idat' = 2
  /\ UNCHANGED <<size, pos, stream, finals, tmp, path>>

\* Mutant: the last block is the one that is not full.
Block_FinalWhenShort ==
  /\ pc = "block"
  /\ LET n == MinOf(raw - pos, BLOCK)
     IN  /\ finals' = Append(finals, n < BLOCK)
         /\ stream' = stream \o RawCopy(pos, n)
         /\ idat' = idat + 5 + n
         /\ pos' = pos + n
         /\ pc' = IF pos' < raw THEN "block" ELSE "tail"
  /\ UNCHANGED <<size, tmp, path>>

Block ==
  /\ pc = "block"
  /\ LET n == MinOf(raw - pos, BLOCK)
     IN  /\ finals' = Append(finals, pos + n = raw)
         /\ stream' = stream \o RawCopy(pos, n)
         /\ idat' = idat + 5 + n
         /\ pos' = pos + n
         /\ pc' = IF pos' < raw THEN "block" ELSE "tail"
  /\ UNCHANGED <<size, tmp, path>>

\* The checksum ends IDAT; IEND ends the file.
IdatTail ==
  /\ pc = "tail" /\ pc' = "iend"
  /\ idat' = idat + 4
  /\ UNCHANGED <<size, pos, stream, finals, tmp, path>>

Iend ==
  /\ pc = "iend" /\ pc' = "rename"
  /\ tmp' = "whole"
  /\ UNCHANGED <<size, pos, stream, idat, finals, path>>

Rename ==
  /\ pc = "rename"
  /\ \/ pc' = "saved" /\ path' = tmp
     \/ pc' = "failed" /\ UNCHANGED path
  /\ tmp' = "none"
  /\ UNCHANGED <<size, pos, stream, idat, finals>>

\* It returns, 0 or -1.
Return ==
  /\ pc \in {"saved", "failed"}
  /\ pc' = "idle" /\ size' = [rowlen |-> 0, h |-> 0]
  /\ pos' = 0 /\ stream' = <<>> /\ idat' = 0 /\ finals' = <<>>
  /\ tmp' = "none" /\ path' = "none"

Writing == Open \/ WriteFails \/ Header \/ IdatHead \/ Block \/ IdatTail \/ Iend \/ Rename

-----------------------------------------------------------------------------
\* The raw stream: every row, with its filter byte in front.
Raw == [k \in 1 .. raw |-> <<(k - 1) \div stride, (k - 1) % stride>>]

(***************************************************************************)
(* A picture that is done is one a decoder accepts: IDAT is as long as was *)
(* announced before its blocks were cut, also when the last one is full,   *)
(* and the last block, and no other, is the final one.                     *)
(***************************************************************************)
Decodable ==
  pc \in {"iend", "rename", "saved"} =>
    /\ idat = IdatLen
    /\ Len(finals) > 0 /\ \A k \in 1 .. Len(finals) : finals[k] <=> k = Len(finals)

\* The blocks, wherever they cut rows, are together the raw stream.
StreamExact == stream = SubSeq(Raw, 1, pos)

\* When png_write returns, its temporary file is gone.
NoTmpLeft == pc \in {"saved", "failed"} => tmp = "none"

(***************************************************************************)
(* The file is a PNG, and its pixels are the picture's.                    *)
(***************************************************************************)
PictureExact ==
  /\ Decodable
  /\ StreamExact
=============================================================================
