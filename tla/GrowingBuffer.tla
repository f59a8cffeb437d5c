---------------------------- MODULE GrowingBuffer ----------------------------
(***************************************************************************)
(* The growing buffer of shared.c: a block of memory, its size, and how    *)
(* much of it is used.  Bytes and formatted text are put behind what is    *)
(* used; the block is reallocated when they do not fit.                    *)
(***************************************************************************)
EXTENDS Integers, Sequences

CONSTANTS
    NUL,            \* '\0'
    Junk            \* a byte of memory that nobody has written

\* jf_growing_buffer_new
New(size) ==
    LET n == IF size > 0 THEN size ELSE 1024
    IN  [buf |-> [i \in 1 .. n |-> Junk], size |-> n, used |-> 0]

\* The size that jf_growing_buffer_make_space comes to for so many bytes in all.
NewSize(size, total) ==
    LET estimate == (total \div 2) * 3
    IN  IF total <= size THEN size ELSE IF estimate >= size * 2 THEN estimate ELSE size * 2

\* jf_growing_buffer_make_space: realloc keeps what was in the block.
MakeSpace(b, required) ==
    LET size == NewSize(b.size, b.used + required)
    IN  [b EXCEPT !.buf = [i \in 1 .. size |-> IF i <= b.size THEN b.buf[i] ELSE Junk],
                  !.size = size]

\* memcpy to behind what is used: what falls outside the block is not in the buffer.
Copied(b, data, length) ==
    [b EXCEPT !.buf = [i \in 1 .. b.size |->
        IF i \in b.used + 1 .. b.used + length THEN data[i - b.used] ELSE b.buf[i]]]

\* Where the first NUL is; strlen is one less.
FirstNul(data) == CHOOSE i \in DOMAIN data : data[i] = NUL /\ \A j \in 1 .. i - 1 : data[j] # NUL

\* jf_growing_buffer_append, where data is what lies in memory at the pointer. A length of
\* zero means as far as the first NUL.
Appended(b, data, length) ==
    LET n == IF length = 0 THEN FirstNul(data) - 1 ELSE length
    IN  [Copied(MakeSpace(b, n), data, n) EXCEPT !.used = @ + n]

\* Mutant: the terminating NUL needs no room.
PrintedTight(b, s) ==
    [Copied(MakeSpace(b, Len(s)), Append(s, NUL), Len(s) + 1) EXCEPT !.used = @ + Len(s)]

\* jf_growing_buffer_sprintf of what comes to the text s, which every caller lets begin
\* at the end: vsnprintf writes a NUL as well, that does not count as used.
Printed(b, s) ==
    [Copied(MakeSpace(b, Len(s) + 1), Append(s, NUL), Len(s) + 1) EXCEPT !.used = @ + Len(s)]

\* jf_growing_buffer_empty: the bytes stay where they are.
Emptied(b) == [b EXCEPT !.used = 0]
=============================================================================
