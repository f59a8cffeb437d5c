------------------------------ MODULE TextBuffer ------------------------------
(***************************************************************************)
(* A growing buffer in use, as the URLs, the messages to mpv, the names of *)
(* items and the SAX parser's fields use one: text is appended by its      *)
(* length or formatted, a NUL is put behind it, and the buffer is emptied  *)
(* for the next text.  A buffer that is made anew for every text is one of *)
(* those that are emptied, with less behind it.                            *)
(***************************************************************************)
EXTENDS GrowingBuffer

CONSTANTS
    Texts,          \* what is put in at a time
    Rests,          \* what may lie in memory behind a text that is not terminated
    FirstSize,      \* the size that the buffer is made with
    MaxUsed         \* bound: bytes in the buffer

ASSUME SizeAssumption == FirstSize \in Nat
ASSUME BoundAssumption == MaxUsed \in Nat
ASSUME TextsAssumption ==
    \A s \in Texts : s \in Seq(STRING) /\ \A i \in 1 .. Len(s) : s[i] # NUL
ASSUME RestsAssumption ==
    \A r \in Rests : r \in Seq(STRING \cup {NUL}) /\ r # <<>> /\ r[Len(r)] = NUL

VARIABLES
    buffer,         \* the jf_growing_buffer
    text,           \* history: what has been put in since it was last emptied
    closed          \* history: whether the text is to be terminated

vars == <<buffer, text, closed>>

Init ==
    /\ buffer = New(FirstSize)
    /\ text = <<>> /\ closed = FALSE

\* Text with its length, out of a piece of memory that goes on with rest. No caller means
\* anything but the empty text by a length of zero.
Add(s, rest) ==
    /\ Len(text) + Len(s) <= MaxUsed
    /\ buffer' = Appended(buffer, s \o rest, Len(s))
    /\ text' = text \o s /\ closed' = FALSE

\* A NUL: jf_growing_buffer_append(buffer, "", 1)
Close ==
    /\ Len(text) < MaxUsed
    /\ buffer' = Appended(buffer, <<NUL>>, 1)
    /\ text' = Append(text, NUL) /\ closed' = FALSE

Format(s) ==
    /\ Len(text) + Len(s) <= MaxUsed
    /\ buffer' = Printed(buffer, s)
    /\ text' = text \o s /\ closed' = TRUE

Empty ==
    /\ buffer' = Emptied(buffer)
    /\ text' = <<>> /\ closed' = FALSE

Next ==
    \/ \E s \in Texts, rest \in Rests : Add(s, rest)
    \/ Close
    \/ \E s \in Texts : Format(s)
    \/ Empty

Spec == Init /\ [][Next]_vars

\* The buffer holds all that was put in it, in its own memory, however often it has grown or
\* been emptied and filled again; and behind a formatted text, which its readers take for
\* a string, there is a NUL in its memory too. Where the text is the name of an item, read
\* into a buffer that had another name before, it is the whole name and no more (shared.c
\* 212-283, disk.c 258-274).
TextKept ==
    /\ buffer.used = Len(text) /\ buffer.used <= buffer.size
    /\ \A i \in 1 .. Len(text) : buffer.buf[i] = text[i]
    /\ closed => buffer.used < buffer.size /\ buffer.buf[buffer.used + 1] = NUL
=============================================================================
