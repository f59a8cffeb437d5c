------------------------- MODULE ItemRecordProofs --------------------------
(***************************************************************************)
(* A growing buffer keeps what is put in it, for texts of any number and   *)
(* length and a buffer of any size to begin with; and every record reads   *)
(* back as its item, for items of any kind and as deep as they may be.     *)
(***************************************************************************)
(* The second rests on the invariant that at each position's offset lies   *)
(* the record of its item; what is written later only goes behind it.      *)
(* That the record is then read as it was written is told part by part:    *)
(* a string is read up to its NUL, and comes out of the buffer it is read  *)
(* into; the children are read one after the other, each where the one     *)
(* before it ended, by an argument on the lowest item for which it fails.  *)
(***************************************************************************)
EXTENDS ItemRecord, SequenceTheorems, WellFoundedInduction, TLAPS

\* What lies behind an empty text is a NUL.
Terminated == \A r \in Rests : r[1] = NUL

Chars == STRING \cup {NUL}

\* A jf_growing_buffer: its block has size bytes.
IsBuffer(b) ==
    /\ b = [buf |-> [i \in 1 .. b.size |-> b.buf[i]], size |-> b.size, used |-> b.used]
    /\ b.size \in Nat \ {0} /\ b.used \in Nat

IInv ==
    /\ IsBuffer(buffer)
    /\ text \in Seq(Chars)
    /\ TextKept

\* The room that is made is enough: the estimate rounds down, but not below what is asked.
LEMMA NewSizeEnough ==
  ASSUME NEW size \in Nat \ {0}, NEW total \in Nat
  PROVE  NewSize(size, total) \in Nat \ {0} /\ NewSize(size, total) >= total
                                            /\ NewSize(size, total) >= size
<1> DEFINE half == total \div 2
<1>1. half \in Nat /\ total <= 2 * half + 1
  OBVIOUS
<1>2. NewSize(size, total)
        = IF total <= size THEN size ELSE IF half * 3 >= size * 2 THEN half * 3 ELSE size * 2
  BY DEF NewSize
<1> HIDE DEF half
<1>3. total > size => half >= 1
  BY <1>1
<1> QED  BY <1>1, <1>2, <1>3

\* The buffer with n bytes of data, after room was made for as many or more.
Put(b, room, data, n, used) == [Copied(MakeSpace(b, room), data, n) EXCEPT !.used = used]

\* Chars that room was made for are in the buffer, behind those that were there.
LEMMA PutIn ==
  ASSUME NEW b, IsBuffer(b), b.used <= b.size,
         NEW room \in Nat, NEW n \in 0 .. room, NEW data, NEW used \in Nat
  PROVE  /\ IsBuffer(Put(b, room, data, n, used)) /\ Put(b, room, data, n, used).used = used
         /\ b.used + room <= Put(b, room, data, n, used).size
         /\ \A i \in 1 .. b.used : Put(b, room, data, n, used).buf[i] = b.buf[i]
         /\ \A i \in 1 .. n : Put(b, room, data, n, used).buf[b.used + i] = data[i]
<1> DEFINE size == NewSize(b.size, b.used + room)
           block == [i \in 1 .. size |-> IF i <= b.size THEN b.buf[i] ELSE Junk]
           filled == [i \in 1 .. size |->
                        IF i \in b.used + 1 .. b.used + n THEN data[i - b.used] ELSE block[i]]
<1>1. b.size \in Nat \ {0} /\ b.used \in Nat
  BY DEF IsBuffer
<1>2. size \in Nat \ {0} /\ b.used + room <= size /\ b.size <= size
  <2>1. b.used + room \in Nat
    BY <1>1
  <2> QED  BY <1>1, <2>1, NewSizeEnough
<1>3. MakeSpace(b, room) = [buf |-> block, size |-> size, used |-> b.used]
  <2> HIDE DEF block, size
  <2>1. MakeSpace(b, room) = [b EXCEPT !.buf = block, !.size = size]
    BY DEF MakeSpace, block, size
  <2> QED  BY <2>1 DEF IsBuffer
<1>4. Copied(MakeSpace(b, room), data, n) = [buf |-> filled, size |-> size, used |-> b.used]
  <2> DEFINE m == MakeSpace(b, room)
  <2>1. m.buf = block /\ m.size = size /\ m.used = b.used
    <3> HIDE DEF block, size, m
    <3>1. m = [buf |-> block, size |-> size, used |-> b.used]
      BY <1>3 DEF m
    <3> QED  BY <3>1
  <2>2. Copied(m, data, n) = [m EXCEPT !.buf = [i \in 1 .. m.size |->
            IF i \in m.used + 1 .. m.used + n THEN data[i - m.used] ELSE m.buf[i]]]
    BY DEF Copied
  <2>3. Copied(m, data, n) = [m EXCEPT !.buf = filled]
    <3> HIDE DEF block, size, m
    <3> QED  BY <2>1, <2>2
  <2> HIDE DEF filled, block, size
  <2> QED  BY <1>3, <2>3
<1> DEFINE r == Put(b, room, data, n, used)
<1>5. r = [buf |-> filled, size |-> size, used |-> used]
  <2> HIDE DEF filled, size
  <2> QED  BY <1>4 DEF Put
<1>6. r.buf = filled /\ r.size = size /\ r.used = used
  <2> HIDE DEF filled, size, r
  <2> QED  BY <1>5
<1>7. filled = [i \in 1 .. size |-> filled[i]]
  OBVIOUS
<1>8. \A i \in 1 .. b.used : filled[i] = b.buf[i]
  <2> HIDE DEF size
  <2> QED  BY <1>1, <1>2
<1>9. \A i \in 1 .. n : filled[b.used + i] = data[i]
  <2> TAKE i \in 1 .. n
  <2> DEFINE j == b.used + i
  <2>1. j \in 1 .. size /\ j \in b.used + 1 .. b.used + n /\ j - b.used = i
    BY <1>1, <1>2
  <2> HIDE DEF j, size, block
  <2>2. filled[j] = data[j - b.used]
    BY <2>1
  <2> QED  BY <2>1, <2>2 DEF j
<1> HIDE DEF filled, size, r
<1>10. IsBuffer(r)
  BY <1>2, <1>5, <1>6, <1>7 DEF IsBuffer
<1> QED  BY <1>2, <1>6, <1>8, <1>9, <1>10 DEF r

\* A text behind another is read on from the end of the first.
LEMMA TextBehind ==
  ASSUME NEW t \in Seq(Chars), NEW s \in Seq(Chars)
  PROVE  /\ t \o s \in Seq(Chars) /\ Len(t \o s) = Len(t) + Len(s)
         /\ Len(t) \in Nat /\ Len(s) \in Nat
         /\ \A i \in 1 .. Len(t) : (t \o s)[i] = t[i]
         /\ \A i \in 1 .. Len(s) : (t \o s)[Len(t) + i] = s[i]
<1>1. /\ t \o s \in Seq(Chars) /\ Len(t \o s) = Len(t) + Len(s)
      /\ \A i \in 1 .. Len(t) + Len(s) : (t \o s)[i] = IF i <= Len(t) THEN t[i] ELSE s[i - Len(t)]
  BY ConcatProperties
<1>2. Len(t) \in Nat /\ Len(s) \in Nat
  BY LenProperties
<1> HIDE DEF Chars
<1>3. \A i \in 1 .. Len(t) : (t \o s)[i] = t[i]
  BY <1>1, <1>2
<1>4. ASSUME NEW i \in 1 .. Len(s) PROVE (t \o s)[Len(t) + i] = s[i]
  <2>1. Len(t) + i \in 1 .. Len(t) + Len(s) /\ ~ Len(t) + i <= Len(t) /\ Len(t) + i - Len(t) = i
    BY <1>2
  <2> QED  BY <1>1, <2>1
<1> QED  BY <1>1, <1>2, <1>3, <1>4

\* A text whose bytes are put into the buffer is kept, with all that was there before.
LEMMA PutInKeeps ==
  ASSUME IInv, NEW s \in Seq(Chars), NEW room \in Nat, NEW n \in 0 .. room, NEW data,
         Len(s) <= n, \A i \in 1 .. Len(s) : data[i] = s[i],
         buffer' = Put(buffer, room, data, n, buffer.used + Len(s)),
         text' = text \o s
  PROVE  /\ IsBuffer(buffer') /\ text' \in Seq(Chars)
         /\ buffer'.used = Len(text') /\ buffer.used + room <= buffer'.size
         /\ \A i \in 1 .. Len(text') : buffer'.buf[i] = text'[i]
         /\ \A i \in 1 .. n : buffer'.buf[buffer.used + i] = data[i]
<1>1. /\ text' \in Seq(Chars) /\ Len(text') = Len(text) + Len(s)
      /\ Len(text) \in Nat /\ Len(s) \in Nat
      /\ \A i \in 1 .. Len(text) : text'[i] = text[i]
      /\ \A i \in 1 .. Len(s) : text'[Len(text) + i] = s[i]
  BY TextBehind DEF IInv
<1>2. /\ IsBuffer(buffer) /\ buffer.used = Len(text) /\ buffer.used <= buffer.size
      /\ \A i \in 1 .. Len(text) : buffer.buf[i] = text[i]
  BY DEF IInv, TextKept
<1>3. /\ IsBuffer(buffer') /\ buffer'.used = buffer.used + Len(s)
      /\ buffer.used + room <= buffer'.size
      /\ \A i \in 1 .. buffer.used : buffer'.buf[i] = buffer.buf[i]
      /\ \A i \in 1 .. n : buffer'.buf[buffer.used + i] = data[i]
  <2> DEFINE u == buffer.used + Len(s)
  <2>1. u \in Nat
    BY <1>1, <1>2
  <2>2. buffer' = Put(buffer, room, data, n, u)
    OBVIOUS
  <2> HIDE DEF u
  <2>3. /\ IsBuffer(buffer') /\ buffer'.used = u /\ buffer.used + room <= buffer'.size
        /\ \A i \in 1 .. buffer.used : buffer'.buf[i] = buffer.buf[i]
        /\ \A i \in 1 .. n : buffer'.buf[buffer.used + i] = data[i]
    <3> DEFINE p == Put(buffer, room, data, n, u)
    <3>1. IsBuffer(buffer) /\ buffer.used <= buffer.size /\ u \in Nat
      BY <1>2, <2>1
    <3>2. /\ IsBuffer(p) /\ p.used = u /\ buffer.used + room <= p.size
          /\ \A i \in 1 .. buffer.used : p.buf[i] = buffer.buf[i]
          /\ \A i \in 1 .. n : p.buf[buffer.used + i] = data[i]
      BY ONLY <3>1, PutIn, room \in Nat, n \in 0 .. room
    <3> HIDE DEF p
    <3>3. buffer' = p
      BY <2>2 DEF p
    <3> QED  BY <3>2, <3>3
  <2> QED  BY <2>3 DEF u
<1>4. ASSUME NEW i \in 1 .. Len(text') PROVE buffer'.buf[i] = text'[i]
  <2>1. CASE i <= Len(text)
    <3>1. i \in 1 .. Len(text) /\ i \in 1 .. buffer.used
      BY <1>1, <1>2, <2>1
    <3> QED  BY <1>1, <1>2, <1>3, <3>1
  <2>2. CASE ~ i <= Len(text)
    <3> DEFINE j == i - Len(text)
    <3>1. j \in 1 .. Len(s) /\ j \in 1 .. n /\ Len(text) + j = i
      BY <1>1, <2>2
    <3> HIDE DEF j
    <3>2. text'[i] = s[j]
      BY <1>1, <3>1
    <3>3. buffer'.buf[i] = data[j]
      BY <1>2, <1>3, <3>1
    <3> QED  BY <3>1, <3>2, <3>3
  <2> QED  BY <2>1, <2>2
<1> QED  BY <1>1, <1>2, <1>3, <1>4

\* The texts are made of bytes.
LEMMA TextsAreBytes == ASSUME NEW s \in Texts PROVE s \in Seq(Chars)
<1>1. s \in Seq(STRING) /\ STRING \subseteq Chars
  BY TextsAssumption DEF Chars
<1> QED  BY <1>1, SeqMonotonic

\* What jf_growing_buffer_append puts in, by its length.
LEMMA AppendKeeps ==
  ASSUME IInv, NEW s \in Seq(Chars), NEW data, Len(s) > 0 \/ data[1] = NUL, data # <<>>,
         data \in Seq(Chars),
         \A i \in 1 .. Len(s) : data[i] = s[i],
         buffer' = Appended(buffer, data, Len(s)), text' = text \o s
  PROVE  /\ IsBuffer(buffer') /\ text' \in Seq(Chars)
         /\ buffer'.used = Len(text') /\ buffer'.used <= buffer'.size
         /\ \A i \in 1 .. Len(text') : buffer'.buf[i] = text'[i]
<1> DEFINE n == IF Len(s) = 0 THEN FirstNul(data) - 1 ELSE Len(s)
<1>1. Len(s) \in Nat
  BY LenProperties
<1>2. n = Len(s)
  <2>1. ASSUME Len(s) = 0 PROVE FirstNul(data) = 1
    <3>1. data[1] = NUL
      BY <1>1, <2>1
    <3>2. 1 \in DOMAIN data /\ DOMAIN data = 1 .. Len(data) /\ Len(data) \in Nat
      BY LenProperties, EmptySeq
    <3>3. \E i \in DOMAIN data : data[i] = NUL /\ \A j \in 1 .. i - 1 : data[j] # NUL
      <4>1. \A j \in 1 .. 1 - 1 : data[j] # NUL
        OBVIOUS
      <4> QED  BY <3>1, <3>2, <4>1
    <3> DEFINE f == FirstNul(data)
    <3>4. f \in DOMAIN data /\ \A j \in 1 .. f - 1 : data[j] # NUL
      BY <3>3 DEF FirstNul
    <3> HIDE DEF f
    <3>5. f = 1
      BY <3>1, <3>2, <3>4
    <3> QED  BY <3>5 DEF f
  <2> QED  BY <1>1, <2>1
<1>3. buffer' = [Copied(MakeSpace(buffer, n), data, n) EXCEPT !.used = @ + n]
  BY DEF Appended
<1>4. Copied(MakeSpace(buffer, n), data, n).used = buffer.used
  BY DEF Copied, MakeSpace, IInv, IsBuffer
<1> HIDE DEF n
<1>5. buffer' = Put(buffer, n, data, n, buffer.used + Len(s))
  BY <1>2, <1>3, <1>4 DEF Put
<1>6. /\ IsBuffer(buffer') /\ text' \in Seq(Chars)
      /\ buffer'.used = Len(text') /\ buffer.used + n <= buffer'.size
      /\ \A i \in 1 .. Len(text') : buffer'.buf[i] = text'[i]
  <2>1. n \in Nat /\ n \in 0 .. n /\ Len(s) <= n
    BY <1>1, <1>2
  <2>2. buffer.used + n <= buffer'.size /\ buffer'.used = Len(text')
    BY <1>5, <2>1, PutInKeeps
  <2>3. IsBuffer(buffer')
    BY <1>5, <2>1, PutInKeeps
  <2>0. text' \in Seq(Chars)
    BY TextBehind DEF IInv
  <2>4. \A i \in 1 .. Len(text') : buffer'.buf[i] = text'[i]
    BY <1>5, <2>1, PutInKeeps
  <2> QED  BY <2>2, <2>3, <2>4, <2>0
<1>7. buffer'.used = buffer.used + n
  <2>1. text \in Seq(Chars) /\ buffer.used = Len(text)
    BY DEF IInv, TextKept
  <2> QED  BY <1>2, <1>6, <2>1, TextBehind
<1> QED  BY <1>6, <1>7

\* A new buffer is empty, and so is its text.
LEMMA InitInv == Init => IInv
<1> SUFFICES ASSUME Init PROVE IInv
  OBVIOUS
<1> DEFINE n == IF FirstSize > 0 THEN FirstSize ELSE 1024
           block == [i \in 1 .. n |-> Junk]
<1>1. n \in Nat \ {0}
  BY SizeAssumption
<1>2. buffer = [buf |-> block, size |-> n, used |-> 0]
  BY DEF Init, New
<1>3. block = [i \in 1 .. n |-> block[i]]
  OBVIOUS
<1> HIDE DEF n, block
<1>4. buffer.buf = block /\ buffer.size = n /\ buffer.used = 0
  BY <1>2
<1>5. text = <<>> /\ Len(text) = 0 /\ text \in Seq(Chars) /\ closed = FALSE
  BY EmptySeq DEF Init
<1>6. IsBuffer(buffer)
  BY <1>1, <1>2, <1>3, <1>4 DEF IsBuffer
<1>7. TextKept
  BY <1>1, <1>4, <1>5 DEF TextKept
<1> QED  BY <1>5, <1>6, <1>7 DEF IInv

\* Text is appended with its length.
LEMMA AddKeepsInv ==
  ASSUME IInv, Terminated, NEW s \in Texts, NEW rest \in Rests, Add(s, rest)
  PROVE  IInv'
<1>1. s \in Seq(Chars)
  BY TextsAreBytes
<1>2. rest \in Seq(Chars) /\ rest # <<>> /\ rest[1] = NUL
  BY RestsAssumption DEF Terminated, Chars
<1> DEFINE data == s \o rest
<1>3. /\ data \in Seq(Chars) /\ Len(data) = Len(s) + Len(rest)
      /\ Len(s) \in Nat /\ Len(rest) \in Nat
      /\ \A i \in 1 .. Len(s) : data[i] = s[i]
      /\ \A i \in 1 .. Len(rest) : data[Len(s) + i] = rest[i]
  BY <1>1, <1>2, TextBehind
<1>4. Len(rest) > 0
  BY <1>2, <1>3, EmptySeq
<1>5. buffer' = Appended(buffer, data, Len(s)) /\ text' = text \o s /\ closed' = FALSE
  BY DEF Add
<1> HIDE DEF data
<1>6. Len(s) > 0 \/ data[1] = NUL
  <2>1. CASE Len(s) = 0
    <3>1. 1 \in 1 .. Len(rest) /\ Len(s) + 1 = 1
      BY <1>3, <1>4, <2>1
    <3> QED  BY <1>2, <1>3, <3>1
  <2> QED  BY <1>3, <2>1
<1>7. data # <<>>
  BY <1>3, <1>4, EmptySeq
<1>8. /\ IsBuffer(buffer') /\ text' \in Seq(Chars)
      /\ buffer'.used = Len(text') /\ buffer'.used <= buffer'.size
      /\ \A i \in 1 .. Len(text') : buffer'.buf[i] = text'[i]
  BY <1>1, <1>3, <1>5, <1>6, <1>7, AppendKeeps
<1> QED  BY <1>5, <1>8 DEF IInv, TextKept

\* So is the NUL behind it.
LEMMA CloseKeepsInv == ASSUME IInv, Close PROVE IInv'
<1> DEFINE s == <<NUL>>
<1>1. s \in Seq(Chars) /\ Len(s) = 1 /\ s[1] = NUL /\ s # <<>>
  BY DEF Chars
<1>2. text' = text \o s
  <2>1. text \in Seq(Chars) /\ NUL \in Chars
    BY DEF IInv, Chars
  <2> QED  BY <2>1, AppendIsConcat DEF Close
<1>3. buffer' = Appended(buffer, s, Len(s)) /\ closed' = FALSE
  BY <1>1 DEF Close
<1> HIDE DEF s
<1>4. /\ IsBuffer(buffer') /\ text' \in Seq(Chars)
      /\ buffer'.used = Len(text') /\ buffer'.used <= buffer'.size
      /\ \A i \in 1 .. Len(text') : buffer'.buf[i] = text'[i]
  BY <1>1, <1>2, <1>3, AppendKeeps
<1> QED  BY <1>3, <1>4 DEF IInv, TextKept

\* Formatted text needs room for its NUL, which is not counted as used.
LEMMA PrintedKeepsInv ==
  ASSUME IInv, NEW s \in Seq(Chars),
         buffer' = Printed(buffer, s), text' = text \o s, closed' = TRUE
  PROVE  IInv'
<1>1. s \in Seq(Chars) /\ Len(s) \in Nat /\ NUL \in Chars
  BY LenProperties DEF Chars
<1> DEFINE data == Append(s, NUL)
           room == Len(s) + 1
<1>2. /\ \A i \in 1 .. Len(s) : data[i] = s[i]
      /\ data[room] = NUL
  BY <1>1, AppendProperties
<1>3. Copied(MakeSpace(buffer, room), data, room).used = buffer.used
  BY DEF Copied, MakeSpace, IInv, IsBuffer
<1>4. buffer' = [Copied(MakeSpace(buffer, room), data, room) EXCEPT !.used = @ + Len(s)]
  BY DEF Printed
<1>5. text' = text \o s
  OBVIOUS
<1>6. room \in Nat /\ room \in 0 .. room /\ Len(s) <= room /\ room \in 1 .. room
      /\ Len(s) < room
  BY <1>1
<1> HIDE DEF data, room
<1>7. buffer' = Put(buffer, room, data, room, buffer.used + Len(s))
  BY <1>3, <1>4 DEF Put
<1>8. IsBuffer(buffer') /\ text' \in Seq(Chars) /\ buffer'.used = Len(text')
  BY <1>1, <1>2, <1>5, <1>6, <1>7, PutInKeeps
<1>9. buffer.used + room <= buffer'.size
  BY <1>1, <1>2, <1>5, <1>6, <1>7, PutInKeeps
<1>10. \A i \in 1 .. Len(text') : buffer'.buf[i] = text'[i]
  BY <1>1, <1>2, <1>5, <1>6, <1>7, PutInKeeps
<1>11. \A i \in 1 .. room : buffer'.buf[buffer.used + i] = data[i]
  BY <1>1, <1>2, <1>5, <1>6, <1>7, PutInKeeps
<1>12. Len(text') = Len(text) + Len(s) /\ Len(text) \in Nat /\ buffer.used = Len(text)
  BY <1>1, <1>5, TextBehind DEF IInv, TextKept
<1>13. buffer'.used < buffer'.size /\ buffer'.used + 1 = buffer.used + room
  BY <1>1, <1>6, <1>8, <1>9, <1>12 DEF room, IsBuffer
<1>14. buffer'.buf[buffer'.used + 1] = NUL
  BY <1>2, <1>6, <1>11, <1>13
<1>15. buffer'.used <= buffer'.size
  BY <1>8, <1>13 DEF IsBuffer
<1> QED  BY <1>8, <1>10, <1>13, <1>14, <1>15 DEF IInv, TextKept

\* So it does for every text that callers format.
LEMMA FormatKeepsInv == ASSUME IInv, NEW s \in Texts, Format(s) PROVE IInv'
  BY TextsAreBytes, PrintedKeepsInv DEF Format

\* Emptied, the buffer keeps its block and counts none of it as used.
LEMMA EmptyKeepsInv == ASSUME IInv, Empty PROVE IInv'
<1>1. text' = <<>> /\ Len(text') = 0 /\ text' \in Seq(Chars) /\ closed' = FALSE
  BY EmptySeq DEF Empty
<1>2. buffer' = [buf |-> [i \in 1 .. buffer.size |-> buffer.buf[i]], size |-> buffer.size, used |-> 0]
  <2> DEFINE block == [i \in 1 .. buffer.size |-> buffer.buf[i]]
             size == buffer.size
  <2>1. buffer = [buf |-> block, size |-> size, used |-> buffer.used]
    BY DEF IInv, IsBuffer
  <2>2. buffer' = [buffer EXCEPT !.used = 0]
    BY DEF Empty, Emptied
  <2> HIDE DEF block, size
  <2>3. buffer' = [buf |-> block, size |-> size, used |-> 0]
    BY <2>1, <2>2
  <2> QED  BY <2>3 DEF block, size
<1>3. buffer'.size = buffer.size /\ buffer'.used = 0
      /\ buffer'.buf = [i \in 1 .. buffer.size |-> buffer.buf[i]]
  BY <1>2
<1>4. buffer.size \in Nat \ {0}
  BY DEF IInv, IsBuffer
<1>5. IsBuffer(buffer')
  <2>1. buffer'.buf = [i \in 1 .. buffer'.size |-> buffer'.buf[i]]
    BY <1>3
  <2> QED  BY <1>2, <1>3, <1>4, <2>1 DEF IsBuffer
<1> QED  BY <1>1, <1>3, <1>4, <1>5 DEF IInv, TextKept

\* So no step disturbs the invariant.
LEMMA NextInv == Terminated /\ IInv /\ [Next]_vars => IInv'
<1> SUFFICES ASSUME Terminated, IInv, [Next]_vars PROVE IInv'
  OBVIOUS
<1>1. CASE UNCHANGED vars
  BY <1>1 DEF vars, IInv, TextKept, IsBuffer
<1>2. CASE Next
  BY <1>2, AddKeepsInv, CloseKeepsInv, FormatKeepsInv, EmptyKeepsInv DEF Next
<1> QED  BY <1>1, <1>2

\* Whatever is appended, formatted and emptied in whatever order, the buffer holds the text
\* in its own memory, as long as an empty text is terminated like any string: shared.c
\* takes a length of zero for one to be counted.
THEOREM NothingOverrun == Terminated => (Spec => []TextKept)
<1> SUFFICES ASSUME Terminated PROVE Spec => []TextKept
  OBVIOUS
<1>1. IInv /\ [Next]_vars => IInv'
  BY NextInv
<1>2. IInv => TextKept
  BY DEF IInv
<1> QED  BY InitInv, <1>1, <1>2, PTL DEF Spec

-----------------------------------------------------------------------------
(* Strings                                                                 *)

\* What the least number of a set is found by.
LEMMA NatOrder == IsWellFoundedOn({p \in Nat \X Nat : p[1] < p[2]}, Nat)
BY NatLessThanWellFounded DEF OpToRel

\* Every set of natural numbers that is not empty has a least one.
LEMMA Least ==
  ASSUME NEW S \in SUBSET Nat, S # {}
  PROVE  \E n \in S : \A m \in S : n <= m
<1> DEFINE R == {p \in Nat \X Nat : p[1] < p[2]}
<1>1. PICK x \in S : \A y \in S : ~ (<<y, x>> \in R)
  BY NatOrder, WFMin
<1>2. \A y \in S : y \in Nat /\ x \in Nat /\ ~ (y < x)
  BY <1>1
<1> QED  BY <1>2

\* What lies in a sequence from an offset on.
LEMMA Piece ==
  ASSUME NEW C, NEW b \in Seq(C), NEW o \in Nat, NEW n \in Nat, o + n <= Len(b)
  PROVE  /\ SubSeq(b, o + 1, o + n) \in Seq(C) /\ Len(SubSeq(b, o + 1, o + n)) = n
         /\ \A i \in 1 .. n : SubSeq(b, o + 1, o + n)[i] = b[o + i]
<1> DEFINE r == SubSeq(b, o + 1, o + n)
<1>1. Len(b) \in Nat
  BY LenProperties
<1>2. \A i \in o + 1 .. o + n : b[i] \in C
  BY <1>1, ElementOfSeq
<1>3. r \in Seq(C)
  BY <1>2, SubSeqProperties
<1>4. Len(r) = n
  BY <1>2, SubSeqProperties
<1>5. \A i \in 1 .. n : r[i] = b[o + i]
  BY <1>2, SubSeqProperties
<1> QED  BY <1>3, <1>4, <1>5

\* The text that a string's bytes are read for.
TextOf(s) == IF s = NULL THEN <<>> ELSE s

\* There is one first NUL only.
LEMMA FirstNulIs ==
  ASSUME NEW m \in Nat, NEW data, DOMAIN data = 1 .. m, NEW n \in 1 .. m,
         data[n] = NUL, \A j \in 1 .. n - 1 : data[j] # NUL
  PROVE  FirstNul(data) = n
<1> DEFINE f == FirstNul(data)
<1>1. \E i \in DOMAIN data : data[i] = NUL /\ \A j \in 1 .. i - 1 : data[j] # NUL
  OBVIOUS
<1>2. f \in 1 .. m /\ data[f] = NUL /\ \A j \in 1 .. f - 1 : data[j] # NUL
  BY <1>1 DEF FirstNul
<1> HIDE DEF f
<1>3. ~ n < f /\ ~ f < n
  BY <1>2
<1>4. f = n
  BY <1>2, <1>3
<1> QED  BY <1>4 DEF f

\* A string is written with one NUL, at its end.
LEMMA BytesAre ==
  ASSUME NEW s, IsText(s)
  PROVE  /\ TextOf(s) \in Seq(Chars) /\ Bytes(s) \in Seq(Chars)
         /\ Len(TextOf(s)) \in Nat /\ Len(Bytes(s)) = Len(TextOf(s)) + 1
         /\ Bytes(s)[Len(TextOf(s)) + 1] = NUL
         /\ \A j \in 1 .. Len(TextOf(s)) : Bytes(s)[j] = TextOf(s)[j] /\ Bytes(s)[j] # NUL
<1> DEFINE t == TextOf(s)
<1>1. t \in Seq(Chars) /\ \A j \in 1 .. Len(t) : t[j] # NUL
  <2>1. CASE s = NULL
    <3>1. t = <<>> /\ Len(t) = 0
      BY <2>1 DEF TextOf
    <3> QED  BY <3>1, EmptySeq
  <2>2. CASE s # NULL
    <3>1. t = s /\ s \in Seq(STRING) /\ \A j \in 1 .. Len(s) : s[j] # NUL
      BY <2>2 DEF TextOf, IsText
    <3>2. Seq(STRING) \subseteq Seq(Chars)
      BY SeqMonotonic DEF Chars
    <3> QED  BY <3>1, <3>2
  <2> QED  BY <2>1, <2>2
<1>2. Bytes(s) = Append(t, NUL)
  <2>1. CASE s = NULL
    <3>1. t = <<>>
      BY <2>1 DEF TextOf
    <3> HIDE DEF t
    <3> QED  BY <2>1, <3>1 DEF Bytes
  <2> QED  BY <2>1 DEF Bytes, TextOf
<1>3. NUL \in Chars
  BY DEF Chars
<1> HIDE DEF t
<1>4. Len(t) \in Nat
  BY <1>1, LenProperties
<1>5. /\ Append(t, NUL) \in Seq(Chars) /\ Len(Append(t, NUL)) = Len(t) + 1
      /\ \A j \in 1 .. Len(t) : Append(t, NUL)[j] = t[j]
      /\ Append(t, NUL)[Len(t) + 1] = NUL
  BY <1>1, <1>3, AppendProperties
<1> QED  BY <1>1, <1>2, <1>4, <1>5 DEF t

\* Cells that lie at an offset of the body.
Placed(offset, cells) ==
    /\ offset \in Nat /\ offset + Len(cells) <= Len(body)
    /\ \A i \in 1 .. Len(cells) : body[offset + i] = cells[i]

\* A string is read as it was written.
LEMMA ReadsToNull ==
  ASSUME NEW C, body \in Seq(C), NEW s, IsText(s), NEW offset, Placed(offset, Bytes(s))
  PROVE  ReadToNull(offset) = Bytes(s)
<1> DEFINE bs == Bytes(s)
           n == Len(bs)
           rest == SubSeq(body, offset + 1, Len(body))
<1>1. n \in Nat \ {0} /\ bs[n] = NUL /\ \A j \in 1 .. n - 1 : bs[j] # NUL
  BY BytesAre
<1>2. bs \in Seq(Chars)
  BY BytesAre
<1>3. Len(body) \in Nat /\ offset \in Nat /\ offset + n <= Len(body)
  BY LenProperties DEF Placed
<1>4. \A i \in 1 .. n : body[offset + i] = bs[i]
  BY DEF Placed
<1> HIDE DEF bs, n
<1>5. /\ rest \in Seq(C) /\ Len(rest) = Len(body) - offset
      /\ \A i \in 1 .. Len(body) - offset : rest[i] = body[offset + i]
  <2> DEFINE k == Len(body) - offset
  <2>1. k \in Nat /\ offset + k = Len(body)
    BY <1>1, <1>3
  <2> HIDE DEF k
  <2>2. rest = SubSeq(body, offset + 1, offset + k)
    BY <2>1
  <2> HIDE DEF rest
  <2>3. rest \in Seq(C) /\ Len(rest) = k /\ \A i \in 1 .. k : rest[i] = body[offset + i]
    BY <1>3, <2>1, <2>2, Piece
  <2> QED  BY <2>3 DEF k
<1> HIDE DEF rest
<1>6. FirstNul(rest) = n
  <2> DEFINE m == Len(rest)
  <2>1. m \in Nat /\ DOMAIN rest = 1 .. m /\ n \in 1 .. m
    BY <1>1, <1>3, <1>5, LenProperties
  <2>2. rest[n] = NUL /\ \A j \in 1 .. n - 1 : rest[j] # NUL
    <3>1. \A i \in 1 .. n : i \in 1 .. Len(body) - offset
      BY <1>1, <1>3
    <3>2. \A i \in 1 .. n : rest[i] = bs[i]
      BY <1>4, <1>5, <3>1
    <3> QED  BY <1>1, <3>2
  <2> HIDE DEF m
  <2> QED  BY <2>1, <2>2, FirstNulIs
<1> DEFINE r == SubSeq(body, offset + 1, offset + n)
<1>7. ReadToNull(offset) = r
  BY <1>6 DEF ReadToNull, rest
<1>8. r \in Seq(C) /\ Len(r) = n /\ \A i \in 1 .. n : r[i] = body[offset + i]
  BY <1>1, <1>3, Piece
<1> HIDE DEF r
<1>9. r = bs
  <2>1. r \in Seq(C \cup Chars) /\ bs \in Seq(C \cup Chars)
    BY <1>2, <1>8, SeqMonotonic
  <2>2. Len(r) = Len(bs) /\ \A i \in 1 .. Len(r) : r[i] = bs[i]
    BY <1>4, <1>8 DEF n
  <2> QED  BY <2>1, <2>2, SeqEqual
<1> QED  BY <1>7, <1>9 DEF bs

-----------------------------------------------------------------------------
(* Strings in a buffer                                                     *)

\* The fold that appends the bytes numbered in a set, the last one last.
Folds(it, b, bytes) ==
    [S \in SUBSET (DOMAIN bytes) |->
        IF S = {} THEN b ELSE Appended(it[S \ {Max(S)}], <<bytes[Max(S)]>>, 1)]

\* It is the fold that appends a string to a buffer.
LEMMA FoldedBytes ==
  ASSUME NEW b, NEW bytes
  PROVE  AppendedBytes(b, bytes) = (CHOOSE it : it = Folds(it, b, bytes))[DOMAIN bytes]
BY DEF AppendedBytes, FoldLeft, MapThenFoldSet, Folds

\* The last of some numbers is the greatest.
LEMMA Greatest ==
  ASSUME NEW n \in Nat, NEW S \in SUBSET (1 .. n), S # {}
  PROVE  Max(S) \in S /\ \A x \in S : Max(S) >= x
<1> DEFINE T == {n - x : x \in S}
<1>1. PICK m \in T : \A k \in T : m <= k
  <2>1. \A x \in S : n - x \in Nat
    OBVIOUS
  <2>2. T \in SUBSET Nat /\ T # {}
    BY <2>1
  <2> HIDE DEF T
  <2> QED  BY <2>2, Least
<1>2. PICK y \in S : m = n - y
  OBVIOUS
<1>3. \A x \in S : n - y <= n - x
  BY <1>1, <1>2
<1>4. \A x \in S : y >= x
  BY <1>3
<1> QED  BY <1>2, <1>4 DEF Max

\* There is such a fold: one that is right for the first bytes is right for one more.
LEMMA FoldsExist ==
  ASSUME NEW b, NEW bytes, NEW n \in Nat, DOMAIN bytes = 1 .. n
  PROVE  \E it : it = Folds(it, b, bytes)
<1> DEFINE F(it) == Folds(it, b, bytes)
           Upto(it, k) == \A S \in SUBSET (1 .. k) : it[S] = F(it)[S]
           Bad == {k \in 0 .. n : ~ \E it : Upto(it, k)}
<1>1. ASSUME NEW k \in 0 .. n, NEW it, k = 0 \/ Upto(it, k - 1)
      PROVE  Upto(F(it), k)
  <2> SUFFICES ASSUME NEW S \in SUBSET (1 .. k) PROVE F(it)[S] = F(F(it))[S]
    OBVIOUS
  <2> DEFINE R == S \ {Max(S)}
             byte == <<bytes[Max(S)]>>
  <2>1. S \in SUBSET (1 .. n) /\ R \in SUBSET (1 .. n)
    <3>1. 1 .. k \subseteq 1 .. n
      OBVIOUS
    <3> QED  BY <3>1
  <2>2. /\ F(it)[S] = IF S = {} THEN b ELSE Appended(it[R], byte, 1)
        /\ F(F(it))[S] = IF S = {} THEN b ELSE Appended(F(it)[R], byte, 1)
    BY <2>1 DEF Folds
  <2>3. S # {} => it[R] = F(it)[R]
    <3> SUFFICES ASSUME S # {} PROVE it[R] = F(it)[R]
      OBVIOUS
    <3> DEFINE m == Max(S)
    <3>1. m \in S /\ \A x \in S : m >= x
      BY <2>1, Greatest
    <3> HIDE DEF m
    <3>2. k # 0 /\ \A x \in S \ {m} : x \in 1 .. k - 1
      <4>1. \A x \in S : x \in Nat /\ 1 <= x /\ x <= k
        OBVIOUS
      <4> QED  BY <3>1, <4>1
    <3>3. R \in SUBSET (1 .. k - 1)
      BY <3>2 DEF m
    <3> HIDE DEF R, F
    <3> QED  BY <1>1, <3>2, <3>3
  <2> HIDE DEF F, R, byte
  <2> QED  BY <2>2, <2>3
<1>2. Bad = {}
  <2> SUFFICES ASSUME Bad # {} PROVE FALSE
    OBVIOUS
  <2>1. PICK k \in Bad : \A j \in Bad : k <= j
    <3>1. Bad \in SUBSET Nat
      OBVIOUS
    <3> HIDE DEF Bad
    <3> QED  BY <3>1, Least
  <2>2. k \in 0 .. n /\ \A it : ~ Upto(it, k)
    OBVIOUS
  <2>3. k # 0 => \E it : Upto(it, k - 1)
    <3>1. k # 0 => k - 1 \in 0 .. n /\ ~ k <= k - 1
      BY <2>2
    <3>2. k # 0 => k - 1 \notin Bad
      BY <2>1, <3>1
    <3> HIDE DEF Upto
    <3> QED  BY <3>1, <3>2
  <2> HIDE DEF Bad, F, Upto
  <2>4. CASE k = 0
    BY <1>1, <2>2, <2>4
  <2>5. CASE k # 0
    <3>1. PICK it : Upto(it, k - 1)
      BY <2>3, <2>5
    <3> QED  BY <1>1, <2>2, <3>1
  <2> QED  BY <2>4, <2>5
<1>3. PICK it : Upto(it, n)
  <2>1. n \in 0 .. n
    OBVIOUS
  <2> HIDE DEF Upto
  <2> QED  BY <1>2, <2>1
<1>4. F(it) = F(F(it))
  <2>1. \A S \in SUBSET (1 .. n) : it[S] = F(it)[S]
    BY <1>3
  <2>2. \A S \in SUBSET (1 .. n) : S \ {Max(S)} \in SUBSET (1 .. n)
    OBVIOUS
  <2> DEFINE g == F(it)
  <2>3. \A S \in SUBSET (1 .. n) : it[S \ {Max(S)}] = g[S \ {Max(S)}]
    BY <2>1, <2>2
  <2> HIDE DEF g
  <2>4. F(it) = F(g)
    BY <2>3 DEF Folds
  <2> QED  BY <2>4 DEF g
<1> QED  BY <1>4

\* The bytes are appended one after the other.
LEMMA ByteByByte ==
  ASSUME NEW b, NEW bytes, NEW n \in Nat, DOMAIN bytes = 1 .. n
  PROVE  \E f : /\ f[0] = b /\ f[n] = AppendedBytes(b, bytes)
               /\ \A k \in 1 .. n : f[k] = Appended(f[k - 1], <<bytes[k]>>, 1)
<1> DEFINE it == CHOOSE i : i = Folds(i, b, bytes)
           f == [k \in 0 .. n |-> it[1 .. k]]
<1>1. it = Folds(it, b, bytes)
  BY FoldsExist
<1>2. AppendedBytes(b, bytes) = it[1 .. n]
  BY FoldedBytes
<1> HIDE DEF it
<1>3. f[0] = b
  <2>1. 1 .. 0 = {} /\ {} \in SUBSET (1 .. n)
    OBVIOUS
  <2>2. it[{}] = b
    BY <1>1, <2>1 DEF Folds
  <2> QED  BY <2>1, <2>2
<1>4. ASSUME NEW k \in 1 .. n PROVE f[k] = Appended(f[k - 1], <<bytes[k]>>, 1)
  <2> DEFINE S == 1 .. k
  <2>1. Max(S) = k
    <3> DEFINE m == Max(S)
    <3>1. S \in SUBSET (1 .. k) /\ S # {} /\ k \in S /\ k \in Nat
      OBVIOUS
    <3>2. m \in S /\ \A x \in S : m >= x
      BY <3>1, Greatest
    <3> HIDE DEF m
    <3>3. m \in Nat /\ m <= k /\ m >= k
      BY <3>1, <3>2
    <3>4. m = k
      BY <3>1, <3>3
    <3> QED  BY <3>4 DEF m
  <2>2. S \in SUBSET (1 .. n) /\ S # {} /\ S \ {k} = 1 .. k - 1
    OBVIOUS
  <2> HIDE DEF S
  <2>3. it[S] = Appended(it[S \ {Max(S)}], <<bytes[Max(S)]>>, 1)
    BY <1>1, <2>2 DEF Folds
  <2>4. f[k] = it[S] /\ f[k - 1] = it[1 .. k - 1]
    BY DEF S
  <2> HIDE DEF f
  <2> QED  BY <2>1, <2>2, <2>3, <2>4
<1>5. f[n] = AppendedBytes(b, bytes)
  BY <1>2
<1> HIDE DEF f
<1> QED  BY <1>3, <1>4, <1>5

\* A byte that is appended lies behind those that were there.
LEMMA AppendsOne ==
  ASSUME NEW b, IsBuffer(b), b.used <= b.size, NEW c
  PROVE  LET r == Appended(b, <<c>>, 1)
         IN  /\ IsBuffer(r) /\ r.used = b.used + 1 /\ r.used <= r.size
             /\ \A i \in 1 .. b.used : r.buf[i] = b.buf[i]
             /\ r.buf[b.used + 1] = c
<1> DEFINE data == <<c>>
           p == Put(b, 1, data, 1, b.used + 1)
<1>1. b.used \in Nat /\ b.used + 1 \in Nat
  BY DEF IsBuffer
<1>2. Appended(b, data, 1) = p
  <2>1. Appended(b, data, 1) = [Copied(MakeSpace(b, 1), data, 1) EXCEPT !.used = @ + 1]
    BY DEF Appended
  <2>2. Copied(MakeSpace(b, 1), data, 1).used = b.used
    BY DEF Copied, MakeSpace, IsBuffer
  <2> HIDE DEF data
  <2> QED  BY <2>1, <2>2 DEF Put
<1>3. data[1] = c
  OBVIOUS
<1> DEFINE u == b.used + 1
<1> HIDE DEF data, u
<1>4. /\ IsBuffer(p) /\ p.used = u /\ b.used + 1 <= p.size
      /\ \A i \in 1 .. b.used : p.buf[i] = b.buf[i]
      /\ \A i \in 1 .. 1 : p.buf[b.used + i] = data[i]
  <2>1. p = Put(b, 1, data, 1, u) /\ u \in Nat /\ 1 \in Nat /\ 1 \in 0 .. 1
    BY <1>1 DEF u
  <2> HIDE DEF p
  <2> QED  BY <2>1, PutIn
<1> HIDE DEF p
<1> QED  BY <1>2, <1>3, <1>4 DEF u, data

\* The bytes bs lie in a buffer behind the first n.
Behind(r, b, bs, n) ==
    /\ IsBuffer(r) /\ r.used = b.used + n /\ r.used <= r.size
    /\ \A i \in 1 .. b.used : r.buf[i] = b.buf[i]
    /\ \A i \in 1 .. n : r.buf[b.used + i] = bs[i]

\* And so do any number of them.
LEMMA AppendsAll ==
  ASSUME NEW b, IsBuffer(b), b.used <= b.size, NEW bytes, NEW n \in Nat, DOMAIN bytes = 1 .. n
  PROVE  Behind(AppendedBytes(b, bytes), b, bytes, n)
<1>1. PICK f : /\ f[0] = b /\ f[n] = AppendedBytes(b, bytes)
               /\ \A k \in 1 .. n : f[k] = Appended(f[k - 1], <<bytes[k]>>, 1)
  BY ByteByByte
<1>2. b.used \in Nat
  BY DEF IsBuffer
<1> DEFINE Bad == {k \in 0 .. n : ~ Behind(f[k], b, bytes, k)}
<1>3. SUFFICES ASSUME Bad # {} PROVE FALSE
  <2>1. n \in 0 .. n
    OBVIOUS
  <2> QED  BY <1>1, <2>1
<1>4. PICK k \in Bad : \A j \in Bad : k <= j
  <2>1. Bad \in SUBSET Nat
    OBVIOUS
  <2> HIDE DEF Bad
  <2> QED  BY <1>3, <2>1, Least
<1>5. k \in 0 .. n /\ ~ Behind(f[k], b, bytes, k)
  OBVIOUS
<1>6. k # 0
  <2>1. Behind(b, b, bytes, 0)
    BY <1>2 DEF Behind
  <2> QED  BY <1>1, <1>5, <2>1
<1> DEFINE a == f[k - 1]
           c == bytes[k]
           r == f[k]
<1>7. Behind(a, b, bytes, k - 1)
  <2>1. k - 1 \in 0 .. n /\ ~ k <= k - 1
    BY <1>5, <1>6
  <2> QED  BY <1>4, <2>1
<1>8. r = Appended(a, <<c>>, 1)
  BY <1>1, <1>5, <1>6
<1> HIDE DEF Bad, a, r
<1>9. /\ IsBuffer(r) /\ r.used = a.used + 1 /\ r.used <= r.size
      /\ \A i \in 1 .. a.used : r.buf[i] = a.buf[i]
      /\ r.buf[a.used + 1] = c
  <2>1. IsBuffer(a) /\ a.used <= a.size
    BY <1>7 DEF Behind
  <2> QED  BY <1>8, <2>1, AppendsOne
<1>10. a.used = b.used + (k - 1)
  BY <1>7 DEF Behind
<1>11. Behind(r, b, bytes, k)
  <2>1. r.used = b.used + k /\ a.used + 1 = b.used + k
    BY <1>2, <1>5, <1>9, <1>10
  <2>2. ASSUME NEW i \in 1 .. b.used PROVE r.buf[i] = b.buf[i]
    <3>1. i \in 1 .. a.used
      BY <1>2, <1>5, <1>6, <1>10
    <3>2. a.buf[i] = b.buf[i]
      BY <1>7 DEF Behind
    <3> QED  BY <1>9, <3>1, <3>2
  <2>3. ASSUME NEW i \in 1 .. k PROVE r.buf[b.used + i] = bytes[i]
    <3>1. CASE i = k
      BY <1>9, <2>1, <3>1
    <3>2. CASE i # k
      <4>1. i \in 1 .. k - 1 /\ b.used + i \in 1 .. a.used
        BY <1>2, <1>5, <1>10, <3>2
      <4>2. a.buf[b.used + i] = bytes[i]
        BY <1>7, <4>1 DEF Behind
      <4> QED  BY <1>9, <4>1, <4>2
    <3> QED  BY <3>1, <3>2
  <2> QED  BY <1>9, <2>1, <2>2, <2>3 DEF Behind
<1> QED  BY <1>5, <1>11 DEF r

\* A string in a buffer is read to its NUL.
LEMMA StringIn ==
  ASSUME NEW b, IsBuffer(b), b.used <= b.size, NEW offset \in Nat, NEW s, IsText(s),
         offset + Len(Bytes(s)) <= b.used,
         \A i \in 1 .. Len(Bytes(s)) : b.buf[offset + i] = Bytes(s)[i]
  PROVE  StringAt(b, offset) = TextOf(s)
<1> DEFINE t == TextOf(s)
           n == Len(t)
           C == {b.buf[i] : i \in 1 .. b.size}
           u == b.used - offset
           rest == SubSeq(b.buf, offset + 1, b.used)
<1>1. /\ t \in Seq(Chars) /\ n \in Nat /\ offset + (n + 1) <= b.used
      /\ b.buf[offset + (n + 1)] = NUL
      /\ \A j \in 1 .. n : b.buf[offset + j] = t[j] /\ b.buf[offset + j] # NUL
  <2>1. /\ t \in Seq(Chars) /\ n \in Nat /\ Len(Bytes(s)) = n + 1 /\ Bytes(s)[n + 1] = NUL
        /\ \A j \in 1 .. n : Bytes(s)[j] = t[j] /\ Bytes(s)[j] # NUL
    BY BytesAre
  <2>2. n + 1 \in 1 .. n + 1 /\ \A j \in 1 .. n : j \in 1 .. n + 1
    BY <2>1
  <2> HIDE DEF t, n
  <2> QED  BY <2>1, <2>2
<1>2. b.buf \in Seq(C) /\ Len(b.buf) = b.size /\ b.size \in Nat /\ b.used \in Nat
  <2> DEFINE size == b.size
             buf == b.buf
  <2>1. buf = [i \in 1 .. size |-> buf[i]] /\ size \in Nat /\ b.used \in Nat
    BY DEF IsBuffer
  <2>2. buf \in [1 .. size -> C]
    <3> HIDE DEF buf, size
    <3>1. \A i \in 1 .. size : buf[i] \in C
      BY DEF buf, size
    <3> HIDE DEF C
    <3> QED  BY <2>1, <3>1
  <2> HIDE DEF buf, size, C
  <2>3. buf \in Seq(C) /\ DOMAIN buf = 1 .. size
    BY <2>1, <2>2, SeqDef
  <2>4. Len(buf) = size
    BY <2>1, <2>3, LenProperties
  <2> QED  BY <2>1, <2>3, <2>4 DEF buf, size
<1> HIDE DEF t, n, C
<1>3. /\ rest \in Seq(C) /\ Len(rest) = u /\ u \in Nat /\ offset + u = b.used
      /\ \A i \in 1 .. u : rest[i] = b.buf[offset + i]
  <2>1. u \in Nat /\ offset + u = b.used /\ offset + u <= Len(b.buf)
    BY <1>1, <1>2
  <2>2. rest = SubSeq(b.buf, offset + 1, offset + u)
    BY <2>1
  <2> HIDE DEF rest, u
  <2> QED  BY <1>2, <2>1, <2>2, Piece
<1> HIDE DEF rest, u
<1>4. FirstNul(rest) = n + 1
  <2>1. DOMAIN rest = 1 .. u /\ n + 1 \in 1 .. u
    BY <1>1, <1>2, <1>3, LenProperties
  <2>2. rest[n + 1] = NUL
    BY <1>1, <1>3, <2>1
  <2>3. \A j \in 1 .. (n + 1) - 1 : rest[j] # NUL
    <3>1. \A j \in 1 .. (n + 1) - 1 : j \in 1 .. n /\ j \in 1 .. u
      BY <1>1, <1>3, <2>1
    <3> QED  BY <1>1, <1>3, <3>1
  <2> DEFINE k == n + 1
  <2> HIDE DEF k
  <2>4. k \in 1 .. u /\ rest[k] = NUL /\ \A j \in 1 .. k - 1 : rest[j] # NUL
    BY <2>1, <2>2, <2>3 DEF k
  <2>5. FirstNul(rest) = k
    BY <1>3, <2>1, <2>4, FirstNulIs
  <2> QED  BY <2>5 DEF k
<1>5. StringAt(b, offset) = SubSeq(b.buf, offset + 1, offset + n)
  <2>1. offset + (n + 1) - 1 = offset + n
    BY <1>1
  <2> QED  BY <1>4, <2>1 DEF StringAt, rest
<1> DEFINE r == SubSeq(b.buf, offset + 1, offset + n)
<1>6. r \in Seq(C) /\ Len(r) = n /\ \A i \in 1 .. n : r[i] = b.buf[offset + i]
  <2>1. offset + n <= Len(b.buf)
    BY <1>1, <1>2
  <2> QED  BY <1>1, <1>2, <2>1, Piece
<1> HIDE DEF r
<1>7. r = t
  <2>1. r \in Seq(C \cup Chars) /\ t \in Seq(C \cup Chars)
    BY <1>1, <1>6, SeqMonotonic
  <2>2. Len(r) = Len(t) /\ \A i \in 1 .. Len(r) : r[i] = t[i]
    BY <1>1, <1>6 DEF n
  <2> QED  BY <2>1, <2>2, SeqEqual
<1> QED  BY <1>5, <1>7 DEF t, r

\* A buffer that is made anew is empty.
LEMMA NewIsEmpty ==
  ASSUME NEW size \in Nat
  PROVE  IsBuffer(New(size)) /\ New(size).used = 0 /\ New(size).used <= New(size).size
<1> DEFINE n == IF size > 0 THEN size ELSE 1024
           block == [i \in 1 .. n |-> Junk]
           b == New(size)
<1>1. n \in Nat \ {0}
  OBVIOUS
<1>2. b = [buf |-> block, size |-> n, used |-> 0]
  BY DEF New
<1>3. block = [i \in 1 .. n |-> block[i]]
  OBVIOUS
<1> HIDE DEF n, block, b
<1>4. b.buf = block /\ b.size = n /\ b.used = 0
  BY <1>2
<1>5. IsBuffer(b)
  BY <1>1, <1>2, <1>3, <1>4 DEF IsBuffer
<1> QED  BY <1>1, <1>4, <1>5 DEF b

\* Name and path come out of the buffer of a record as they went into the body, the name
\* unless it has moved.
LEMMA StringsAreRead ==
  ASSUME NEW name, IsText(name), NEW path, IsText(path)
  PROVE  /\ PathIn(Bytes(name), Bytes(path)) = TextOf(path)
         /\ \A moved : ~ moved \/ ~ Grows(Bytes(name), Bytes(path)) \/ TextOf(name) = <<>>
              => NameIn(Bytes(name), Bytes(path), moved) = OrNull(TextOf(name))
<1> DEFINE ns == Bytes(name)
           ps == Bytes(path)
           new == New(RecordSize)
           a == AppendedBytes(new, ns)
           b == AppendedBytes(a, ps)
<1>1. IsBuffer(new) /\ new.used = 0 /\ new.used <= new.size
  BY NewIsEmpty, BufferAssumption
<1>2. /\ ns \in Seq(Chars) /\ Len(ns) \in Nat /\ DOMAIN ns = 1 .. Len(ns)
      /\ ps \in Seq(Chars) /\ Len(ps) \in Nat /\ DOMAIN ps = 1 .. Len(ps)
  BY BytesAre, LenProperties
<1> HIDE DEF new, ns, ps
<1>3. Behind(a, new, ns, Len(ns))
  BY <1>1, <1>2, AppendsAll
<1>4. IsBuffer(a) /\ a.used = Len(ns) /\ a.used <= a.size
      /\ \A i \in 1 .. Len(ns) : a.buf[0 + i] = ns[i]
  BY <1>1, <1>2, <1>3 DEF Behind
<1> HIDE DEF a
<1>5. Behind(b, a, ps, Len(ps))
  BY <1>2, <1>4, AppendsAll
<1>6. IsBuffer(b) /\ b.used = Len(ns) + Len(ps) /\ b.used <= b.size
      /\ \A i \in 1 .. Len(ps) : b.buf[Len(ns) + i] = ps[i]
  BY <1>4, <1>5 DEF Behind
<1> HIDE DEF b
<1>7. StringAt(b, Len(ns)) = TextOf(path)
  <2>1. Len(ns) + Len(ps) <= b.used
    BY <1>2, <1>6
  <2> QED  BY <1>2, <1>6, <2>1, StringIn DEF ps
<1>8. PathIn(ns, ps) = TextOf(path)
  BY <1>7 DEF PathIn, a, b, new
<1>9. StringAt(a, 0) = TextOf(name)
  <2>1. 0 + Len(ns) <= a.used
    BY <1>2, <1>4
  <2> QED  BY <1>2, <1>4, <2>1, StringIn DEF ns
<1>10. ns = <<NUL>> <=> TextOf(name) = <<>>
  <2> DEFINE t == TextOf(name)
  <2>1. /\ t \in Seq(Chars) /\ Len(t) \in Nat /\ Len(ns) = Len(t) + 1
        /\ ns[Len(t) + 1] = NUL
    BY BytesAre DEF ns
  <2> HIDE DEF t
  <2>2. ASSUME ns = <<NUL>> PROVE t = <<>>
    <3>1. Len(ns) = 1
      BY <2>2
    <3> DEFINE m == Len(t)
    <3>2. m \in Nat /\ 1 = m + 1
      BY ONLY <2>1, <3>1
    <3> HIDE DEF m
    <3>3. m = 0
      BY <3>2
    <3> QED  BY <2>1, <3>3, EmptySeq DEF m
  <2>3. ASSUME t = <<>> PROVE ns = <<NUL>>
    <3>1. Len(t) = 0
      BY <2>3, EmptySeq
    <3>2. Len(ns) = 1 /\ ns[1] = NUL
      BY <2>1, <3>1
    <3>3. <<NUL>> \in Seq(Chars) /\ Len(<<NUL>>) = 1 /\ <<NUL>>[1] = NUL
      BY DEF Chars
    <3> QED  BY <1>2, <3>2, <3>3, SeqEqual
  <2> QED  BY <2>2, <2>3 DEF t
<1>11. ASSUME NEW moved, ~ moved \/ ~ Grows(ns, ps) \/ TextOf(name) = <<>>
       PROVE  NameIn(ns, ps, moved) = OrNull(TextOf(name))
  <2>1. CASE TextOf(name) = <<>>
    BY <1>10, <2>1 DEF NameIn, OrNull
  <2>2. CASE TextOf(name) # <<>>
    <3>1. NameIn(ns, ps, moved) = StringAt(a, 0)
      BY <1>10, <1>11, <2>2 DEF NameIn, a, new
    <3> QED  BY <1>9, <2>2, <3>1 DEF OrNull
  <2> QED  BY <2>1, <2>2
<1> QED  BY <1>8, <1>11 DEF ns, ps

-----------------------------------------------------------------------------
(* The recursions over items                                               *)

IsHeight(h) ==
    /\ h \in [Items -> 0 .. MaxNesting]
    /\ \A i \in Items : \A k \in DOMAIN i.children : h[i.children[k]] < h[i]

\* What each of the functions over items makes of an item, f being what they make of
\* its children.
Recorded(f, i) ==
    <<i.type, i.id>> \o Bytes(i.name) \o Bytes(i.path)
    \o <<i.runtime, i.playback, Len(i.children)>>
    \o FlattenSeq([k \in DOMAIN i.children |-> f[i.children[k]]])
Returned(f, i) ==
    [i EXCEPT !.name = IF @ = <<>> THEN NULL ELSE @,
              !.path = IF @ = <<>> THEN NULL ELSE @,
              !.children = [k \in DOMAIN @ |-> f[@[k]]]]
Fitting(f, i) ==
    /\ ~ Grows(Bytes(i.name), Bytes(i.path)) \/ i.name \in {NULL, <<>>}
    /\ \A k \in DOMAIN i.children : f[i.children[k]]

\* One recursion for the three of them.
Three(f, i) ==
    <<Recorded([c \in Items |-> f[c][1]], i), Returned([c \in Items |-> f[c][2]], i),
      Fitting([c \in Items |-> f[c][3]], i)>>

\* It depends on the children only.
LEMMA ThreeOfChildren ==
  ASSUME NEW i \in Items, NEW f, NEW g, \A k \in DOMAIN i.children : f[i.children[k]] = g[i.children[k]]
  PROVE  Three(f, i) = Three(g, i)
<1> DEFINE f1 == [c \in Items |-> f[c][1]]
           f2 == [c \in Items |-> f[c][2]]
           f3 == [c \in Items |-> f[c][3]]
           g1 == [c \in Items |-> g[c][1]]
           g2 == [c \in Items |-> g[c][2]]
           g3 == [c \in Items |-> g[c][3]]
<1>1. \A k \in DOMAIN i.children : i.children[k] \in Items
  <2>1. i.children \in Seq(Items)
    BY ItemAssumption
  <2> QED  BY <2>1, LenProperties, ElementOfSeq
<1>2. \A k \in DOMAIN i.children :
        /\ f1[i.children[k]] = g1[i.children[k]]
        /\ f2[i.children[k]] = g2[i.children[k]]
        /\ f3[i.children[k]] = g3[i.children[k]]
  BY <1>1
<1> HIDE DEF f1, f2, f3, g1, g2, g3
<1>3. Recorded(f1, i) = Recorded(g1, i)
  <2>1. [k \in DOMAIN i.children |-> f1[i.children[k]]] = [k \in DOMAIN i.children |-> g1[i.children[k]]]
    BY <1>2
  <2> QED  BY <2>1, Zenon DEF Recorded
<1>4. Returned(f2, i) = Returned(g2, i)
  <2>1. [k \in DOMAIN i.children |-> f2[i.children[k]]] = [k \in DOMAIN i.children |-> g2[i.children[k]]]
    BY <1>2
  <2> QED  BY <2>1, Zenon DEF Returned
<1>5. Fitting(f3, i) = Fitting(g3, i)
  BY <1>2, Zenon DEF Fitting
<1> QED  BY <1>3, <1>4, <1>5, Zenon DEF Three, f1, f2, f3, g1, g2, g3

\* So there is a function that does it for all items: one that is right for the items up to
\* some height is right for those one higher.
LEMMA ThreeExists == \E f : f = [i \in Items |-> Three(f, i)]
<1>1. PICK h : IsHeight(h)
  BY NestingAssumption DEF IsHeight
<1> DEFINE F(f) == [i \in Items |-> Three(f, i)]
           Upto(f, n) == \A i \in Items : h[i] < n => f[i] = F(f)[i]
           Bad == {n \in Nat : ~ \E f : Upto(f, n)}
<1>2. \A i \in Items : h[i] \in Nat /\ h[i] <= MaxNesting
  BY <1>1, NestingAssumption DEF IsHeight
<1>3. \A i \in Items : \A k \in DOMAIN i.children : i.children[k] \in Items /\ h[i.children[k]] < h[i]
  <2>1. \A i \in Items : i.children \in Seq(Items)
    BY ItemAssumption
  <2>2. \A i \in Items : \A k \in DOMAIN i.children : i.children[k] \in Items
    BY <2>1, LenProperties, ElementOfSeq
  <2> QED  BY <1>1, <2>2 DEF IsHeight
<1>4. ASSUME NEW n \in Nat, NEW f, n = 0 \/ Upto(f, n - 1)
      PROVE  Upto(F(f), n)
  <2> SUFFICES ASSUME NEW i \in Items, h[i] < n PROVE F(f)[i] = F(F(f))[i]
    OBVIOUS
  <2>1. \A k \in DOMAIN i.children : f[i.children[k]] = F(f)[i.children[k]]
    <3> TAKE k \in DOMAIN i.children
    <3>1. i.children[k] \in Items /\ h[i.children[k]] < n - 1 /\ n # 0
      BY <1>2, <1>3
    <3> HIDE DEF F
    <3> QED  BY <1>4, <3>1
  <2> DEFINE g == F(f)
  <2>2. F(g)[i] = Three(g, i) /\ g[i] = Three(f, i)
    OBVIOUS
  <2> HIDE DEF g
  <2>3. Three(f, i) = Three(g, i)
    BY <2>1, ThreeOfChildren DEF g
  <2> QED  BY <2>2, <2>3 DEF g
<1>5. Bad = {}
  <2> SUFFICES ASSUME Bad # {} PROVE FALSE
    OBVIOUS
  <2>1. PICK n \in Bad : \A m \in Bad : n <= m
    <3>1. Bad \in SUBSET Nat
      OBVIOUS
    <3> HIDE DEF Bad
    <3> QED  BY <3>1, Least
  <2>2. n \in Nat /\ \A f : ~ Upto(f, n)
    OBVIOUS
  <2>3. n # 0 => \E f : Upto(f, n - 1)
    <3>1. n # 0 => n - 1 \in Nat /\ ~ n <= n - 1
      BY <2>2
    <3>2. n # 0 => n - 1 \notin Bad
      BY <2>1, <3>1
    <3> HIDE DEF Upto
    <3> QED  BY <3>1, <3>2
  <2> HIDE DEF Bad, F, Upto
  <2>4. PICK f : n = 0 \/ Upto(f, n - 1)
    BY <2>3
  <2> QED  BY <1>4, <2>2, <2>4
<1>6. PICK f : Upto(f, MaxNesting + 1)
  <2>1. MaxNesting + 1 \in Nat
    BY NestingAssumption
  <2> HIDE DEF Upto
  <2> QED  BY <1>5, <2>1
<1>7. \A i \in Items : f[i] = F(f)[i]
  <2>1. \A i \in Items : h[i] < MaxNesting + 1
    BY <1>2, NestingAssumption
  <2> HIDE DEF F
  <2> QED  BY <1>6, <2>1
<1> DEFINE g == F(f)
<1>8. g = F(g)
  <2>1. ASSUME NEW i \in Items PROVE Three(f, i) = Three(g, i)
    <3>1. \A k \in DOMAIN i.children : f[i.children[k]] = g[i.children[k]]
      BY <1>3, <1>7
    <3> HIDE DEF g
    <3> QED  BY <3>1, ThreeOfChildren
  <2> HIDE DEF g
  <2>2. F(f) = F(g)
    BY <2>1
  <2> QED  BY <2>2 DEF g
<1> HIDE DEF g
<1> QED  BY <1>8

\* Record is such a function, made of its first part,
LEMMA RecordIs == Record = [i \in Items |-> Recorded(Record, i)]
<1> DEFINE F(f) == [i \in Items |-> Recorded(f, i)]
<1>1. \E f : f = F(f)
  <2>1. PICK t : t = [i \in Items |-> Three(t, i)]
    BY ThreeExists
  <2> DEFINE f == [i \in Items |-> t[i][1]]
  <2>2. \A i \in Items : t[i][1] = Recorded(f, i)
    <3> TAKE i \in Items
    <3>1. t[i] = Three(t, i)
      BY <2>1
    <3>2. Three(t, i)[1] = Recorded(f, i)
      BY DEF Three
    <3> QED  BY <3>1, <3>2
  <2>3. f = F(f)
    <3> DEFINE e(i) == Recorded(f, i)
    <3>1. \A i \in Items : t[i][1] = e(i)
      BY <2>2
    <3> HIDE DEF e
    <3>2. f = [i \in Items |-> e(i)]
      BY <3>1
    <3> QED  BY <3>2 DEF e
  <2> QED  BY <2>3
<1>2. Record = CHOOSE f : f = F(f)
  BY Zenon DEF Record, Recorded
<1> HIDE DEF F
<1>3. Record = F(Record)
  BY <1>1, <1>2
<1> QED  BY <1>3 DEF F

\* and AsRead of its second,
LEMMA AsReadIs == AsRead = [i \in Items |-> Returned(AsRead, i)]
<1> DEFINE F(f) == [i \in Items |-> Returned(f, i)]
<1>1. \E f : f = F(f)
  <2>1. PICK t : t = [i \in Items |-> Three(t, i)]
    BY ThreeExists
  <2> DEFINE f == [i \in Items |-> t[i][2]]
  <2>2. \A i \in Items : t[i][2] = Returned(f, i)
    <3> TAKE i \in Items
    <3>1. t[i] = Three(t, i)
      BY <2>1
    <3>2. Three(t, i)[2] = Returned(f, i)
      BY DEF Three
    <3> QED  BY <3>1, <3>2
  <2>3. f = F(f)
    <3> DEFINE e(i) == Returned(f, i)
    <3>1. \A i \in Items : t[i][2] = e(i)
      BY <2>2
    <3> HIDE DEF e
    <3>2. f = [i \in Items |-> e(i)]
      BY <3>1
    <3> QED  BY <3>2 DEF e
  <2> QED  BY <2>3
<1>2. AsRead = CHOOSE f : f = F(f)
  BY Zenon DEF AsRead, Returned
<1> HIDE DEF F
<1>3. AsRead = F(AsRead)
  BY <1>1, <1>2
<1> QED  BY <1>3 DEF F

\* and Fits of its third.
LEMMA FitsIs == Fits = [i \in Items |-> Fitting(Fits, i)]
<1> DEFINE F(f) == [i \in Items |-> Fitting(f, i)]
<1>1. \E f : f = F(f)
  <2>1. PICK t : t = [i \in Items |-> Three(t, i)]
    BY ThreeExists
  <2> DEFINE f == [i \in Items |-> t[i][3]]
  <2>2. \A i \in Items : t[i][3] = Fitting(f, i)
    <3> TAKE i \in Items
    <3>1. t[i] = Three(t, i)
      BY <2>1
    <3>2. Three(t, i)[3] = Fitting(f, i)
      BY DEF Three
    <3> QED  BY <3>1, <3>2
  <2>3. f = F(f)
    <3> DEFINE e(i) == Fitting(f, i)
    <3>1. \A i \in Items : t[i][3] = e(i)
      BY <2>2
    <3> HIDE DEF e
    <3>2. f = [i \in Items |-> e(i)]
      BY <3>1
    <3> QED  BY <3>2 DEF e
  <2> QED  BY <2>3
<1>2. Fits = CHOOSE f : f = F(f)
  BY Zenon DEF Fits, Fitting
<1> HIDE DEF F
<1>3. Fits = F(Fits)
  BY <1>1, <1>2
<1> QED  BY <1>3 DEF F

-----------------------------------------------------------------------------
(* Records in the body                                                     *)

\* f[i] is the first i sequences of ss, one behind the other.
Joins(f, ss, n, T) ==
    /\ f \in [1 .. n -> Seq(T)]
    /\ \A i \in 1 .. n : f[i] = IF i = 1 THEN ss[i] ELSE f[i - 1] \o ss[i]

\* One more sequence can always be put behind the others.
LEMMA JoinsOneMore ==
  ASSUME NEW T, NEW ss \in Seq(Seq(T)), NEW m \in 1 .. Len(ss), NEW f, Joins(f, ss, m - 1, T)
  PROVE  \E g : Joins(g, ss, m, T)
<1> DEFINE next == IF m = 1 THEN ss[m] ELSE f[m - 1] \o ss[m]
           g == [i \in 1 .. m |-> IF i = m THEN next ELSE f[i]]
<1>1. m \in Nat \ {0} /\ ss[m] \in Seq(T)
  BY ElementOfSeq, LenProperties
<1>2. f \in [1 .. m - 1 -> Seq(T)]
  BY DEF Joins
<1>3. next \in Seq(T)
  <2>1. m # 1 => f[m - 1] \in Seq(T)
    BY <1>1, <1>2
  <2> QED  BY <1>1, <2>1, ConcatProperties
<1> HIDE DEF next
<1>4. g \in [1 .. m -> Seq(T)]
  BY <1>1, <1>2, <1>3
<1>5. ASSUME NEW i \in 1 .. m
      PROVE  g[i] = IF i = 1 THEN ss[i] ELSE g[i - 1] \o ss[i]
  <2>1. i # 1 => g[i - 1] = f[i - 1]
    BY <1>1
  <2>2. CASE i = m
    <3>1. g[m] = next
      BY <1>1
    <3> HIDE DEF g
    <3> QED  BY <2>1, <2>2, <3>1 DEF next
  <2>3. CASE i # m
    <3>1. g[i] = f[i] /\ i \in 1 .. m - 1
      BY <1>1, <2>3
    <3> HIDE DEF g
    <3> QED  BY <2>1, <3>1 DEF Joins
  <2> QED  BY <2>2, <2>3
<1> HIDE DEF g
<1> QED  BY <1>4, <1>5 DEF Joins

\* So all of them can.
LEMMA JoinsExist ==
  ASSUME NEW T, NEW ss \in Seq(Seq(T))
  PROVE  \A m \in 0 .. Len(ss) : \E f : Joins(f, ss, m, T)
<1> DEFINE Bad == {m \in 0 .. Len(ss) : ~ \E f : Joins(f, ss, m, T)}
<1>1. Len(ss) \in Nat
  BY LenProperties
<1>2. SUFFICES ASSUME Bad # {} PROVE FALSE
  OBVIOUS
<1>3. PICK m \in Bad : \A k \in Bad : m <= k
  <2>1. Bad \in SUBSET Nat
    BY <1>1
  <2> QED  BY <1>2, <2>1, Least
<1>4. CASE m = 0
  <2> DEFINE g == [i \in 1 .. 0 |-> <<>>]
  <2>1. Joins(g, ss, 0, T)
    BY DEF Joins
  <2> QED  BY <1>3, <1>4, <2>1
<1>5. CASE m # 0
  <2>1. m - 1 \in 0 .. Len(ss) /\ m \in 1 .. Len(ss) /\ ~ m <= m - 1
    BY <1>1, <1>3, <1>5
  <2>2. m - 1 \notin Bad
    BY <1>3, <2>1
  <2> QED  BY <1>3, <2>1, <2>2, JoinsOneMore
<1> QED  BY <1>4, <1>5

\* FlattenSeq does it.
LEMMA FlattenJoins ==
  ASSUME NEW T, NEW ss \in Seq(Seq(T)), ss # <<>>
  PROVE  \E f : Joins(f, ss, Len(ss), T) /\ FlattenSeq(ss) = f[Len(ss)]
<1> DEFINE n == Len(ss)
           Body(f) == [i \in 1 .. n |-> IF i = 1 THEN ss[i] ELSE f[i - 1] \o ss[i]]
           flat == CHOOSE f : f = Body(f)
<1>1. n \in Nat \ {0}
  BY EmptySeq
<1>2. FlattenSeq(ss) = flat[n]
  BY <1>1 DEF FlattenSeq
<1>3. PICK g : Joins(g, ss, n, T)
  BY <1>1, JoinsExist
<1>4. g = Body(g)
  BY <1>3 DEF Joins
<1>5. flat = Body(flat)
  <2> HIDE DEF Body
  <2> QED  BY <1>4
<1> HIDE DEF flat, n
<1>6. \A i \in 1 .. n : flat[i] = IF i = 1 THEN ss[i] ELSE flat[i - 1] \o ss[i]
  BY <1>5
<1> DEFINE Bad == {i \in 1 .. n : flat[i] # g[i]}
<1>7. Bad = {}
  <2> SUFFICES ASSUME Bad # {} PROVE FALSE
    OBVIOUS
  <2>1. PICK i \in Bad : \A k \in Bad : i <= k
    <3>1. Bad \in SUBSET Nat
      BY <1>1
    <3> QED  BY <3>1, Least
  <2>2. g[i] = IF i = 1 THEN ss[i] ELSE g[i - 1] \o ss[i]
    BY <1>3 DEF Joins
  <2>3. i # 1 => flat[i - 1] = g[i - 1]
    <3>1. i # 1 => i - 1 \in 1 .. n /\ ~ i <= i - 1
      BY <1>1
    <3> QED  BY <2>1, <3>1
  <2> QED  BY <1>6, <2>2, <2>3
<1>8. flat[n] = g[n]
  BY <1>1, <1>7
<1> QED  BY <1>2, <1>3, <1>8 DEF n

\* What the reader of a row of children has got after each of them.
IsRow(f, n, get, first) == f = [k \in 0 .. n |-> IF k = 0 THEN first ELSE get[f[k - 1].end]]

\* There is one: a row that is right up to some child is right up to the next.
LEMMA RowExists ==
  ASSUME NEW n \in Nat, NEW get, NEW first
  PROVE  \E f : IsRow(f, n, get, first)
<1> DEFINE F(f) == [k \in 0 .. n |-> IF k = 0 THEN first ELSE get[f[k - 1].end]]
           Upto(f, m) == \A k \in 0 .. m : f[k] = F(f)[k]
           Bad == {m \in 0 .. n : ~ \E f : Upto(f, m)}
<1>1. ASSUME NEW m \in 0 .. n, NEW f, m = 0 \/ Upto(f, m - 1)
      PROVE  Upto(F(f), m)
  <2> DEFINE g == F(f)
  <2> SUFFICES ASSUME NEW k \in 0 .. m PROVE g[k] = F(g)[k]
    OBVIOUS
  <2>1. k \in 0 .. n
    OBVIOUS
  <2>2. k # 0 => f[k - 1] = g[k - 1]
    <3> SUFFICES ASSUME k # 0 PROVE f[k - 1] = g[k - 1]
      OBVIOUS
    <3>1. m # 0 /\ k - 1 \in 0 .. m - 1
      OBVIOUS
    <3> HIDE DEF F
    <3> QED  BY <1>1, <3>1
  <2>3. /\ g[k] = IF k = 0 THEN first ELSE get[f[k - 1].end]
        /\ F(g)[k] = IF k = 0 THEN first ELSE get[g[k - 1].end]
    BY <2>1
  <2> HIDE DEF g, F
  <2> QED  BY <2>2, <2>3
<1>2. Bad = {}
  <2> SUFFICES ASSUME Bad # {} PROVE FALSE
    OBVIOUS
  <2> HIDE DEF Upto
  <2>1. PICK m \in Bad : \A j \in Bad : m <= j
    <3>1. Bad \in SUBSET Nat
      OBVIOUS
    <3> HIDE DEF Bad
    <3> QED  BY <3>1, Least
  <2>2. m \in 0 .. n /\ \A f : ~ Upto(f, m)
    OBVIOUS
  <2>3. m # 0 => \E f : Upto(f, m - 1)
    <3>1. m # 0 => m - 1 \in 0 .. n /\ ~ m <= m - 1
      BY <2>2
    <3>2. m # 0 => m - 1 \notin Bad
      BY <2>1, <3>1
    <3> HIDE DEF Upto
    <3> QED  BY <3>1, <3>2
  <2> HIDE DEF Bad, F, Upto
  <2>4. PICK f : m = 0 \/ Upto(f, m - 1)
    BY <2>3
  <2> QED  BY <1>1, <2>2, <2>4
<1>3. PICK f : Upto(f, n)
  <2>1. n \in 0 .. n
    OBVIOUS
  <2> HIDE DEF Upto
  <2> QED  BY <1>2, <2>1
<1> DEFINE g == F(f)
<1>4. \A k \in 0 .. n : f[k] = g[k]
  BY <1>3
<1>5. \A k \in 0 .. n : k # 0 => k - 1 \in 0 .. n
  OBVIOUS
<1>6. g = F(g)
  <2> HIDE DEF g
  <2>1. \A k \in 0 .. n : k # 0 => f[k - 1] = g[k - 1]
    BY <1>4, <1>5
  <2>2. F(f) = F(g)
    BY <2>1
  <2> QED  BY <2>2 DEF g
<1>7. IsRow(g, n, get, first)
  BY <1>6 DEF IsRow
<1> HIDE DEF g
<1> QED  BY <1>7

\* jf_disk_get_next is defined for any number of calls.
Fetching(f) ==
    [calls \in 0 .. MaxNesting + 1 |->
        [moved \in BOOLEAN |-> [offset \in Nat |->
            IF calls = 0 THEN [item |-> NULL, end |-> offset]
            ELSE Fetched(f[calls - 1][moved], offset, moved)]]]

\* So GetNext is, by the same argument on the number of calls.
LEMMA GetNextIs == GetNext = Fetching(GetNext)
<1> DEFINE n == MaxNesting + 1
           Upto(f, m) == \A k \in 0 .. m : f[k] = Fetching(f)[k]
           Bad == {m \in 0 .. n : ~ \E f : Upto(f, m)}
<1>0. n \in Nat
  BY NestingAssumption
<1>1. ASSUME NEW m \in 0 .. n, NEW f, m = 0 \/ Upto(f, m - 1)
      PROVE  Upto(Fetching(f), m)
  <2> DEFINE g == Fetching(f)
  <2> SUFFICES ASSUME NEW k \in 0 .. m PROVE g[k] = Fetching(g)[k]
    OBVIOUS
  <2>1. k \in 0 .. n
    BY <1>0
  <2>2. k # 0 => f[k - 1] = g[k - 1]
    <3> SUFFICES ASSUME k # 0 PROVE f[k - 1] = g[k - 1]
      OBVIOUS
    <3>1. m # 0 /\ k - 1 \in 0 .. m - 1
      BY <1>0
    <3> QED  BY <1>1, <3>1
  <2> DEFINE e(x) == [moved \in BOOLEAN |-> [offset \in Nat |->
                         IF k = 0 THEN [item |-> NULL, end |-> offset]
                         ELSE Fetched(x[moved], offset, moved)]]
  <2>3. g[k] = e(f[k - 1]) /\ Fetching(g)[k] = e(g[k - 1])
    <3> HIDE DEF g
    <3>1. \A x : Fetching(x)[k] = e(x[k - 1])
      BY <2>1 DEF Fetching
    <3> HIDE DEF e
    <3> QED  BY <3>1 DEF g
  <2>4. k = 0 => e(f[k - 1]) = e(g[k - 1])
    OBVIOUS
  <2> HIDE DEF g, e
  <2> QED  BY <2>2, <2>3, <2>4
<1>2. Bad = {}
  <2> SUFFICES ASSUME Bad # {} PROVE FALSE
    OBVIOUS
  <2> HIDE DEF Upto
  <2>1. PICK m \in Bad : \A j \in Bad : m <= j
    <3>1. Bad \in SUBSET Nat
      BY <1>0
    <3> HIDE DEF Bad
    <3> QED  BY <3>1, Least
  <2>2. m \in 0 .. n /\ \A f : ~ Upto(f, m)
    OBVIOUS
  <2>3. m # 0 => \E f : Upto(f, m - 1)
    <3>1. m # 0 => m - 1 \in 0 .. n /\ ~ m <= m - 1
      BY <1>0, <2>2
    <3>2. m # 0 => m - 1 \notin Bad
      BY <2>1, <3>1
    <3> HIDE DEF Upto
    <3> QED  BY <3>1, <3>2
  <2> HIDE DEF Bad, Upto
  <2>4. PICK f : m = 0 \/ Upto(f, m - 1)
    BY <2>3
  <2> QED  BY <1>1, <2>2, <2>4
<1>3. PICK f : Upto(f, n)
  <2>1. n \in 0 .. n
    BY <1>0
  <2> HIDE DEF Upto
  <2> QED  BY <1>2, <2>1
<1> DEFINE g == Fetching(f)
<1>4. g = Fetching(g)
  <2>1. \A k \in 0 .. n : k # 0 => f[k - 1] = g[k - 1]
    <3>1. \A k \in 0 .. n : k # 0 => k - 1 \in 0 .. n
      BY <1>0
    <3> HIDE DEF g
    <3> QED  BY <1>3, <3>1 DEF g
  <2> HIDE DEF g
  <2>2. Fetching(f) = Fetching(g)
    BY <2>1 DEF Fetching
  <2> QED  BY <2>2 DEF g
<1>5. GetNext = CHOOSE x : x = Fetching(x)
  BY Zenon DEF GetNext, Fetching
<1> HIDE DEF g
<1> QED  BY <1>4, <1>5

\* All that the body is made of.
Cells ==
    Chars \cup Nat \cup {i.type : i \in Items} \cup {i.id : i \in Items}
    \cup {i.runtime : i \in Items} \cup {i.playback : i \in Items}

\* What lies at an offset may be taken apart.
LEMMA PlacedParts ==
  ASSUME NEW D, body \in Seq(D), NEW C, NEW s \in Seq(C), NEW t \in Seq(C),
         NEW offset, Placed(offset, s \o t)
  PROVE  Placed(offset, s) /\ Placed(offset + Len(s), t)
<1>1. /\ Len(s \o t) = Len(s) + Len(t)
      /\ \A i \in 1 .. Len(s) + Len(t) : (s \o t)[i] = IF i <= Len(s) THEN s[i] ELSE t[i - Len(s)]
  BY ConcatProperties
<1>2. Len(s) \in Nat /\ Len(t) \in Nat /\ Len(body) \in Nat /\ offset \in Nat
  BY LenProperties DEF Placed
<1>3. offset + (Len(s) + Len(t)) <= Len(body)
  BY <1>1 DEF Placed
<1>4. \A i \in 1 .. Len(s) + Len(t) : body[offset + i] = (s \o t)[i]
  BY <1>1 DEF Placed
<1>5. ASSUME NEW i \in 1 .. Len(s) PROVE body[offset + i] = s[i]
  <2>1. i \in 1 .. Len(s) + Len(t) /\ i <= Len(s)
    BY <1>2
  <2> QED  BY <1>1, <1>4, <2>1
<1>6. ASSUME NEW i \in 1 .. Len(t) PROVE body[(offset + Len(s)) + i] = t[i]
  <2> DEFINE j == Len(s) + i
  <2>1. /\ j \in 1 .. Len(s) + Len(t) /\ ~ j <= Len(s) /\ j - Len(s) = i
        /\ offset + j = (offset + Len(s)) + i
    BY <1>2
  <2> HIDE DEF j
  <2> QED  BY <1>1, <1>4, <2>1
<1>7. Placed(offset, s)
  BY <1>2, <1>3, <1>5 DEF Placed
<1>8. Placed(offset + Len(s), t)
  BY <1>2, <1>3, <1>6 DEF Placed
<1> QED  BY <1>7, <1>8

\* The records of an item's children, and those of any row, make up one sequence.
Kids(i) == [k \in DOMAIN i.children |-> Record[i.children[k]]]

\* The row is made of what its sequences are made of.
LEMMA RowIsCells ==
  ASSUME NEW C, NEW rs \in Seq(Seq(C))
  PROVE  FlattenSeq(rs) \in Seq(C)
<1>1. CASE rs = <<>>
  <2>1. FlattenSeq(<<>>) = <<>>
    BY DEF FlattenSeq
  <2> QED  BY <1>1, <2>1, EmptySeq
<1>2. CASE rs # <<>>
  <2>1. PICK f : Joins(f, rs, Len(rs), C) /\ FlattenSeq(rs) = f[Len(rs)]
    BY <1>2, FlattenJoins
  <2>2. Len(rs) \in 1 .. Len(rs)
    BY <1>2, EmptySeq
  <2> QED  BY <2>1, <2>2 DEF Joins
<1> QED  BY <1>1, <1>2

\* What is known of an item.
LEMMA ItemIs ==
  ASSUME NEW i \in Items
  PROVE  /\ IsText(i.name) /\ IsText(i.path) /\ i.children \in Seq(Items)
         /\ Len(i.children) \in Nat /\ DOMAIN i.children = 1 .. Len(i.children)
         /\ \A k \in 1 .. Len(i.children) : i.children[k] \in Items
<1>1. IsText(i.name) /\ IsText(i.path) /\ i.children \in Seq(Items)
  BY ItemAssumption
<1> QED  BY <1>1, LenProperties, ElementOfSeq

\* The row of its children's records.
LEMMA KidsAre ==
  ASSUME NEW i \in Items, \A k \in DOMAIN i.children : Record[i.children[k]] \in Seq(Cells)
  PROVE  Kids(i) \in Seq(Seq(Cells)) /\ Len(Kids(i)) = Len(i.children)
<1> DEFINE n == Len(i.children)
<1>1. n \in Nat /\ DOMAIN i.children = 1 .. n
  BY ItemIs
<1>2. Kids(i) \in [1 .. n -> Seq(Cells)]
  <2> HIDE DEF n
  <2> QED  BY <1>1 DEF Kids
<1> HIDE DEF n
<1>3. Kids(i) \in Seq(Seq(Cells)) /\ DOMAIN Kids(i) = 1 .. n
  BY <1>1, <1>2, SeqDef
<1>4. Len(Kids(i)) = n
  BY <1>1, <1>3, LenProperties
<1> QED  BY <1>3, <1>4 DEF n

\* The parts of a record.
Fore(i) == <<i.type, i.id>>
Aft(i) == <<i.runtime, i.playback, Len(i.children)>>

\* A record is its parts, one behind the other, if those of the children are made of cells.
LEMMA RecordOf ==
  ASSUME NEW i \in Items, \A k \in DOMAIN i.children : Record[i.children[k]] \in Seq(Cells)
  PROVE  /\ Record[i] = (((Fore(i) \o Bytes(i.name)) \o Bytes(i.path)) \o Aft(i)) \o FlattenSeq(Kids(i))
         /\ Fore(i) \in Seq(Cells) /\ Bytes(i.name) \in Seq(Cells) /\ Bytes(i.path) \in Seq(Cells)
         /\ Aft(i) \in Seq(Cells) /\ FlattenSeq(Kids(i)) \in Seq(Cells)
         /\ Record[i] \in Seq(Cells)
<1>1. Record[i] = (((Fore(i) \o Bytes(i.name)) \o Bytes(i.path)) \o Aft(i)) \o FlattenSeq(Kids(i))
  <2>1. Record[i] = Recorded(Record, i)
    BY RecordIs
  <2>2. Recorded(Record, i) = (((Fore(i) \o Bytes(i.name)) \o Bytes(i.path)) \o Aft(i)) \o FlattenSeq(Kids(i))
    BY Zenon DEF Recorded, Fore, Aft, Kids
  <2> QED  BY <2>1, <2>2
<1>2. Bytes(i.name) \in Seq(Cells) /\ Bytes(i.path) \in Seq(Cells)
  <2>1. Bytes(i.name) \in Seq(Chars) /\ Bytes(i.path) \in Seq(Chars)
    BY ItemIs, BytesAre
  <2>2. Chars \subseteq Cells
    BY DEF Cells
  <2> QED  BY <2>1, <2>2, SeqMonotonic
<1>3. Fore(i) \in Seq(Cells) /\ Aft(i) \in Seq(Cells)
  <2>1. i.type \in Cells /\ i.id \in Cells /\ i.runtime \in Cells /\ i.playback \in Cells
    BY DEF Cells
  <2>2. Len(i.children) \in Cells
    BY ItemIs DEF Cells
  <2> HIDE DEF Cells
  <2> QED  BY <2>1, <2>2 DEF Fore, Aft
<1>4. FlattenSeq(Kids(i)) \in Seq(Cells)
  BY KidsAre, RowIsCells
<1>5. Fore(i) \o Bytes(i.name) \in Seq(Cells)
  BY <1>2, <1>3, ConcatProperties
<1>6. (Fore(i) \o Bytes(i.name)) \o Bytes(i.path) \in Seq(Cells)
  BY <1>2, <1>5, ConcatProperties
<1>7. ((Fore(i) \o Bytes(i.name)) \o Bytes(i.path)) \o Aft(i) \in Seq(Cells)
  BY <1>3, <1>6, ConcatProperties
<1>8. Record[i] \in Seq(Cells)
  BY <1>1, <1>4, <1>7, ConcatProperties
<1> QED  BY <1>1, <1>2, <1>3, <1>4, <1>8

\* Of the items that have something to be told apart, there is one whose children have not.
LEMMA LowestItem ==
  ASSUME NEW B \in SUBSET Items, B # {}
  PROVE  \E i \in B : \A k \in DOMAIN i.children : i.children[k] \notin B
<1>1. PICK h : IsHeight(h)
  BY NestingAssumption DEF IsHeight
<1> DEFINE S == {h[i] : i \in B}
<1>2. \A i \in Items : h[i] \in Nat
  BY <1>1, NestingAssumption DEF IsHeight
<1>3. PICK n \in S : \A m \in S : n <= m
  <2>1. S \in SUBSET Nat /\ S # {}
    BY <1>2
  <2> HIDE DEF S
  <2> QED  BY <2>1, Least
<1>4. PICK i \in B : n = h[i]
  OBVIOUS
<1>5. ASSUME NEW k \in DOMAIN i.children, i.children[k] \in B PROVE FALSE
  <2>1. h[i.children[k]] < h[i] /\ i.children[k] \in Items
    BY <1>1, <1>5 DEF IsHeight
  <2>2. h[i] <= h[i.children[k]]
    BY <1>3, <1>4, <1>5
  <2>3. h[i] \in Nat /\ h[i.children[k]] \in Nat
    BY <1>2, <2>1
  <2> QED  BY <2>1, <2>2, <2>3
<1> QED  BY <1>5

\* So a record is made of cells, however deep its item.
LEMMA RecordsAreCells == \A i \in Items : Record[i] \in Seq(Cells)
<1> DEFINE B == {i \in Items : Record[i] \notin Seq(Cells)}
<1> SUFFICES ASSUME B # {} PROVE FALSE
  OBVIOUS
<1>1. PICK i \in B : \A k \in DOMAIN i.children : i.children[k] \notin B
  <2>1. B \in SUBSET Items
    OBVIOUS
  <2> HIDE DEF B
  <2> QED  BY <2>1, LowestItem
<1>2. \A k \in DOMAIN i.children : Record[i.children[k]] \in Seq(Cells)
  BY <1>1, ItemIs
<1> QED  BY <1>1, <1>2, RecordOf

\* Where each record of a row begins.
Begins(ends, rs, p) ==
    /\ ends \in [0 .. Len(rs) -> Nat] /\ ends[0] = p
    /\ \A k \in 1 .. Len(rs) : ends[k] = ends[k - 1] + Len(rs[k]) /\ Placed(ends[k - 1], rs[k])
    /\ ends[Len(rs)] = p + Len(FlattenSeq(rs))

\* As long as the whole row is in the body, so is each beginning of it.
LEMMA RowBegins ==
  ASSUME NEW D, body \in Seq(D), NEW C, NEW rs \in Seq(Seq(C)), NEW n \in Nat, n = Len(rs),
         NEW f, Joins(f, rs, n, C), NEW p, n # 0, Placed(p, f[n])
  PROVE  \A k \in 1 .. n : Placed(p, f[k])
<1> DEFINE Bad == {j \in 0 .. n - 1 : ~ Placed(p, f[n - j])}
<1>1. Bad = {}
  <2> SUFFICES ASSUME Bad # {} PROVE FALSE
    OBVIOUS
  <2>1. PICK j \in Bad : \A m \in Bad : j <= m
    <3>1. Bad \in SUBSET Nat
      OBVIOUS
    <3> HIDE DEF Bad
    <3> QED  BY <3>1, Least
  <2>2. j \in 0 .. n - 1 /\ ~ Placed(p, f[n - j])
    OBVIOUS
  <2>3. j # 0
    <3>1. n - 0 = n
      OBVIOUS
    <3> QED  BY <2>2, <3>1
  <2> DEFINE k == n - j
  <2>4. k \in 1 .. n - 1 /\ k + 1 \in 1 .. n /\ k + 1 # 1 /\ (k + 1) - 1 = k /\ n - (j - 1) = k + 1
        /\ j - 1 \in 0 .. n - 1 /\ ~ j <= j - 1
    BY <2>2, <2>3
  <2>5. Placed(p, f[k + 1])
    BY <2>1, <2>4
  <2> HIDE DEF k, Bad
  <2>6. f[k + 1] = f[k] \o rs[k + 1] /\ f[k] \in Seq(C)
    <3>1. f[k + 1] = IF k + 1 = 1 THEN rs[k + 1] ELSE f[(k + 1) - 1] \o rs[k + 1]
      BY <2>4, Zenon DEF Joins
    <3>2. k \in 1 .. n
      BY <2>4
    <3>3. f[k] \in Seq(C)
      BY <3>2 DEF Joins
    <3> QED  BY <2>4, <3>1, <3>3
  <2>7. rs[k + 1] \in Seq(C)
    BY <2>4, ElementOfSeq
  <2>8. Placed(p, f[k])
    BY <2>5, <2>6, <2>7, PlacedParts
  <2> QED  BY <2>2, <2>8 DEF k
<1> SUFFICES ASSUME NEW k \in 1 .. n PROVE Placed(p, f[k])
  OBVIOUS
<1>2. n - k \in 0 .. n - 1 /\ n - (n - k) = k
  OBVIOUS
<1> QED  BY <1>1, <1>2

\* And behind each begins the next.
LEMMA RowPlaced ==
  ASSUME NEW D, body \in Seq(D), NEW C, NEW rs \in Seq(Seq(C)), NEW p, Placed(p, FlattenSeq(rs))
  PROVE  \E ends : Begins(ends, rs, p)
<1> DEFINE n == Len(rs)
<1>1. n \in Nat /\ p \in Nat
  BY LenProperties DEF Placed
<1>2. CASE rs = <<>>
  <2> DEFINE ends == [k \in 0 .. 0 |-> p]
  <2>1. FlattenSeq(rs) = <<>> /\ Len(rs) = 0
    BY <1>2 DEF FlattenSeq
  <2>2. Len(FlattenSeq(rs)) = 0
    BY <2>1, EmptySeq
  <2>3. ends \in [0 .. 0 -> Nat] /\ ends[0] = p /\ p = p + 0
    BY <1>1
  <2> HIDE DEF ends
  <2>4. Begins(ends, rs, p)
    BY <2>1, <2>2, <2>3 DEF Begins
  <2> QED  BY <2>4
<1>3. CASE rs # <<>>
  <2>1. PICK f : Joins(f, rs, n, C) /\ FlattenSeq(rs) = f[n]
    BY <1>3, FlattenJoins
  <2>2. n # 0
    BY <1>3, EmptySeq
  <2>3. \A k \in 1 .. n : Placed(p, f[k])
    BY <1>1, <2>1, <2>2, RowBegins
  <2>4. \A k \in 1 .. n : Len(f[k]) \in Nat
    <3>1. \A k \in 1 .. n : f[k] \in Seq(C)
      BY <2>1 DEF Joins
    <3> QED  BY <3>1, LenProperties
  <2> DEFINE ends == [k \in 0 .. n |-> IF k = 0 THEN p ELSE p + Len(f[k])]
  <2>5. ends \in [0 .. n -> Nat] /\ ends[0] = p
    <3> HIDE DEF n
    <3> QED  BY <1>1, <2>4
  <2>6. ends[n] = p + Len(FlattenSeq(rs))
    <3> HIDE DEF n
    <3> QED  BY <1>1, <2>1, <2>2
  <2>7. ASSUME NEW k \in 1 .. n
        PROVE  ends[k] = ends[k - 1] + Len(rs[k]) /\ Placed(ends[k - 1], rs[k])
    <3>1. f[k] = IF k = 1 THEN rs[k] ELSE f[k - 1] \o rs[k]
      BY <2>1 DEF Joins
    <3>2. k \in 0 .. n /\ k # 0 /\ k - 1 \in 0 .. n /\ (k - 1 = 0 <=> k = 1) /\ (k # 1 => k - 1 \in 1 .. n)
      BY <1>1
    <3>3. ends[k] = p + Len(f[k]) /\ ends[k - 1] = IF k = 1 THEN p ELSE p + Len(f[k - 1])
      <4> HIDE DEF n
      <4> QED  BY <3>2
    <3>4. rs[k] \in Seq(C) /\ Len(rs[k]) \in Nat
      BY ElementOfSeq, LenProperties
    <3>5. CASE k = 1
      BY <2>3, <3>1, <3>3, <3>5
    <3>6. CASE k # 1
      <4>1. f[k - 1] \in Seq(C)
        BY <2>1, <3>2, <3>6 DEF Joins
      <4>2. Placed(p, f[k - 1] \o rs[k])
        BY <2>3, <3>1, <3>6
      <4>3. Placed(p + Len(f[k - 1]), rs[k])
        BY <3>4, <4>1, <4>2, PlacedParts
      <4>4. Len(f[k]) = Len(f[k - 1]) + Len(rs[k]) /\ Len(f[k - 1]) \in Nat
        BY <3>1, <3>4, <3>6, <4>1, ConcatProperties, LenProperties
      <4>5. p + Len(f[k]) = (p + Len(f[k - 1])) + Len(rs[k])
        <5> DEFINE x == Len(f[k - 1])
                   y == Len(rs[k])
        <5>1. Len(f[k]) = x + y /\ x \in Nat /\ y \in Nat
          BY <3>4, <4>4
        <5> HIDE DEF x, y
        <5>2. p + Len(f[k]) = (p + x) + y
          BY <1>1, <5>1
        <5> QED  BY <5>2 DEF x, y
      <4> HIDE DEF ends
      <4> QED  BY <3>3, <3>6, <4>3, <4>5
    <3> QED  BY <3>5, <3>6
  <2> HIDE DEF ends
  <2>8. Begins(ends, rs, p)
    BY <2>5, <2>6, <2>7 DEF Begins
  <2> QED  BY <2>8
<1> QED  BY <1>2, <1>3

\* Where the parts of a record are.
At(i, offset) == offset + 2 + Len(Bytes(i.name)) + Len(Bytes(i.path))

\* Where a record lies, each of its parts does.
LEMMA RecordParts ==
  ASSUME NEW D, body \in Seq(D), NEW i \in Items, NEW offset, Placed(offset, Record[i])
  PROVE  /\ offset \in Nat /\ Len(Bytes(i.name)) \in Nat /\ Len(Bytes(i.path)) \in Nat
         /\ At(i, offset) \in Nat
         /\ body[offset + 1] = i.type /\ body[offset + 2] = i.id
         /\ Placed(offset + 2, Bytes(i.name))
         /\ Placed(offset + 2 + Len(Bytes(i.name)), Bytes(i.path))
         /\ body[At(i, offset) + 1] = i.runtime /\ body[At(i, offset) + 2] = i.playback
         /\ body[At(i, offset) + 3] = Len(i.children)
         /\ Placed(At(i, offset) + 3, FlattenSeq(Kids(i)))
         /\ offset + Len(Record[i]) = At(i, offset) + 3 + Len(FlattenSeq(Kids(i)))
<1> DEFINE ns == Bytes(i.name)
           ps == Bytes(i.path)
           fore == Fore(i)
           aft == Aft(i)
           row == FlattenSeq(Kids(i))
           r == Record[i]
           m == Len(ns)
           n == Len(ps)
<1>1. /\ r = (((fore \o ns) \o ps) \o aft) \o row
      /\ fore \in Seq(Cells) /\ ns \in Seq(Cells) /\ ps \in Seq(Cells)
      /\ aft \in Seq(Cells) /\ row \in Seq(Cells)
  <2>1. \A k \in DOMAIN i.children : Record[i.children[k]] \in Seq(Cells)
    BY ItemIs, RecordsAreCells
  <2> QED  BY <2>1, RecordOf
<1>2. Len(fore) = 2 /\ fore[1] = i.type /\ fore[2] = i.id
  BY DEF Fore
<1>3. Len(aft) = 3 /\ aft[1] = i.runtime /\ aft[2] = i.playback /\ aft[3] = Len(i.children)
  BY DEF Aft
<1>4. At(i, offset) = offset + 2 + m + n
  BY DEF At
<1>5. offset \in Nat
  BY DEF Placed
<1> HIDE DEF ns, ps, fore, aft, row, r
<1>6. m \in Nat /\ n \in Nat /\ Len(row) \in Nat
  BY <1>1, LenProperties
<1> DEFINE x == fore \o ns
           y == x \o ps
           z == y \o aft
<1>7. x \in Seq(Cells) /\ Len(x) = 2 + m
  <2>1. x \in Seq(Cells) /\ Len(x) = Len(fore) + Len(ns)
    BY ONLY <1>1, ConcatProperties
  <2> QED  BY <1>2, <2>1
<1> HIDE DEF x
<1>8. y \in Seq(Cells) /\ Len(y) = 2 + m + n
  BY <1>1, <1>7, ConcatProperties
<1> HIDE DEF y
<1>9. z \in Seq(Cells) /\ Len(z) = 2 + m + n + 3
  <2>1. z \in Seq(Cells) /\ Len(z) = Len(y) + Len(aft)
    BY ONLY <1>1, <1>8, ConcatProperties
  <2> QED  BY <1>3, <1>8, <2>1
<1> HIDE DEF z
<1>10. r = z \o row /\ Len(r) = 2 + m + n + 3 + Len(row)
  <2>1. r = z \o row
    BY <1>1 DEF x, y, z
  <2>2. Len(z \o row) = Len(z) + Len(row)
    BY <1>1, <1>9, ConcatProperties
  <2> QED  BY <1>9, <2>1, <2>2
<1>11. Placed(offset, z) /\ Placed(offset + (2 + m + n + 3), row)
  <2>1. Placed(offset, r)
    BY DEF r
  <2> QED  BY <1>1, <1>9, <1>10, <2>1, PlacedParts
<1>12. Placed(offset, y) /\ Placed(offset + (2 + m + n), aft)
  BY <1>1, <1>8, <1>11, PlacedParts DEF z
<1>13. Placed(offset, x) /\ Placed(offset + (2 + m), ps)
  BY <1>1, <1>7, <1>12, PlacedParts DEF y
<1>14. Placed(offset, fore) /\ Placed(offset + 2, ns)
  BY <1>1, <1>2, <1>13, PlacedParts DEF x
<1> HIDE DEF m, n
<1>15. body[offset + 1] = i.type /\ body[offset + 2] = i.id
  BY <1>2, <1>14 DEF Placed
<1> DEFINE at == offset + 2 + m + n
<1>16. /\ at \in Nat /\ offset + (2 + m + n + 3) = at + 3 /\ offset + (2 + m + n) = at
       /\ offset + (2 + m) = offset + 2 + m
       /\ offset + (2 + m + n + 3 + Len(row)) = at + 3 + Len(row)
  BY <1>5, <1>6
<1> HIDE DEF at
<1>17. body[at + 1] = i.runtime /\ body[at + 2] = i.playback /\ body[at + 3] = Len(i.children)
  <2>1. Placed(at, aft)
    BY <1>12, <1>16
  <2>2. 1 \in 1 .. 3 /\ 2 \in 1 .. 3 /\ 3 \in 1 .. 3
    OBVIOUS
  <2>3. \A k \in 1 .. 3 : body[at + k] = aft[k]
    BY <1>3, <2>1 DEF Placed
  <2> QED  BY <1>3, <2>2, <2>3
<1>18. At(i, offset) = at
  BY <1>4 DEF at
<1> QED  BY <1>5, <1>6, <1>10, <1>11, <1>13, <1>14, <1>15, <1>16, <1>17, <1>18 DEF ns, ps, r, row, m, n

-----------------------------------------------------------------------------
(* Reading                                                                 *)

\* What a call comes to, when it is known what it reads.
RowOf(get, at, n) ==
    CHOOSE f : IsRow(f, n, get, [item |-> NULL, end |-> at + 3])
Got(offset, moved, name, path, at, n, row) ==
    [item |-> [type |-> body[offset + 1], id |-> body[offset + 2],
               name |-> NameIn(name, path, moved),
               path |-> OrNull(PathIn(name, path)),
               runtime |-> body[at + 1], playback |-> body[at + 2],
               children |-> [k \in 1 .. n |-> row[k].item]],
     end |-> row[n].end]

\* A call comes to that.
LEMMA FetchedIs ==
  ASSUME NEW get, NEW offset, NEW moved, NEW name, NEW path, NEW at, NEW n,
         ReadToNull(offset + 2) = name, ReadToNull(offset + 2 + Len(name)) = path,
         at = offset + 2 + Len(name) + Len(path), body[at + 3] = n
  PROVE  Fetched(get, offset, moved) = Got(offset, moved, name, path, at, n, RowOf(get, at, n))
<1>1. Fetched(get, offset, moved)
        = LET nm == ReadToNull(offset + 2)
              pt == ReadToNull(offset + 2 + Len(nm))
              a == offset + 2 + Len(nm) + Len(pt)
          IN  Got(offset, moved, nm, pt, a, body[a + 3], RowOf(get, a, body[a + 3]))
  BY Zenon DEF Fetched, Got, RowOf, IsRow
<1> QED  BY <1>1, Zenon

\* An item as it comes back.
LEMMA AsReadOf ==
  ASSUME NEW i \in Items
  PROVE  AsRead[i] = [type |-> i.type, id |-> i.id, name |-> OrNull(TextOf(i.name)),
                      path |-> OrNull(TextOf(i.path)), runtime |-> i.runtime, playback |-> i.playback,
                      children |-> [k \in 1 .. Len(i.children) |-> AsRead[i.children[k]]]]
<1> DEFINE name == IF i.name = <<>> THEN NULL ELSE i.name
           path == IF i.path = <<>> THEN NULL ELSE i.path
           kids == [k \in DOMAIN i.children |-> AsRead[i.children[k]]]
<1>1. AsRead[i] = [i EXCEPT !.name = name, !.path = path, !.children = kids]
  <2>1. AsRead[i] = Returned(AsRead, i)
    BY AsReadIs
  <2>2. Returned(AsRead, i) = [i EXCEPT !.name = name, !.path = path, !.children = kids]
    BY DEF Returned
  <2> QED  BY <2>1, <2>2
<1>2. i = [type |-> i.type, id |-> i.id, name |-> i.name, path |-> i.path,
           runtime |-> i.runtime, playback |-> i.playback, children |-> i.children]
  BY ItemAssumption
<1>3. name = OrNull(TextOf(i.name)) /\ path = OrNull(TextOf(i.path))
  BY DEF OrNull, TextOf
<1>4. kids = [k \in 1 .. Len(i.children) |-> AsRead[i.children[k]]]
  BY ItemIs
<1> HIDE DEF name, path, kids
<1>5. AsRead[i] = [type |-> i.type, id |-> i.id, name |-> name, path |-> path,
                   runtime |-> i.runtime, playback |-> i.playback, children |-> kids]
  BY <1>1, <1>2
<1> QED  BY <1>3, <1>4, <1>5

\* What reading an item comes to.
Result(i, offset) == [item |-> AsRead[i], end |-> offset + Len(Record[i])]

\* The children are read one after the other, each where it begins.
LEMMA RowIsRead ==
  ASSUME NEW D, body \in Seq(D), NEW i \in Items, NEW at \in Nat, NEW get,
         Placed(at + 3, FlattenSeq(Kids(i))),
         \A k \in 1 .. Len(i.children) : \A o \in Nat :
            Placed(o, Record[i.children[k]]) => get[o] = Result(i.children[k], o)
  PROVE  LET n == Len(i.children)
             row == RowOf(get, at, n)
         IN  /\ row[n].end = at + 3 + Len(FlattenSeq(Kids(i)))
             /\ \A k \in 1 .. n : row[k].item = AsRead[i.children[k]]
<1> DEFINE n == Len(i.children)
           rs == Kids(i)
           p == at + 3
           first == [item |-> NULL, end |-> p]
           row == RowOf(get, at, n)
<1>1. /\ n \in Nat /\ rs \in Seq(Seq(Cells)) /\ Len(rs) = n
      /\ \A k \in 1 .. n : rs[k] = Record[i.children[k]]
  <2>1. \A k \in DOMAIN i.children : Record[i.children[k]] \in Seq(Cells)
    BY ItemIs, RecordsAreCells
  <2>2. rs \in Seq(Seq(Cells)) /\ Len(rs) = n
    BY <2>1, KidsAre
  <2>3. \A k \in 1 .. n : rs[k] = Record[i.children[k]]
    BY ItemIs DEF Kids
  <2> QED  BY <2>2, <2>3, ItemIs
<1>2. PICK ends : Begins(ends, rs, p)
  BY <1>1, RowPlaced
<1>3. row = [k \in 0 .. n |-> IF k = 0 THEN first ELSE get[row[k - 1].end]]
  <2> HIDE DEF n, first
  <2>1. \E f : IsRow(f, n, get, first)
    BY <1>1, RowExists
  <2>2. row = CHOOSE f : IsRow(f, n, get, first)
    BY DEF RowOf, first
  <2> HIDE DEF row
  <2>3. IsRow(row, n, get, first)
    BY <2>1, <2>2
  <2> QED  BY <2>3 DEF IsRow
<1> HIDE DEF n, row, rs, p
<1>4. row[0].end = p
  <2>1. row[0] = first
    BY <1>1, <1>3
  <2> QED  BY <2>1
<1>5. \A k \in 1 .. n : row[k] = get[row[k - 1].end]
  <2> HIDE DEF first
  <2>1. \A k \in 1 .. n : k \in 0 .. n /\ k # 0
    BY <1>1
  <2> QED  BY <1>3, <2>1
<1>6. /\ ends \in [0 .. n -> Nat] /\ ends[0] = p /\ ends[n] = p + Len(FlattenSeq(rs))
      /\ \A k \in 1 .. n : ends[k] = ends[k - 1] + Len(rs[k]) /\ Placed(ends[k - 1], rs[k])
  BY <1>1, <1>2 DEF Begins
<1>7. ASSUME NEW k \in 1 .. n, row[k - 1].end = ends[k - 1]
      PROVE  row[k] = Result(i.children[k], ends[k - 1]) /\ row[k].end = ends[k]
  <2>1. ends[k - 1] \in Nat
    <3>1. k - 1 \in 0 .. n
      BY <1>1
    <3> QED  BY <1>6, <3>1
  <2>2. Placed(ends[k - 1], Record[i.children[k]])
    BY <1>1, <1>6
  <2>3. get[ends[k - 1]] = Result(i.children[k], ends[k - 1])
    BY <2>1, <2>2 DEF n
  <2>4. row[k] = Result(i.children[k], ends[k - 1])
    BY <1>5, <1>7, <2>3
  <2>5. row[k].end = ends[k - 1] + Len(Record[i.children[k]])
    BY <2>4 DEF Result
  <2> QED  BY <1>1, <1>6, <2>4, <2>5
<1> DEFINE Bad == {k \in 0 .. n : row[k].end # ends[k]}
<1>8. Bad = {}
  <2> SUFFICES ASSUME Bad # {} PROVE FALSE
    OBVIOUS
  <2>1. PICK k \in Bad : \A m \in Bad : k <= m
    <3>1. Bad \in SUBSET Nat
      BY <1>1
    <3> HIDE DEF Bad
    <3> QED  BY <3>1, Least
  <2>2. k \in 1 .. n /\ k - 1 \in 0 .. n /\ ~ k <= k - 1
    BY <1>1, <1>4, <1>6
  <2>3. row[k - 1].end = ends[k - 1]
    BY <2>1, <2>2
  <2>4. row[k].end = ends[k]
    BY <1>7, <2>2, <2>3
  <2> QED  BY <2>4
<1>9. \A k \in 1 .. n : row[k].item = AsRead[i.children[k]]
  <2> TAKE k \in 1 .. n
  <2>1. k - 1 \in 0 .. n
    BY <1>1
  <2>2. row[k - 1].end = ends[k - 1]
    BY <1>8, <2>1
  <2>3. row[k] = Result(i.children[k], ends[k - 1])
    BY <1>7, <2>2
  <2> QED  BY <2>3 DEF Result
<1>10. row[n].end = p + Len(FlattenSeq(rs))
  <2>1. n \in 0 .. n
    BY <1>1
  <2> QED  BY <1>6, <1>8, <2>1
<1> QED  BY <1>9, <1>10 DEF n, row, p, rs

\* One call reads an item if the calls for its children read them.
LEMMA FetchedReads ==
  ASSUME NEW D, body \in Seq(D), NEW i \in Items, NEW offset, Placed(offset, Record[i]),
         NEW moved, Fits[i] \/ ~ moved, NEW get,
         \A k \in 1 .. Len(i.children) : \A o \in Nat :
            Placed(o, Record[i.children[k]]) => get[o] = Result(i.children[k], o)
  PROVE  Fetched(get, offset, moved) = Result(i, offset)
<1> DEFINE ns == Bytes(i.name)
           ps == Bytes(i.path)
           at == At(i, offset)
           n == Len(i.children)
           row == RowOf(get, at, n)
           kids == [k \in 1 .. n |-> AsRead[i.children[k]]]
<1>1. /\ at = offset + 2 + Len(ns) + Len(ps) /\ at \in Nat
      /\ body[offset + 1] = i.type /\ body[offset + 2] = i.id
      /\ Placed(offset + 2, ns) /\ Placed(offset + 2 + Len(ns), ps)
      /\ body[at + 1] = i.runtime /\ body[at + 2] = i.playback /\ body[at + 3] = n
      /\ Placed(at + 3, FlattenSeq(Kids(i)))
      /\ offset + Len(Record[i]) = at + 3 + Len(FlattenSeq(Kids(i)))
  <2>1. at = offset + 2 + Len(ns) + Len(ps)
    BY DEF At
  <2> HIDE DEF at
  <2> QED  BY <2>1, RecordParts DEF at
<1>2. IsText(i.name) /\ IsText(i.path)
  BY ItemIs
<1>3. ReadToNull(offset + 2) = ns /\ ReadToNull(offset + 2 + Len(ns)) = ps
  BY <1>1, <1>2, ReadsToNull
<1>4. Fetched(get, offset, moved) = Got(offset, moved, ns, ps, at, n, row)
  <2> HIDE DEF ns, ps, at, n
  <2> QED  BY <1>1, <1>3, FetchedIs
<1>5. row[n].end = at + 3 + Len(FlattenSeq(Kids(i))) /\ \A k \in 1 .. n : row[k].item = AsRead[i.children[k]]
  <2>1. at \in Nat /\ Placed(at + 3, FlattenSeq(Kids(i)))
    BY <1>1
  <2> HIDE DEF at
  <2> QED  BY <2>1, RowIsRead
<1>6. PathIn(ns, ps) = TextOf(i.path) /\ NameIn(ns, ps, moved) = OrNull(TextOf(i.name))
  <2>1. ~ moved \/ ~ Grows(ns, ps) \/ TextOf(i.name) = <<>>
    <3>1. Fits[i] => ~ Grows(ns, ps) \/ i.name \in {NULL, <<>>}
      <4>1. Fits[i] = Fitting(Fits, i)
        BY FitsIs
      <4> QED  BY <4>1, Zenon DEF Fitting
    <3>2. i.name \in {NULL, <<>>} => TextOf(i.name) = <<>>
      BY DEF TextOf
    <3> HIDE DEF ns, ps
    <3> QED  BY <3>1, <3>2
  <2> QED  BY <1>2, <2>1, StringsAreRead
<1>7. AsRead[i] = [type |-> i.type, id |-> i.id, name |-> OrNull(TextOf(i.name)),
                   path |-> OrNull(TextOf(i.path)), runtime |-> i.runtime, playback |-> i.playback,
                   children |-> kids]
  BY AsReadOf
<1>8. [k \in 1 .. n |-> row[k].item] = kids
  <2> HIDE DEF n, row
  <2> QED  BY <1>5
<1> HIDE DEF ns, ps, at, n, row, kids
<1>9. Got(offset, moved, ns, ps, at, n, row) = [item |-> AsRead[i], end |-> row[n].end]
  BY <1>1, <1>6, <1>7, <1>8 DEF Got
<1>10. row[n].end = offset + Len(Record[i])
  BY <1>1, <1>5
<1> QED  BY <1>4, <1>9, <1>10 DEF Result

\* So an item is read, with its children and theirs, in as many calls as it is high and one.
LEMMA ItemIsRead ==
  ASSUME NEW D, body \in Seq(D), NEW moved \in BOOLEAN, NEW h, IsHeight(h)
  PROVE  \A i \in Items : \A calls \in 1 .. MaxNesting + 1, offset \in Nat :
           h[i] < calls /\ Placed(offset, Record[i]) /\ (Fits[i] \/ ~ moved)
             => GetNext[calls][moved][offset] = Result(i, offset)
<1> DEFINE P(i) == \A calls \in 1 .. MaxNesting + 1, offset \in Nat :
                     h[i] < calls /\ Placed(offset, Record[i]) /\ (Fits[i] \/ ~ moved)
                       => GetNext[calls][moved][offset] = Result(i, offset)
           B == {i \in Items : ~ P(i)}
<1> SUFFICES ASSUME B # {} PROVE FALSE
  OBVIOUS
<1>1. PICK i \in B : \A k \in DOMAIN i.children : i.children[k] \notin B
  <2>1. B \in SUBSET Items
    OBVIOUS
  <2> HIDE DEF B
  <2> QED  BY <2>1, LowestItem
<1>2. i \in Items /\ ~ P(i)
  OBVIOUS
<1>3. PICK calls \in 1 .. MaxNesting + 1, offset \in Nat :
        /\ h[i] < calls /\ Placed(offset, Record[i]) /\ (Fits[i] \/ ~ moved)
        /\ GetNext[calls][moved][offset] # Result(i, offset)
  BY <1>2
<1> DEFINE get == GetNext[calls - 1][moved]
<1>4. ASSUME NEW k \in 1 .. Len(i.children), NEW o \in Nat, Placed(o, Record[i.children[k]])
      PROVE  get[o] = Result(i.children[k], o)
  <2> DEFINE c == i.children[k]
  <2>1. k \in DOMAIN i.children /\ c \in Items
    BY ItemIs
  <2>2. P(c)
    BY <1>1, <2>1
  <2>3. h[c] < h[i] /\ h[c] \in Nat /\ h[i] \in Nat
    <3>1. h[c] < h[i]
      BY <1>2, <2>1 DEF IsHeight
    <3>2. h[c] \in 0 .. MaxNesting /\ h[i] \in 0 .. MaxNesting
      <4> HIDE DEF c
      <4> QED  BY <1>2, <2>1 DEF IsHeight
    <3> QED  BY <3>1, <3>2, NestingAssumption
  <2>4. calls - 1 \in 1 .. MaxNesting + 1 /\ h[c] < calls - 1
    <3>1. \A x, y \in Nat : x < y /\ y < calls => calls - 1 \in 1 .. MaxNesting + 1 /\ x < calls - 1
      BY NestingAssumption
    <3> QED  BY <1>3, <2>3, <3>1
  <2>5. Fits[i] => Fits[c]
    <3>1. Fits[i] = Fitting(Fits, i)
      BY FitsIs
    <3> QED  BY <2>1, <3>1, Zenon DEF Fitting
  <2>6. Fits[c] \/ ~ moved
    BY <1>3, <2>5
  <2>7. Placed(o, Record[c])
    BY <1>4
  <2> HIDE DEF c
  <2>8. GetNext[calls - 1][moved][o] = Result(c, o)
    BY <2>2, <2>4, <2>6, <2>7
  <2> QED  BY <2>8 DEF c
<1> HIDE DEF B, P, get
<1>5. Fetched(get, offset, moved) = Result(i, offset)
  BY <1>2, <1>3, <1>4, FetchedReads
<1>6. GetNext[calls][moved][offset] = Fetched(get, offset, moved)
  <2>1. calls \in 0 .. MaxNesting + 1 /\ calls # 0
    BY NestingAssumption
  <2>2. GetNext[calls] = Fetching(GetNext)[calls]
    BY GetNextIs
  <2> DEFINE call(o, m) == IF calls = 0 THEN [item |-> NULL, end |-> o] ELSE Fetched(GetNext[calls - 1][m], o, m)
  <2>3. Fetching(GetNext)[calls] = [m \in BOOLEAN |-> [o \in Nat |-> call(o, m)]]
    BY <2>1 DEF Fetching
  <2>4. call(offset, moved) = Fetched(get, offset, moved)
    BY <2>1 DEF get
  <2> HIDE DEF call
  <2> QED  BY <2>2, <2>3, <2>4
<1> QED  BY <1>3, <1>5, <1>6

-----------------------------------------------------------------------------
(* The invariant                                                           *)

\* As Placed, of any body.
Lies(cells, offset, b) ==
    /\ offset \in Nat /\ offset + Len(cells) <= Len(b)
    /\ \A k \in 1 .. Len(cells) : b[offset + k] = cells[k]

\* At the offset of each position lies the record of the item that was put there.
FilesInv ==
    /\ items \in Seq(Items) /\ header \in Seq(Nat) /\ Len(header) = Len(items)
    /\ body \in Seq(Cells)
    /\ \A n \in 1 .. Len(items) : Lies(Record[items[n]], header[n], body)

\* A record that is written lies behind all that lay there, and moves nothing.
LEMMA BodyGrows ==
  ASSUME FilesInv, NEW item \in Items
  PROVE  LET b == body \o Record[item]
         IN  /\ b \in Seq(Cells) /\ Len(body) \in Nat /\ Lies(Record[item], Len(body), b)
             /\ \A n \in 1 .. Len(items) : Lies(Record[items[n]], header[n], b)
<1> DEFINE r == Record[item]
           b == body \o r
           L == Len(body)
<1>1. r \in Seq(Cells) /\ body \in Seq(Cells)
  BY RecordsAreCells DEF FilesInv
<1>2. b \in Seq(Cells) /\ L \in Nat /\ Len(r) \in Nat /\ Len(b) = L + Len(r)
  <2> HIDE DEF r
  <2> QED  BY <1>1, ConcatProperties, LenProperties
<1>3. \A k \in 1 .. L + Len(r) : b[k] = IF k <= L THEN body[k] ELSE r[k - L]
  <2> HIDE DEF r
  <2> QED  BY <1>1, ConcatProperties
<1>4. Lies(r, L, b)
  <2> HIDE DEF r, b, L
  <2>1. ASSUME NEW k \in 1 .. Len(r) PROVE b[L + k] = r[k]
    <3>1. L + k \in 1 .. L + Len(r) /\ ~ L + k <= L /\ (L + k) - L = k
      BY <1>2
    <3> QED  BY <1>3, <3>1
  <2> QED  BY <1>2, <2>1 DEF Lies
<1>5. ASSUME NEW n \in 1 .. Len(items) PROVE Lies(Record[items[n]], header[n], b)
  <2> DEFINE q == Record[items[n]]
             o == header[n]
  <2>1. Lies(q, o, body)
    BY DEF FilesInv
  <2>2. Len(q) \in Nat
    <3>1. items[n] \in Items
      BY ElementOfSeq DEF FilesInv
    <3> QED  BY <3>1, RecordsAreCells, LenProperties
  <2> HIDE DEF q, o, r, b, L
  <2>3. o \in Nat /\ o + Len(q) <= L
    BY <2>1 DEF Lies, L
  <2>4. ASSUME NEW k \in 1 .. Len(q) PROVE b[o + k] = q[k]
    <3>1. o + k \in 1 .. L + Len(r) /\ o + k <= L
      BY <1>2, <2>2, <2>3
    <3>2. body[o + k] = q[k]
      BY <2>1 DEF Lies
    <3> QED  BY <1>3, <3>1, <3>2
  <2>5. o + Len(q) <= Len(b)
    BY <1>2, <2>2, <2>3
  <2>6. Lies(q, o, b)
    BY <2>3, <2>4, <2>5 DEF Lies
  <2> QED  BY <2>6 DEF q, o
<1> HIDE DEF r, b, L
<1> QED  BY <1>2, <1>4, <1>5 DEF r, b, L

\* A new record gets the offset where the body ended.
LEMMA AddKeepsFiles == ASSUME FilesInv, NEW item \in Items, AddItem(item) PROVE FilesInv'
<1> DEFINE n == Len(items)
<1>1. /\ header' = Append(header, Len(body)) /\ items' = Append(items, item)
      /\ body' = body \o Record[item]
  BY DEF AddItem
<1>2. /\ body' \in Seq(Cells) /\ Len(body) \in Nat /\ Lies(Record[item], Len(body), body')
      /\ \A m \in 1 .. n : Lies(Record[items[m]], header[m], body')
  BY <1>1, BodyGrows
<1>3. /\ n \in Nat /\ header' \in Seq(Nat) /\ items' \in Seq(Items)
      /\ Len(header') = n + 1 /\ Len(items') = n + 1
      /\ header'[n + 1] = Len(body) /\ items'[n + 1] = item
      /\ \A m \in 1 .. n : header'[m] = header[m] /\ items'[m] = items[m]
  <2>1. items \in Seq(Items) /\ header \in Seq(Nat) /\ Len(header) = n
    BY DEF FilesInv
  <2> QED  BY <1>1, <1>2, <2>1, AppendProperties, LenProperties
<1>4. ASSUME NEW m \in 1 .. n + 1 PROVE Lies(Record[items'[m]], header'[m], body')
  <2>1. m \in 1 .. n \/ m = n + 1
    BY <1>3
  <2> QED  BY <1>2, <1>3, <2>1
<1> HIDE DEF n
<1> QED  BY <1>2, <1>3, <1>4 DEF FilesInv

\* So does one in the place of another, whose record stays where it is.
LEMMA ReplaceKeepsFiles ==
  ASSUME FilesInv, NEW n, NEW item \in Items, ReplaceItem(n, item)
  PROVE  FilesInv'
<1> DEFINE l == Len(items)
<1>0. items \in Seq(Items) /\ header \in Seq(Nat) /\ Len(header) = l /\ DOMAIN items = 1 .. l
  BY LenProperties DEF FilesInv
<1>1. /\ header' = [header EXCEPT ![n] = Len(body)] /\ items' = [items EXCEPT ![n] = item]
      /\ body' = body \o Record[item] /\ n \in 1 .. l
  BY <1>0 DEF ReplaceItem
<1>2. /\ body' \in Seq(Cells) /\ Len(body) \in Nat /\ Lies(Record[item], Len(body), body')
      /\ \A m \in 1 .. l : Lies(Record[items[m]], header[m], body')
  BY <1>1, BodyGrows
<1>3. /\ header' \in Seq(Nat) /\ items' \in Seq(Items) /\ Len(header') = l /\ Len(items') = l
      /\ \A m \in 1 .. l : /\ header'[m] = IF m = n THEN Len(body) ELSE header[m]
                           /\ items'[m] = IF m = n THEN item ELSE items[m]
  BY <1>0, <1>1, <1>2, ExceptSeq
<1>4. ASSUME NEW m \in 1 .. l PROVE Lies(Record[items'[m]], header'[m], body')
  BY <1>2, <1>3
<1> HIDE DEF l
<1> QED  BY <1>2, <1>3, <1>4 DEF FilesInv

\* One element of a sequence is replaced.
LEMMA PutAt ==
  ASSUME NEW S, NEW q \in Seq(S), NEW n, n = Len(q), NEW a \in 1 .. n, NEW x \in S
  PROVE  LET r == [q EXCEPT ![a] = x]
         IN  r \in Seq(S) /\ Len(r) = n /\ \A m \in 1 .. n : r[m] = IF m = a THEN x ELSE q[m]
BY ExceptSeq

\* Two positions exchange their offsets as well as their items.
LEMMA SwapKeepsFiles == ASSUME FilesInv, NEW a, NEW b, SwapItems(a, b) PROVE FilesInv'
<1> DEFINE l == Len(items)
<1>0. items \in Seq(Items) /\ header \in Seq(Nat) /\ Len(header) = l /\ DOMAIN items = 1 .. l
  BY LenProperties DEF FilesInv
<1>1. /\ header' = [header EXCEPT ![b] = header[a], ![a] = header[b]]
      /\ items' = [items EXCEPT ![b] = items[a], ![a] = items[b]]
      /\ body' = body /\ a \in 1 .. l /\ b \in 1 .. l
  BY <1>0 DEF SwapItems
<1>2. /\ header[a] \in Nat /\ header[b] \in Nat /\ items[a] \in Items /\ items[b] \in Items
  BY <1>0, <1>1, ElementOfSeq
<1>3. /\ header' \in Seq(Nat) /\ items' \in Seq(Items) /\ Len(header') = l /\ Len(items') = l
      /\ \A m \in 1 .. l :
           /\ header'[m] = IF m = a THEN header[b] ELSE IF m = b THEN header[a] ELSE header[m]
           /\ items'[m] = IF m = a THEN items[b] ELSE IF m = b THEN items[a] ELSE items[m]
  <2> DEFINE hh == [header EXCEPT ![b] = header[a]]
             ii == [items EXCEPT ![b] = items[a]]
  <2>1. /\ hh \in Seq(Nat) /\ Len(hh) = l /\ ii \in Seq(Items) /\ Len(ii) = l
        /\ \A m \in 1 .. l : hh[m] = (IF m = b THEN header[a] ELSE header[m])
                             /\ ii[m] = (IF m = b THEN items[a] ELSE items[m])
    BY <1>0, <1>1, <1>2, ExceptSeq
  <2>2. header' = [hh EXCEPT ![a] = header[b]] /\ items' = [ii EXCEPT ![a] = items[b]]
    BY <1>1
  <2> HIDE DEF hh, ii
  <2> DEFINE x == header[b]
             y == items[b]
  <2>3. /\ hh \in Seq(Nat) /\ ii \in Seq(Items) /\ l = Len(hh) /\ l = Len(ii)
        /\ a \in 1 .. l /\ x \in Nat /\ y \in Items
    BY <1>1, <1>2, <2>1
  <2>4. header' = [hh EXCEPT ![a] = x] /\ items' = [ii EXCEPT ![a] = y]
    BY <2>2
  <2>5. /\ header' \in Seq(Nat) /\ Len(header') = l
        /\ \A m \in 1 .. l : header'[m] = IF m = a THEN x ELSE hh[m]
    <3> DEFINE T == Nat
    <3>1. hh \in Seq(T) /\ x \in T /\ l = Len(hh) /\ a \in 1 .. l
      BY <2>3
    <3>2. header' = [hh EXCEPT ![a] = x]
      BY <2>4
    <3> HIDE DEF l, x, T
    <3>3. header' \in Seq(T) /\ Len(header') = l /\ \A m \in 1 .. l : header'[m] = IF m = a THEN x ELSE hh[m]
      BY ONLY <3>1, <3>2, PutAt
    <3> QED  BY ONLY <3>3 DEF T
  <2>6. /\ items' \in Seq(Items) /\ Len(items') = l
        /\ \A m \in 1 .. l : items'[m] = IF m = a THEN y ELSE ii[m]
    <3> HIDE DEF l, x, y
    <3> QED  BY ONLY <2>3, <2>4, PutAt
  <2> HIDE DEF l
  <2> QED  BY ONLY <2>1, <2>5, <2>6 DEF x, y
<1>4. \A m \in 1 .. l : Lies(Record[items'[m]], header'[m], body')
  <2>1. \A m \in 1 .. l : Lies(Record[items[m]], header[m], body)
    BY DEF FilesInv
  <2> QED  BY <1>1, <1>3, <2>1
<1> HIDE DEF l
<1> QED  BY <1>1, <1>3, <1>4 DEF FilesInv

\* No positions yet.
LEMMA FilesInit == RInit => FilesInv
<1> SUFFICES ASSUME RInit PROVE FilesInv
  OBVIOUS
<1>1. header = <<>> /\ body = <<>> /\ items = <<>>
  BY DEF RInit
<1>2. Len(items) = 0 /\ Len(header) = 0 /\ 1 .. 0 = {}
  BY <1>1
<1> QED  BY <1>1, <1>2, EmptySeq DEF FilesInv

\* No step disturbs the invariant: printing a name changes no file.
LEMMA FilesNext == FilesInv /\ [RNext]_rvars => FilesInv'
<1> SUFFICES ASSUME FilesInv, [RNext]_rvars PROVE FilesInv'
  OBVIOUS
<1>1. CASE UNCHANGED files
  BY <1>1 DEF files, FilesInv
<1>2. ASSUME Refresh PROVE FilesInv'
  <2>1. header' = <<>> /\ body' = <<>> /\ items' = <<>>
    BY <1>2 DEF Refresh
  <2>2. Len(items') = 0 /\ Len(header') = 0 /\ 1 .. 0 = {}
    BY <2>1
  <2> QED  BY <2>1, <2>2, EmptySeq DEF FilesInv
<1>3. \A item \in Listed : item \in Items
  BY DEF Listed
<1>4. \/ UNCHANGED files
      \/ \E item \in Listed : AddItem(item)
      \/ \E n \in 1 .. MaxRecords, item \in Listed : ReplaceItem(n, item)
      \/ \E a, b \in 1 .. MaxRecords : SwapItems(a, b)
      \/ Refresh
  <2>1. UNCHANGED rvars => UNCHANGED files
    BY DEF rvars
  <2>2. \A n : PrintItem(n) => UNCHANGED files
    BY DEF PrintItem
  <2> QED  BY <2>1, <2>2, Zenon DEF RNext
<1> QED  BY <1>1, <1>2, <1>3, <1>4, AddKeepsFiles, ReplaceKeepsFiles, SwapKeepsFiles

\* What the invariant is for.
LEMMA FilesRead == FilesInv => ReadsBack
<1> SUFFICES ASSUME FilesInv, NEW n \in DOMAIN items
             PROVE  /\ GetType(n) = items[n].type
                    /\ \A moved \in BOOLEAN :
                         Fits[items[n]] \/ ~ moved => GetItem(n, moved) = AsRead[items[n]]
  BY DEF ReadsBack
<1> DEFINE i == items[n]
           o == header[n]
<1>1. n \in 1 .. Len(items) /\ i \in Items /\ body \in Seq(Cells)
  BY LenProperties, ElementOfSeq DEF FilesInv
<1>2. Placed(o, Record[i])
  BY <1>1 DEF FilesInv, Lies, Placed
<1> HIDE DEF i, o
<1>3. o \in Nat /\ body[o + 1] = i.type
  BY <1>1, <1>2, RecordParts
<1>4. ASSUME NEW moved \in BOOLEAN, Fits[i] \/ ~ moved
      PROVE  GetItem(n, moved) = AsRead[i]
  <2>1. PICK h : IsHeight(h)
    BY NestingAssumption DEF IsHeight
  <2> DEFINE calls == MaxNesting + 1
  <2>2. calls \in 1 .. MaxNesting + 1 /\ h[i] < calls
    <3>1. h[i] \in 0 .. MaxNesting
      BY <1>1, <2>1 DEF IsHeight
    <3> QED  BY <3>1, NestingAssumption
  <2> HIDE DEF calls
  <2>3. GetNext[calls][moved][o] = Result(i, o)
    BY <1>1, <1>2, <1>3, <1>4, <2>1, <2>2, ItemIsRead
  <2> QED  BY <2>3 DEF GetItem, Result, calls, o
<1> QED  BY <1>3, <1>4 DEF GetType, i, o

\* Every position of the cache reads back as the item that was put there last, for every
\* set of items, however deep their children, and however many records are written, put in
\* the place of others or swapped.
THEOREM AlwaysReadBack == RSpec => []ReadsBack
<1> QED  BY FilesInit, FilesNext, FilesRead, PTL DEF RSpec

-----------------------------------------------------------------------------
(* Names                                                                   *)

\* The buffer of names is one.
NamesInv == IsBuffer(s_buffer) /\ s_buffer.used <= s_buffer.size

\* Emptied, a buffer remains one.
LEMMA EmptiedIs ==
  ASSUME NEW b, IsBuffer(b), b.used <= b.size
  PROVE  IsBuffer(Emptied(b)) /\ Emptied(b).used = 0 /\ Emptied(b).used <= Emptied(b).size
<1> DEFINE block == [k \in 1 .. b.size |-> b.buf[k]]
           size == b.size
<1>1. b = [buf |-> block, size |-> size, used |-> b.used] /\ size \in Nat \ {0}
  BY DEF IsBuffer
<1> HIDE DEF block, size
<1>2. Emptied(b) = [buf |-> block, size |-> size, used |-> 0]
  BY <1>1 DEF Emptied
<1> DEFINE e == Emptied(b)
<1> HIDE DEF e
<1>3. e = [buf |-> block, size |-> size, used |-> 0]
  BY <1>2 DEF e
<1>4. e.buf = block /\ e.size = size /\ e.used = 0
  BY <1>3
<1>5. block = [k \in 1 .. size |-> block[k]]
  BY DEF block, size
<1>6. e = [buf |-> [k \in 1 .. e.size |-> e.buf[k]], size |-> e.size, used |-> e.used]
  <2>1. e.buf = [k \in 1 .. e.size |-> e.buf[k]]
    BY <1>4, <1>5
  <2> QED  BY <1>3, <1>4, <2>1
<1>7. e.size \in Nat \ {0} /\ e.used \in Nat /\ e.used <= e.size
  BY <1>1, <1>4
<1> QED  BY <1>4, <1>6, <1>7 DEF IsBuffer, e

\* A name is read whole into that buffer, whatever was in it.
LEMMA NameIsRead ==
  ASSUME FilesInv, NamesInv, NEW n \in DOMAIN items
  PROVE  /\ IsBuffer(NameRead(n)) /\ NameRead(n).used <= NameRead(n).size
         /\ StringAt(NameRead(n), 0) = NameOf(items[n])
         /\ NameOf(items[n]) \in Seq(Chars)
<1> DEFINE i == items[n]
           o == header[n]
           bs == Bytes(i.name)
           e == Emptied(s_buffer)
           r == AppendedBytes(e, bs)
<1>1. n \in 1 .. Len(items) /\ i \in Items /\ body \in Seq(Cells)
  BY LenProperties, ElementOfSeq DEF FilesInv
<1>2. Placed(o, Record[i])
  BY <1>1 DEF FilesInv, Lies, Placed
<1>3. IsText(i.name)
  BY <1>1, ItemIs
<1>4. Placed(o + 2, bs)
  <2> HIDE DEF i, o
  <2> QED  BY <1>1, <1>2, RecordParts
<1>5. ReadToNull(o + 2) = bs
  <2> HIDE DEF o, i
  <2> QED  BY <1>1, <1>3, <1>4, ReadsToNull
<1>6. NameRead(n) = r
  BY <1>5 DEF NameRead
<1>7. bs \in Seq(Chars) /\ Len(bs) \in Nat /\ DOMAIN bs = 1 .. Len(bs)
  <2> HIDE DEF i
  <2> QED  BY <1>3, BytesAre, LenProperties
<1>8. IsBuffer(e) /\ e.used = 0 /\ e.used <= e.size
  BY EmptiedIs DEF NamesInv
<1>9. Behind(r, e, bs, Len(bs))
  <2> HIDE DEF e, bs
  <2> QED  BY <1>7, <1>8, AppendsAll
<1>10. /\ IsBuffer(r) /\ r.used = Len(bs) /\ r.used <= r.size
       /\ \A k \in 1 .. Len(bs) : r.buf[0 + k] = bs[k]
  <2> HIDE DEF e, bs, r
  <2> QED  BY <1>7, <1>8, <1>9 DEF Behind
<1>11. StringAt(r, 0) = TextOf(i.name)
  <2> HIDE DEF r, i
  <2> QED  BY <1>3, <1>7, <1>10, StringIn
<1>12. TextOf(i.name) = NameOf(i) /\ TextOf(i.name) \in Seq(Chars)
  <2> HIDE DEF i
  <2> QED  BY <1>3, BytesAre DEF TextOf, NameOf
<1> QED  BY <1>6, <1>10, <1>11, <1>12

\* So the text gets the name that the item has.
LEMMA PrintKeepsInv ==
  ASSUME IInv, FilesInv, NamesInv, NEW n, PrintItem(n)
  PROVE  IInv' /\ NamesInv'
<1> DEFINE s == NameOf(items[n])
<1>1. n \in DOMAIN items /\ s_buffer' = NameRead(n) /\ text' = text \o s /\ closed' = TRUE
      /\ buffer' = Printed(buffer, StringAt(s_buffer', 0))
  BY DEF PrintItem
<1>2. /\ IsBuffer(s_buffer') /\ s_buffer'.used <= s_buffer'.size
      /\ StringAt(s_buffer', 0) = s /\ s \in Seq(Chars)
  BY <1>1, NameIsRead
<1>3. buffer' = Printed(buffer, s)
  BY <1>1, <1>2
<1>4. IInv'
  <2> HIDE DEF s
  <2> QED  BY <1>1, <1>2, <1>3, PrintedKeepsInv
<1> QED  BY <1>2, <1>4 DEF NamesInv

\* Both buffers are empty at first.
LEMMA NamesInit == RInit => IInv /\ NamesInv
<1> SUFFICES ASSUME RInit PROVE IInv /\ NamesInv
  OBVIOUS
<1>1. NameSize \in Nat
  BY BufferAssumption
<1> QED  BY <1>1, InitInv, NewIsEmpty DEF RInit, NamesInv

\* No step disturbs any of it.
LEMMA NamesNext ==
  Terminated /\ IInv /\ FilesInv /\ NamesInv /\ [RNext]_rvars => IInv' /\ NamesInv'
<1> SUFFICES ASSUME Terminated, IInv, FilesInv, NamesInv, [RNext]_rvars PROVE IInv' /\ NamesInv'
  OBVIOUS
<1>1. CASE UNCHANGED <<vars, s_buffer>>
  BY <1>1 DEF vars, IInv, TextKept, IsBuffer, NamesInv
<1>2. CASE UNCHANGED s_buffer /\ (Empty \/ Close \/ \E s \in Texts, rest \in Rests : Add(s, rest))
  <2>1. IInv'
    BY <1>2, AddKeepsInv, CloseKeepsInv, EmptyKeepsInv
  <2>2. NamesInv'
    BY <1>2 DEF NamesInv, IsBuffer
  <2> QED  BY <2>1, <2>2
<1>3. CASE \E n \in 1 .. MaxRecords : PrintItem(n)
  BY <1>3, PrintKeepsInv
<1>4. \/ UNCHANGED <<vars, s_buffer>>
      \/ UNCHANGED s_buffer /\ (Empty \/ Close \/ \E s \in Texts, rest \in Rests : Add(s, rest))
      \/ \E n \in 1 .. MaxRecords : PrintItem(n)
  <2>1. UNCHANGED rvars => UNCHANGED <<vars, s_buffer>>
    BY DEF rvars
  <2>2. \A item : AddItem(item) => UNCHANGED <<vars, s_buffer>>
    BY DEF AddItem
  <2>3. \A n, item : ReplaceItem(n, item) => UNCHANGED <<vars, s_buffer>>
    BY DEF ReplaceItem
  <2>4. \A a, b : SwapItems(a, b) => UNCHANGED <<vars, s_buffer>>
    BY DEF SwapItems
  <2>5. Refresh => UNCHANGED <<vars, s_buffer>>
    BY DEF Refresh
  <2>6. UNCHANGED <<files, s_buffer>> => UNCHANGED s_buffer
    OBVIOUS
  <2> QED  BY <2>1, <2>2, <2>3, <2>4, <2>5, <2>6, Zenon DEF RNext
<1> QED  BY <1>1, <1>2, <1>3, <1>4

\* Nor does it where names of items are read and formatted into the text: each is the whole
\* name and no more, whatever name was in the buffer before it.
THEOREM NamesKeptWhole == Terminated => (RSpec => []TextKept)
<1> SUFFICES ASSUME Terminated PROVE RSpec => []TextKept
  OBVIOUS
<1> DEFINE Inv == IInv /\ FilesInv /\ NamesInv
<1>1. RInit => Inv
  BY FilesInit, NamesInit
<1>2. Inv /\ [RNext]_rvars => Inv'
  BY FilesNext, NamesNext
<1>3. Inv => TextKept
  BY DEF IInv
<1> QED  BY <1>1, <1>2, <1>3, PTL DEF RSpec
=============================================================================
