--------------------------- MODULE SaxParserProofs ---------------------------
(***************************************************************************)
(* Theorems about DiskCache and SaxParser for every set of items and every *)
(* bound. First the caches: the offsets stay valid, no record is shared,   *)
(* and the two files implement the plain lists of ItemLists. Then the      *)
(* parser: it is always where the document is, knows of the item at hand   *)
(* what that has said, and leaves in the payload what was answered.        *)
(***************************************************************************)
EXTENDS SaxParser, SequenceTheorems, TLAPS

USE ItemAssumption, BoundAssumption DEF Caches

IInv == TypeOK /\ OwnRecord

-----------------------------------------------------------------------------
\* Appending a record leaves the ones before it where they were.
LEMMA AppendRecord ==
  ASSUME NEW s \in Seq(Items), NEW entry \in Items
  PROVE  /\ Append(s, entry) \in Seq(Items)
         /\ Len(s) \in Nat
         /\ Len(Append(s, entry)) = Len(s) + 1
         /\ \A i \in 1 .. Len(s) : Append(s, entry)[i] = s[i]
         /\ Append(s, entry)[Len(s) + 1] = entry
  BY AppendProperties, LenProperties

\* Adding the offset of a new record to a header.
LEMMA AppendOffset ==
  ASSUME NEW s \in Seq(Nat), NEW off \in Nat
  PROVE  /\ Append(s, off) \in Seq(Nat)
         /\ Len(s) \in Nat
         /\ Len(Append(s, off)) = Len(s) + 1
         /\ \A i \in 1 .. Len(s) : Append(s, off)[i] = s[i]
         /\ Append(s, off)[Len(s) + 1] = off
  BY AppendProperties, LenProperties

\* Overwriting a header entry.
LEMMA OverwriteOffset ==
  ASSUME NEW s \in Seq(Nat), NEW n \in 1 .. Len(s), NEW off \in Nat
  PROVE  /\ [s EXCEPT ![n] = off] \in Seq(Nat)
         /\ Len([s EXCEPT ![n] = off]) = Len(s)
         /\ \A i \in 1 .. Len(s) : [s EXCEPT ![n] = off][i] = IF i = n THEN off ELSE s[i]
  BY ExceptSeq

\* A header h of k offsets into L records, with the offset of a new record L + 1
\* put at the end, or at one of its positions: offsets stay valid and distinct.
LEMMA NewOffsetAtEnd ==
  ASSUME NEW k \in Nat, NEW L \in Nat, NEW h, NEW g,
         \A i \in 1 .. k : h[i] \in 1 .. L /\ g[i] = h[i],
         g[k + 1] = L + 1
  PROVE  /\ \A i \in 1 .. k + 1 : g[i] \in 1 .. L + 1
         /\ (\A i, j \in 1 .. k : h[i] = h[j] => i = j)
            => (\A i, j \in 1 .. k + 1 : g[i] = g[j] => i = j)
<1>1. \A i \in 1 .. k + 1 : i = k + 1 \/ i \in 1 .. k
  OBVIOUS
<1>2. \A i \in 1 .. k : g[i] # L + 1 /\ g[i] \in 1 .. L + 1
  OBVIOUS
<1>3. L + 1 \in 1 .. L + 1
  OBVIOUS
<1> QED  BY <1>1, <1>2, <1>3

\* The same for an entry that is overwritten.
LEMMA NewOffsetAt ==
  ASSUME NEW k \in Nat, NEW L \in Nat, NEW h, NEW g, NEW n \in 1 .. k,
         \A i \in 1 .. k : h[i] \in 1 .. L /\ g[i] = IF i = n THEN L + 1 ELSE h[i]
  PROVE  /\ \A i \in 1 .. k : g[i] \in 1 .. L + 1
         /\ (\A i, j \in 1 .. k : h[i] = h[j] => i = j)
            => (\A i, j \in 1 .. k : g[i] = g[j] => i = j)
<1>1. \A i \in 1 .. k : i # n => g[i] # L + 1 /\ g[i] \in 1 .. L + 1
  OBVIOUS
<1>2. L + 1 \in 1 .. L + 1
  OBVIOUS
<1> QED  BY <1>1, <1>2

\* Both caches start empty.
LEMMA InitInv == Init => IInv
<1> SUFFICES ASSUME Init PROVE IInv
  OBVIOUS
<1>1. <<>> \in Seq(Items) /\ <<>> \in Seq(Nat) /\ Len(<<>>) = 0
  BY EmptySeq
<1>2. TypeOK
  BY <1>1 DEF Init, Empty, TypeOK
<1>3. OwnRecord
  BY DEF Init, OwnRecord
<1> QED  BY <1>2, <1>3 DEF IInv

-----------------------------------------------------------------------------
(***************************************************************************)
(* What each operation does to the files, cache by cache.                  *)
(***************************************************************************)

\* The effect of an addition.
Added(c, entry) ==
    /\ header'[c] \in Seq(Nat)
    /\ body'[c] \in Seq(Items)
    /\ count'[c] = count[c] + 1
    /\ count[c] \in Nat /\ Len(body[c]) \in Nat
    /\ Len(header'[c]) = count[c] + 1
    /\ Len(body'[c]) = Len(body[c]) + 1
    /\ \A n \in 1 .. count[c] : header'[c][n] = header[c][n]
    /\ header'[c][count[c] + 1] = Len(body[c]) + 1
    /\ \A i \in 1 .. Len(body[c]) : body'[c][i] = body[c][i]
    /\ body'[c][Len(body[c]) + 1] = entry
    /\ \A d \in Caches : d # c => header'[d] = header[d] /\ body'[d] = body[d] /\ count'[d] = count[d]
    /\ count' \in [Caches -> Nat] /\ DOMAIN header' = Caches /\ DOMAIN body' = Caches

\* Every entry of cache c's new header is valid, and the entries are distinct.
NewHeaderOK(c) ==
    /\ \A i \in 1 .. count'[c] : header'[c][i] \in 1 .. Len(body'[c])
    /\ \A i, j \in 1 .. count'[c] : header'[c][i] = header'[c][j] => i = j

\* An addition, cache by cache.
LEMMA AddFacts ==
  ASSUME IInv, NEW c \in Caches, NEW entry \in Items, AddItem(c, entry)
  PROVE  Added(c, entry)
<1>1. header[c] \in Seq(Nat) /\ body[c] \in Seq(Items) /\ count[c] \in Nat /\ Len(header[c]) = count[c]
  BY DEF IInv, TypeOK
<1>2. header' = [header EXCEPT ![c] = Append(header[c], Len(body[c]) + 1)]
      /\ body' = [body EXCEPT ![c] = Append(body[c], entry)]
      /\ count' = [count EXCEPT ![c] = count[c] + 1]
  BY DEF AddItem
<1>3. header'[c] = Append(header[c], Len(body[c]) + 1) /\ body'[c] = Append(body[c], entry)
  BY SMTT(30), <1>2 DEF IInv, TypeOK
<1>4. /\ Append(body[c], entry) \in Seq(Items)
      /\ Len(body[c]) \in Nat
      /\ Len(Append(body[c], entry)) = Len(body[c]) + 1
      /\ \A i \in 1 .. Len(body[c]) : Append(body[c], entry)[i] = body[c][i]
      /\ Append(body[c], entry)[Len(body[c]) + 1] = entry
  BY <1>1, AppendRecord
<1>5. Len(body[c]) + 1 \in Nat
  BY <1>4
<1>6. \A off \in Nat :
        /\ Append(header[c], off) \in Seq(Nat)
        /\ Len(Append(header[c], off)) = Len(header[c]) + 1
        /\ \A i \in 1 .. Len(header[c]) : Append(header[c], off)[i] = header[c][i]
        /\ Append(header[c], off)[Len(header[c]) + 1] = off
  BY <1>1, AppendOffset
<1> QED  BY SMTT(30), <1>1, <1>2, <1>3, <1>4, <1>5, <1>6 DEF IInv, TypeOK, Added

\* The new record's offset is past all others, so no entry shares it.
LEMMA AddKeepsHeader ==
  ASSUME IInv, NEW c \in Caches, NEW entry, Added(c, entry)
  PROVE  NewHeaderOK(c)
<1> DEFINE k == count[c]
           L == Len(body[c])
           h == header[c]
           g == header'[c]
<1>1. k \in Nat /\ L \in Nat /\ g[k + 1] = L + 1 /\ count'[c] = k + 1 /\ Len(body'[c]) = L + 1
  BY DEF Added
<1>2. \A i \in 1 .. k : h[i] \in 1 .. L /\ g[i] = h[i]
  BY DEF Added, IInv, TypeOK
<1>3. \A i, j \in 1 .. k : h[i] = h[j] => i = j
  BY DEF IInv, OwnRecord
<1> SUFFICES /\ \A i \in 1 .. k + 1 : g[i] \in 1 .. L + 1
             /\ \A i, j \in 1 .. k + 1 : g[i] = g[j] => i = j
  BY <1>1 DEF NewHeaderOK
<1> HIDE DEF k, L, h, g
<1>4. \A i \in 1 .. k + 1 : g[i] \in 1 .. L + 1
  BY <1>1, <1>2, NewOffsetAtEnd
<1>5. (\A i, j \in 1 .. k : h[i] = h[j] => i = j)
      => (\A i, j \in 1 .. k + 1 : g[i] = g[j] => i = j)
  BY SMTT(30), <1>1, <1>2, NewOffsetAtEnd
<1> QED  BY <1>3, <1>4, <1>5, Zenon

\* The effect of a replacement.
Replaced(n, entry) ==
    LET c == "playlist" IN
    /\ n \in 1 .. count[c]
    /\ header'[c] \in Seq(Nat)
    /\ body'[c] \in Seq(Items)
    /\ count' = count
    /\ count[c] \in Nat /\ Len(body[c]) \in Nat
    /\ Len(header'[c]) = count[c]
    /\ Len(body'[c]) = Len(body[c]) + 1
    /\ \A m \in 1 .. count[c] : header'[c][m] = IF m = n THEN Len(body[c]) + 1 ELSE header[c][m]
    /\ \A i \in 1 .. Len(body[c]) : body'[c][i] = body[c][i]
    /\ body'[c][Len(body[c]) + 1] = entry
    /\ \A d \in Caches : d # c => header'[d] = header[d] /\ body'[d] = body[d]
    /\ DOMAIN header' = Caches /\ DOMAIN body' = Caches

\* A replacement, cache by cache.
LEMMA ReplaceFacts ==
  ASSUME IInv, NEW n \in 1 .. MaxRecords, NEW entry \in Items, ReplaceItem(n, entry)
  PROVE  Replaced(n, entry)
<1> DEFINE c == "playlist"
<1>1. header[c] \in Seq(Nat) /\ body[c] \in Seq(Items) /\ count[c] \in Nat /\ Len(header[c]) = count[c]
  BY DEF IInv, TypeOK
<1>2. header' = [header EXCEPT ![c] = [header[c] EXCEPT ![n] = Len(body[c]) + 1]]
      /\ body' = [body EXCEPT ![c] = Append(body[c], entry)]
      /\ count' = count /\ n \in 1 .. count[c]
  BY DEF ReplaceItem, IInv, TypeOK
<1>3. header'[c] = [header[c] EXCEPT ![n] = Len(body[c]) + 1] /\ body'[c] = Append(body[c], entry)
  BY SMTT(30), <1>2 DEF IInv, TypeOK
<1>4. /\ Append(body[c], entry) \in Seq(Items)
      /\ Len(body[c]) \in Nat
      /\ Len(Append(body[c], entry)) = Len(body[c]) + 1
      /\ \A i \in 1 .. Len(body[c]) : Append(body[c], entry)[i] = body[c][i]
      /\ Append(body[c], entry)[Len(body[c]) + 1] = entry
  BY <1>1, AppendRecord
<1>5. Len(body[c]) + 1 \in Nat /\ n \in 1 .. Len(header[c])
  BY <1>1, <1>2, <1>4
<1>6. \A off \in Nat :
        /\ [header[c] EXCEPT ![n] = off] \in Seq(Nat)
        /\ Len([header[c] EXCEPT ![n] = off]) = Len(header[c])
        /\ \A i \in 1 .. Len(header[c]) : [header[c] EXCEPT ![n] = off][i] = IF i = n THEN off ELSE header[c][i]
  BY <1>1, <1>5, OverwriteOffset
<1> QED  BY SMTT(30), <1>1, <1>2, <1>3, <1>4, <1>5, <1>6 DEF IInv, TypeOK, Replaced

\* So is the offset of the record that replaces another.
LEMMA ReplaceKeepsHeader ==
  ASSUME IInv, NEW n, NEW entry, Replaced(n, entry)
  PROVE  NewHeaderOK("playlist")
<1> DEFINE c == "playlist"
           k == count[c]
           L == Len(body[c])
           h == header[c]
           g == header'[c]
<1>1. k \in Nat /\ L \in Nat /\ n \in 1 .. k /\ count'[c] = k /\ Len(body'[c]) = L + 1
  BY DEF Replaced
<1>2. \A i \in 1 .. k : h[i] \in 1 .. L /\ g[i] = IF i = n THEN L + 1 ELSE h[i]
  BY DEF Replaced, IInv, TypeOK
<1>3. \A i, j \in 1 .. k : h[i] = h[j] => i = j
  BY DEF IInv, OwnRecord
<1> SUFFICES /\ \A i \in 1 .. k : g[i] \in 1 .. L + 1
             /\ \A i, j \in 1 .. k : g[i] = g[j] => i = j
  BY <1>1 DEF NewHeaderOK
<1> HIDE DEF k, L, h, g
<1> QED  BY <1>1, <1>2, <1>3, NewOffsetAt

\* The effect of a swap that does not return early.
Swapped(a, b) ==
    LET c == "playlist" IN
    /\ a \in 1 .. count[c] /\ b \in 1 .. count[c]
    /\ header'[c] \in Seq(Nat)
    /\ body' = body /\ count' = count /\ count[c] \in Nat
    /\ Len(header'[c]) = count[c]
    /\ \A m \in 1 .. count[c] : header'[c][m] =
          IF m = a THEN header[c][b] ELSE IF m = b THEN header[c][a] ELSE header[c][m]
    /\ \A d \in Caches : d # c => header'[d] = header[d]
    /\ DOMAIN header' = Caches

\* A swap that does not return early.
LEMMA SwapFacts ==
  ASSUME IInv, NEW a \in 1 .. MaxRecords, NEW b \in 1 .. MaxRecords, SwapItems(a, b),
         ~ (a > count["playlist"] \/ b > count["playlist"] \/ a = b)
  PROVE  Swapped(a, b)
<1> DEFINE c == "playlist"
<1>1. header[c] \in Seq(Nat) /\ count[c] \in Nat /\ Len(header[c]) = count[c]
      /\ \A n \in 1 .. count[c] : header[c][n] \in Nat
  BY DEF IInv, TypeOK
<1>2. a \in 1 .. Len(header[c]) /\ b \in 1 .. Len(header[c])
  BY <1>1
<1> DEFINE h == [header[c] EXCEPT ![b] = header[c][a]]
           k == [h EXCEPT ![a] = header[c][b]]
<1>3. header' = [header EXCEPT ![c] = k] /\ body' = body /\ count' = count
  BY DEF SwapItems, IInv, TypeOK
<1>4. header'[c] = k /\ DOMAIN header' = Caches /\ \A d \in Caches : d # c => header'[d] = header[d]
  BY <1>3 DEF IInv, TypeOK
<1>5. /\ h \in Seq(Nat) /\ Len(h) = Len(header[c])
      /\ \A i \in 1 .. Len(header[c]) : h[i] = IF i = b THEN header[c][a] ELSE header[c][i]
  BY <1>1, <1>2, OverwriteOffset
<1> HIDE DEF h
<1>6. /\ k \in Seq(Nat) /\ Len(k) = Len(h)
      /\ \A i \in 1 .. Len(h) : k[i] = IF i = a THEN header[c][b] ELSE h[i]
  BY SMTT(30), <1>1, <1>2, <1>5, OverwriteOffset
<1> HIDE DEF k
<1> QED  BY SMTT(30), <1>1, <1>2, <1>3, <1>4, <1>5, <1>6 DEF Swapped

-----------------------------------------------------------------------------
(***************************************************************************)
(* The invariant is inductive.                                             *)
(***************************************************************************)

\* Every operation keeps the types and shares no record.
LEMMA NextInv == IInv /\ [Next]_vars => IInv'
<1> SUFFICES ASSUME IInv, [Next]_vars PROVE IInv'
  OBVIOUS
<1>1. ASSUME NEW c \in Caches, NEW entry \in Items, AddItem(c, entry) PROVE IInv'
  <2> USE DEF Added
  <2>0. Added(c, entry)
    BY <1>1, AddFacts
  <2>a. NewHeaderOK(c)
    BY <2>0, AddKeepsHeader
  <2>1. TypeOK'
    <3>1. ASSUME NEW d \in Caches
          PROVE  /\ header'[d] \in Seq(Nat) /\ body'[d] \in Seq(Items)
                 /\ Len(header'[d]) = count'[d]
                 /\ \A n \in 1 .. count'[d] : header'[d][n] \in 1 .. Len(body'[d])
      <4>1. CASE d = c
        BY <2>0, <2>a, <4>1 DEF NewHeaderOK
      <4>2. CASE d # c
        BY SMTT(30), <2>0, <4>2 DEF IInv, TypeOK
      <4> QED  BY <4>1, <4>2
    <3>2. header' = [d \in Caches |-> header'[d]] /\ body' = [d \in Caches |-> body'[d]]
      BY <1>1 DEF AddItem, IInv, TypeOK
    <3> QED  BY <2>0, <3>1, <3>2 DEF TypeOK
  <2>2. OwnRecord'
    <3> SUFFICES ASSUME NEW d \in Caches, NEW m \in 1 .. count'[d], NEW n \in 1 .. count'[d],
                        header'[d][m] = header'[d][n]
                 PROVE  m = n
      BY DEF OwnRecord
    <3>1. CASE d = c
      BY <2>a, <3>1 DEF NewHeaderOK
    <3>2. CASE d # c
      BY <2>0, <3>2 DEF IInv, OwnRecord
    <3> QED  BY <3>1, <3>2
  <2> QED  BY <2>1, <2>2 DEF IInv
<1>2. ASSUME NEW a \in 1 .. MaxRecords, NEW b \in 1 .. MaxRecords, SwapItems(a, b) PROVE IInv'
  <2>1. CASE a > count["playlist"] \/ b > count["playlist"] \/ a = b
    BY <1>2, <2>1 DEF SwapItems, IInv, TypeOK, OwnRecord
  <2>2. CASE ~ (a > count["playlist"] \/ b > count["playlist"] \/ a = b)
    <3> USE DEF Swapped
    <3>0. Swapped(a, b)
      BY <1>2, <2>2, SwapFacts
    <3>1. TypeOK'
      <4>1. ASSUME NEW d \in Caches
            PROVE  /\ header'[d] \in Seq(Nat) /\ Len(header'[d]) = count'[d]
                   /\ \A n \in 1 .. count'[d] : header'[d][n] \in 1 .. Len(body'[d])
        BY <3>0 DEF IInv, TypeOK
      <4>2. header' = [d \in Caches |-> header'[d]]
        BY <1>2 DEF SwapItems, IInv, TypeOK
      <4> QED  BY <3>0, <4>1, <4>2 DEF IInv, TypeOK
    <3>2. OwnRecord'
      <4> SUFFICES ASSUME NEW d \in Caches, NEW i \in 1 .. count'[d], NEW j \in 1 .. count'[d],
                          header'[d][i] = header'[d][j]
                   PROVE  i = j
        BY DEF OwnRecord
      <4>1. i \in 1 .. count[d] /\ j \in 1 .. count[d]
        BY <3>0
      <4>2. \A m, n \in 1 .. count[d] : header[d][m] = header[d][n] => m = n
        BY DEF IInv, OwnRecord
      <4>3. CASE d = "playlist"
        <5> DEFINE from(m) == IF m = a THEN b ELSE IF m = b THEN a ELSE m
        <5>1. /\ from(i) \in 1 .. count[d] /\ header'[d][i] = header[d][from(i)]
              /\ from(j) \in 1 .. count[d] /\ header'[d][j] = header[d][from(j)]
          BY <3>0, <4>1, <4>3
        <5>2. from(i) = from(j)
          BY <4>2, <5>1
        <5> QED  BY <5>2
      <4>4. CASE d # "playlist"
        BY <3>0, <4>1, <4>2, <4>4
      <4> QED  BY <4>3, <4>4
    <3> QED  BY <3>1, <3>2 DEF IInv
  <2> QED  BY <2>1, <2>2
<1>3. ASSUME NEW n \in 1 .. MaxRecords, NEW entry \in Items, ReplaceItem(n, entry) PROVE IInv'
  <2> USE DEF Replaced
  <2>0. Replaced(n, entry)
    BY <1>3, ReplaceFacts
  <2>a. NewHeaderOK("playlist")
    BY <2>0, ReplaceKeepsHeader
  <2>1. TypeOK'
    <3>1. ASSUME NEW d \in Caches
          PROVE  /\ header'[d] \in Seq(Nat) /\ body'[d] \in Seq(Items)
                 /\ Len(header'[d]) = count'[d]
                 /\ \A m \in 1 .. count'[d] : header'[d][m] \in 1 .. Len(body'[d])
      <4>1. CASE d = "playlist"
        BY <2>0, <2>a, <4>1 DEF NewHeaderOK
      <4>2. CASE d # "playlist"
        BY <2>0, <4>2 DEF IInv, TypeOK
      <4> QED  BY <4>1, <4>2
    <3>2. header' = [d \in Caches |-> header'[d]] /\ body' = [d \in Caches |-> body'[d]]
      BY <1>3 DEF ReplaceItem, IInv, TypeOK
    <3> QED  BY <2>0, <3>1, <3>2 DEF IInv, TypeOK
  <2>2. OwnRecord'
    <3> SUFFICES ASSUME NEW d \in Caches, NEW i \in 1 .. count'[d], NEW j \in 1 .. count'[d],
                        header'[d][i] = header'[d][j]
                 PROVE  i = j
      BY DEF OwnRecord
    <3>1. CASE d = "playlist"
      BY <2>a, <3>1 DEF NewHeaderOK
    <3>2. CASE d # "playlist"
      BY <2>0, <3>2 DEF IInv, OwnRecord
    <3> QED  BY <3>1, <3>2
  <2> QED  BY <2>1, <2>2 DEF IInv
<1>4. ASSUME Refresh PROVE IInv'
  <2>1. <<>> \in Seq(Items) /\ <<>> \in Seq(Nat) /\ Len(<<>>) = 0
    BY EmptySeq
  <2>2. TypeOK'
    BY <1>4, <2>1 DEF Refresh, Empty, TypeOK
  <2>3. OwnRecord'
    BY <1>4 DEF Refresh, OwnRecord
  <2> QED  BY <2>2, <2>3 DEF IInv
<1>5. ASSUME UNCHANGED vars PROVE IInv'
  BY <1>5 DEF vars, IInv, TypeOK, OwnRecord
<1>6. ASSUME NEW c \in Caches, NEW entry, entry \notin Items, entry \in {NULL}, AddItem(c, entry) PROVE FALSE
  BY <1>6 DEF AddItem, Skips
<1> QED
  BY <1>1, <1>2, <1>3, <1>4, <1>5, <1>6 DEF Next, AddSkipped

\* Every header entry of every cache stays the offset of a record.
THEOREM TypeCorrect == Spec => []TypeOK
<1>1. IInv => TypeOK
  BY DEF IInv
<1> QED  BY InitInv, NextInv, <1>1, PTL DEF Spec

\* No interleaving of additions, swaps and replacements makes two positions of a
\* cache read the same record (disk.c 277-313).
THEOREM RecordsNotShared == Spec => []OwnRecord
<1>1. IInv => OwnRecord
  BY DEF IInv
<1> QED  BY InitInv, NextInv, <1>1, PTL DEF Spec

-----------------------------------------------------------------------------
(***************************************************************************)
(* Refinement.                                                             *)
(***************************************************************************)

\* An entry in use is the offset of a record.
LEMMA ValidOffset ==
  ASSUME IInv, NEW c \in Caches, NEW n \in 1 .. count[c]
  PROVE  header[c][n] \in 1 .. Len(body[c])
  BY DEF IInv, TypeOK

\* A cache whose files are in order stands for a sequence of items.
LEMMA ListSeq ==
  ASSUME IInv, NEW c \in Caches
  PROVE  /\ List(c) \in Seq(Items)
         /\ Len(List(c)) = count[c]
         /\ \A n \in 1 .. count[c] : List(c)[n] = body[c][header[c][n]]
<1>1. count[c] \in Nat
  BY DEF IInv, TypeOK
<1>2. \A n \in 1 .. count[c] : GetItem(c, n) = body[c][header[c][n]] /\ GetItem(c, n) \in Items
  <2> TAKE n \in 1 .. count[c]
  <2>1. GetItem(c, n) = body[c][header[c][n]]
    BY <1>1 DEF GetItem
  <2>2. header[c][n] \in 1 .. Len(body[c]) /\ body[c] \in Seq(Items)
    BY DEF IInv, TypeOK
  <2> QED  BY <2>1, <2>2, ElementOfSeq
<1>3. List(c) \in [1 .. count[c] -> Items]
  BY <1>2 DEF List
<1>4. List(c) \in Seq(Items)
  BY <1>1, <1>3, SeqDef
<1>5. Len(List(c)) = count[c]
  BY <1>1, <1>3, <1>4, LenProperties
<1> QED  BY <1>2, <1>4, <1>5 DEF List

\* ListSeq as one formula, to be primed.
LEMMA ListSeqAll ==
  IInv => \A d \in Caches :
            /\ List(d) \in Seq(Items)
            /\ Len(List(d)) = count[d]
            /\ \A n \in 1 .. count[d] : List(d)[n] = body[d][header[d][n]]
  BY ListSeq

\* ListSeq in the next state.
LEMMA ListSeqPrimed ==
  ASSUME IInv', NEW c \in Caches
  PROVE  /\ List(c)' \in Seq(Items)
         /\ Len(List(c)') = count'[c]
         /\ \A n \in 1 .. count'[c] : List(c)'[n] = body'[c][header'[c][n]]
<1>1. (IInv => \A d \in Caches :
         /\ List(d) \in Seq(Items)
         /\ Len(List(d)) = count[d]
         /\ \A n \in 1 .. count[d] : List(d)[n] = body[d][header[d][n]])'
  BY ListSeqAll, PTL
<1> QED  BY <1>1

\* A cache whose files do not change stands for the same list.
LEMMA SameList ==
  ASSUME NEW c \in Caches, header'[c] = header[c], body'[c] = body[c], count'[c] = count[c]
  PROVE  List(c)' = List(c)
  BY DEF List, GetItem

AbstractList == [c \in Caches |-> List(c)]

\* Empty files stand for empty lists.
LEMMA InitRefines == Init => Lists!Init
<1> SUFFICES ASSUME Init PROVE Lists!Init
  OBVIOUS
<1>1. \A c \in Caches : List(c) = <<>>
  <2> TAKE c \in Caches
  <2>1. List(c) \in Seq(Items) /\ Len(List(c)) = 0
    BY InitInv, ListSeq DEF Init
  <2> QED  BY <2>1, EmptySeq
<1> QED  BY <1>1 DEF Lists!Init, Lists!Caches

\* An addition appends to one list.
LEMMA AddRefines ==
  ASSUME IInv, IInv', NEW c \in Caches, NEW entry \in Items, AddItem(c, entry)
  PROVE  Lists!Add(c, entry)
<1> USE DEF Added
<1>1. Added(c, entry)
  BY AddFacts
<1>2. /\ List(c) \in Seq(Items)
      /\ Len(List(c)) = count[c]
      /\ \A n \in 1 .. count[c] : List(c)[n] = body[c][header[c][n]]
  BY ListSeq
<1>3. /\ List(c)' \in Seq(Items)
      /\ Len(List(c)') = count[c] + 1
      /\ \A n \in 1 .. count[c] + 1 : List(c)'[n] = body'[c][header'[c][n]]
  BY <1>1, ListSeqPrimed
<1>4. /\ Append(List(c), entry) \in Seq(Items)
      /\ Len(Append(List(c), entry)) = count[c] + 1
      /\ \A n \in 1 .. count[c] : Append(List(c), entry)[n] = List(c)[n]
      /\ Append(List(c), entry)[count[c] + 1] = entry
  BY <1>2, AppendRecord
<1>5. \A n \in 1 .. count[c] : List(c)'[n] = List(c)[n]
  <2> TAKE n \in 1 .. count[c]
  <2>1. header[c][n] \in 1 .. Len(body[c])
    BY ValidOffset
  <2>2. n \in 1 .. count[c] + 1
    BY <1>1
  <2>3. header'[c][n] = header[c][n] /\ body'[c][header[c][n]] = body[c][header[c][n]]
    BY <1>1, <2>1
  <2> QED  BY <1>2, <1>3, <2>2, <2>3
<1>6. List(c)'[count[c] + 1] = entry
  <2>1. count[c] + 1 \in 1 .. count[c] + 1
    BY <1>1
  <2> QED  BY <1>1, <1>3, <2>1
<1>7. \A n \in 1 .. count[c] + 1 : n = count[c] + 1 \/ n \in 1 .. count[c]
  BY <1>1
<1>8. List(c)' = Append(List(c), entry)
  BY <1>3, <1>4, <1>5, <1>6, <1>7, SeqEqual
<1>9. \A d \in Caches : d # c => List(d)' = List(d)
  BY <1>1, SameList
<1>10. AbstractList' = [AbstractList EXCEPT ![c] = Append(AbstractList[c], entry)]
  BY <1>8, <1>9 DEF AbstractList
<1> QED  BY <1>10 DEF AbstractList, Lists!Add, Lists!Accepts, AddItem, Skips

\* A replacement changes one position of the playlist.
LEMMA ReplaceRefines ==
  ASSUME IInv, IInv', NEW n \in 1 .. MaxRecords, NEW entry \in Items \ Folders, ReplaceItem(n, entry)
  PROVE  n \in 1 .. count["playlist"] /\ Lists!Replace(n, entry)
<1> DEFINE c == "playlist"
<1> USE DEF Replaced
<1>1. Replaced(n, entry)
  BY ReplaceFacts
<1>2. /\ List(c) \in Seq(Items)
      /\ Len(List(c)) = count[c]
      /\ \A m \in 1 .. count[c] : List(c)[m] = body[c][header[c][m]]
  BY ListSeq
<1>3. /\ List(c)' \in Seq(Items)
      /\ Len(List(c)') = count[c]
      /\ \A m \in 1 .. count[c] : List(c)'[m] = body'[c][header'[c][m]]
  BY <1>1, ListSeqPrimed
<1>4. /\ [List(c) EXCEPT ![n] = entry] \in Seq(Items)
      /\ Len([List(c) EXCEPT ![n] = entry]) = count[c]
      /\ \A m \in 1 .. count[c] : [List(c) EXCEPT ![n] = entry][m] = IF m = n THEN entry ELSE List(c)[m]
  BY <1>1, <1>2, ExceptSeq
<1>5. \A m \in 1 .. count[c] : List(c)'[m] = IF m = n THEN entry ELSE List(c)[m]
  <2> TAKE m \in 1 .. count[c]
  <2>1. header[c][m] \in 1 .. Len(body[c])
    BY ValidOffset
  <2>2. body'[c][header[c][m]] = body[c][header[c][m]]
    BY <1>1, <2>1
  <2>3. body'[c][header'[c][m]] = IF m = n THEN entry ELSE body[c][header[c][m]]
    BY <1>1, <2>2
  <2> QED  BY <1>2, <1>3, <2>3
<1>6. List(c)' = [List(c) EXCEPT ![n] = entry]
  BY <1>3, <1>4, <1>5, SeqEqual
<1>7. \A d \in Caches : d # c => List(d)' = List(d)
  BY <1>1, SameList
<1>8. AbstractList' = [AbstractList EXCEPT ![c] = [AbstractList[c] EXCEPT ![n] = entry]]
  BY <1>6, <1>7 DEF AbstractList
<1> QED  BY <1>1, <1>2, <1>8 DEF AbstractList, Lists!Replace, Lists!Accepts, Lists!Positions

\* A swap that does not return early exchanges two positions.
LEMMA SwapRefines ==
  ASSUME IInv, IInv', NEW a \in 1 .. MaxRecords, NEW b \in 1 .. MaxRecords, SwapItems(a, b),
         ~ (a > count["playlist"] \/ b > count["playlist"] \/ a = b)
  PROVE  a \in 1 .. count["playlist"] /\ b \in 1 .. count["playlist"] /\ Lists!Swap(a, b)
<1> DEFINE c == "playlist"
           once == [List(c) EXCEPT ![a] = List(c)[b]]
           twice == [once EXCEPT ![b] = List(c)[a]]
<1> USE DEF Swapped
<1>1. Swapped(a, b)
  BY SwapFacts
<1>2. /\ List(c) \in Seq(Items)
      /\ Len(List(c)) = count[c]
      /\ \A m \in 1 .. count[c] : List(c)[m] = body[c][header[c][m]]
  BY ListSeq
<1>3. /\ List(c)' \in Seq(Items)
      /\ Len(List(c)') = count[c]
      /\ \A m \in 1 .. count[c] : List(c)'[m] = body[c][header'[c][m]]
  BY <1>1, ListSeqPrimed
<1>4. List(c)[a] \in Items /\ List(c)[b] \in Items
  BY <1>1, <1>2, ElementOfSeq
<1>5. /\ once \in Seq(Items) /\ Len(once) = count[c]
      /\ \A m \in 1 .. count[c] : once[m] = IF m = a THEN List(c)[b] ELSE List(c)[m]
  BY <1>1, <1>2, <1>4, ExceptSeq
<1> HIDE DEF once
<1>6. /\ twice \in Seq(Items) /\ Len(twice) = count[c]
      /\ \A m \in 1 .. count[c] : twice[m] = IF m = b THEN List(c)[a] ELSE once[m]
  BY <1>1, <1>4, <1>5, ExceptSeq
<1> HIDE DEF twice
<1>7. \A m \in 1 .. count[c] : List(c)'[m] = twice[m]
  <2> TAKE m \in 1 .. count[c]
  <2>1. List(c)'[m] = body[c][header'[c][m]]
    BY <1>3
  <2>2. header'[c][m] = IF m = a THEN header[c][b] ELSE IF m = b THEN header[c][a] ELSE header[c][m]
    BY <1>1
  <2>3. twice[m] = IF m = b THEN List(c)[a] ELSE IF m = a THEN List(c)[b] ELSE List(c)[m]
    BY <1>5, <1>6
  <2>4. a # b /\ a \in 1 .. count[c] /\ b \in 1 .. count[c]
    BY <1>1
  <2> QED  BY <1>2, <2>1, <2>2, <2>3, <2>4
<1>8. List(c)' = twice
  BY <1>3, <1>6, <1>7, SeqEqual
<1>9. \A d \in Caches : d # c => List(d)' = List(d)
  BY <1>1, SameList
<1>10. AbstractList' = [AbstractList EXCEPT ![c] = twice]
  BY <1>8, <1>9 DEF AbstractList
<1> USE DEF twice, once
<1> QED  BY <1>1, <1>2, <1>10 DEF AbstractList, Lists!Swap, Lists!Positions

\* Every step is a step of the lists or changes none of them.
LEMMA NextRefines == IInv /\ IInv' /\ [Next]_vars => [Lists!Next]_AbstractList
<1> SUFFICES ASSUME IInv, IInv', [Next]_vars
             PROVE  Lists!Next \/ UNCHANGED AbstractList
  OBVIOUS
<1>1. ASSUME NEW c \in Caches, NEW entry \in Items \cup {NULL}, AddItem(c, entry) PROVE Lists!Next
  <2>1. entry \in Items
    BY <1>1 DEF AddItem, Skips
  <2> QED  BY <1>1, <2>1, AddRefines DEF Lists!Next, Lists!Caches
<1>2. ASSUME UNCHANGED <<header, body, count>> PROVE UNCHANGED AbstractList
  <2>1. \A c \in Caches : List(c)' = List(c)
    BY <1>2, SameList
  <2> QED  BY <2>1 DEF AbstractList
<1>3. ASSUME NEW a \in 1 .. MaxRecords, NEW b \in 1 .. MaxRecords, SwapItems(a, b)
      PROVE  Lists!Next \/ UNCHANGED AbstractList
  <2>1. CASE a > count["playlist"] \/ b > count["playlist"] \/ a = b
    BY <1>2, <1>3, <2>1 DEF SwapItems
  <2>2. CASE ~ (a > count["playlist"] \/ b > count["playlist"] \/ a = b)
    <3>1. a \in 1 .. count["playlist"] /\ b \in 1 .. count["playlist"] /\ Lists!Swap(a, b)
      BY <1>3, <2>2, SwapRefines
    <3>2. Len(List("playlist")) = count["playlist"]
      BY ListSeq
    <3> QED  BY <3>1, <3>2 DEF Lists!Next, Lists!Positions
  <2> QED  BY <2>1, <2>2
<1>4. ASSUME NEW n \in 1 .. MaxRecords, NEW entry \in Items \ Folders, ReplaceItem(n, entry) PROVE Lists!Next
  <2>1. n \in 1 .. count["playlist"] /\ Lists!Replace(n, entry)
    BY <1>4, ReplaceRefines
  <2>2. Len(List("playlist")) = count["playlist"]
    BY ListSeq
  <2> QED  BY <2>1, <2>2 DEF Lists!Next, Lists!Positions
<1>5. ASSUME Refresh PROVE Lists!Next
  <2>1. \A c \in Caches : List(c)' = <<>>
    <3> TAKE c \in Caches
    <3>1. List(c)' \in Seq(Items) /\ Len(List(c)') = 0
      BY <1>5, ListSeqPrimed DEF Refresh
    <3> QED  BY <3>1, EmptySeq
  <2> QED  BY <2>1 DEF Lists!Next, Lists!Refresh, Lists!Caches
<1> QED
  BY <1>1, <1>2, <1>3, <1>4, <1>5 DEF Next, AddSkipped, vars

\* For any set of items, header and body behave as two plain numbered lists:
\* appends, swaps and replacements show at their own positions only, and the
\* playlist holds no folder (disk.c 85-98, 245-249, 277-313).
THEOREM ImplementsLists == Spec => RefinesLists
<1>1. Spec => []IInv
  BY InitInv, NextInv, PTL DEF Spec
<1> QED  BY <1>1, InitRefines, NextRefines, PTL DEF Spec, Lists!Spec, RefinesLists, AbstractList

\* A step that is one of the calls is that call on the lists.
LEMMA EffectsAgree == IInv /\ IInv' => CallsAgree
<1> SUFFICES ASSUME IInv, IInv' PROVE CallsAgree
  OBVIOUS
<1>1. ASSUME NEW c \in Caches, NEW entry \in Items, AddItem(c, entry) PROVE Lists!Add(c, entry)
  BY <1>1, AddRefines
<1>2. ASSUME NEW a \in 1 .. count["playlist"], NEW b \in 1 .. count["playlist"],
             a # b, SwapItems(a, b)
      PROVE  Lists!Swap(a, b)
  <2>1. a \in 1 .. MaxRecords /\ b \in 1 .. MaxRecords
    BY <1>2 DEF SwapItems
  <2>2. ~ (a > count["playlist"] \/ b > count["playlist"] \/ a = b)
    BY SMTT(30), <1>2 DEF IInv, TypeOK
  <2> QED  BY <1>2, <2>1, <2>2, SwapRefines
<1>3. ASSUME NEW n \in 1 .. MaxRecords, NEW entry \in Items \ Folders, ReplaceItem(n, entry)
      PROVE  Lists!Replace(n, entry)
  BY <1>3, ReplaceRefines
<1> QED  BY <1>1, <1>2, <1>3 DEF CallsAgree

\* For any set of items, an addition, a swap and a replacement do to the lists what
\* they are named for and nothing else (disk.c 60-98, 277-313).
THEOREM CallsHaveTheirEffect == Spec => OperationsAgree
<1>1. Spec => []IInv
  BY InitInv, NextInv, PTL DEF Spec
<1> QED  BY <1>1, EffectsAgree, PTL DEF OperationsAgree

-----------------------------------------------------------------------------
(***************************************************************************)
(* The document.                                                           *)
(***************************************************************************)

PathKey == "PlaybackPositionTicks"
DocKeys == ItemKeys \cup {"Items", PathKey, "Other"}
Kinds == {"query", "latest", "items", "item", "userdata", "map", "array"}
Texts == {Absent} \cup {Tags[n] : n \in DOMAIN Tags} \cup UNION {{s[k] : k \in DOMAIN s} : s \in Shapes}

\* The items of a document have each a number.
Serials == 1 .. Len(Tags)

\* How many containers are open, and where among them an item is.
Size == Len(doc.stack)
ItemAt == IF doc.stack # <<>> /\ doc.stack[1].kind = "latest" THEN 2 ELSE 3

\* The keys that a container brings.
KeysOf(kind) ==
    CASE kind = "query" -> {"Items", "Other"}
      [] kind = "item" -> DOMAIN doc.shape \ {PathKey}
      [] kind = "userdata" -> DOMAIN doc.shape \cap {PathKey, "Other"}
      [] kind = "map" -> {"Name", "Other"}
      [] OTHER -> {}

DocTypes ==
    doc \in [stack : Seq([kind : Kinds, todo : SUBSET DocKeys]), key : DocKeys \cup {NULL},
             shape : Shapes \cup {NULL}, serial : Serials \cup {0}, facts : [FieldKeys -> Texts],
             types : [TypeKeys -> Texts], expected : Seq(Items), asked : BOOLEAN]

\* Which containers are in which, as far as the parser has to know.
Nesting ==
    /\ Size >= 1 => doc.asked /\ doc.stack[1].kind \in {"query", "latest"}
    /\ Size >= 2 /\ doc.stack[1].kind = "query" => doc.stack[2].kind = "items"
    /\ Size >= ItemAt => /\ doc.stack[ItemAt].kind = "item"
                         /\ doc.shape \in Shapes /\ doc.serial \in Serials
    /\ \A j \in ItemAt + 1 .. Size :
         \/ doc.stack[j].kind \in {"map", "array"}
         \/ doc.stack[j].kind = "userdata" /\ Size = ItemAt + 1

\* Each container brings each of its keys once.
Keys ==
    /\ \A j \in 1 .. Size : doc.stack[j].todo \subseteq KeysOf(doc.stack[j].kind)
    /\ doc.key # NULL =>
         Size >= 1 /\ doc.key \in KeysOf(doc.stack[Size].kind) \ doc.stack[Size].todo
    /\ Size = ItemAt + 1 /\ doc.stack[Size].kind = "userdata" => "UserData" \notin doc.stack[ItemAt].todo

\* What the item at hand has still to say.
Due == doc.stack[ItemAt].todo \cup (IF Size = ItemAt THEN {doc.key} ELSE {})
DueInUserData ==
    IF "UserData" \in Due THEN {PathKey}
    ELSE IF Size = ItemAt + 1 /\ doc.stack[Size].kind = "userdata"
    THEN doc.stack[Size].todo \cup {doc.key}
    ELSE {}

\* What it has said.
Brought == (DOMAIN doc.shape) \ (Due \cup DueInUserData)

Facts ==
    Size >= ItemAt =>
        /\ \A k \in FieldKeys :
             doc.facts[k] = IF k \in Brought THEN TextOf(doc.shape, doc.serial, k) ELSE Absent
        /\ \A k \in TypeKeys : doc.types[k] = IF k \in Brought THEN doc.shape[k] ELSE Absent

DocInv ==
    /\ DocTypes /\ Nesting /\ Keys /\ Facts
    /\ doc.asked /\ doc.stack = <<>> => doc.expected = <<>>

-----------------------------------------------------------------------------
(***************************************************************************)
(* The parser is where the document is.                                    *)
(***************************************************************************)

At(kind, key) ==
    CASE kind = "query" -> (IF key = "Items" THEN "Items" ELSE "QUERYRESULT_MAP")
      [] kind = "latest" -> "LATEST_ARRAY"
      [] kind = "items" -> "ITEMS_ARRAY"
      [] kind = "item" -> (IF key \in ItemKeys THEN key ELSE "ITEM_MAP")
      [] kind = "userdata" -> (IF key = PathKey THEN PathKey ELSE "USERDATA_MAP")
      [] OTHER -> "IGNORE"

Place == IF doc.stack = <<>> THEN "IDLE" ELSE At(doc.stack[Size].kind, doc.key)

ParserInv ==
    /\ ~ rejected
    /\ parser_state = Place
    /\ latest_array \in BOOLEAN /\ (latest_array <=> Size >= ItemAt /\ ItemAt = 2)
    /\ ignoring \in [resume : {"NO_STATE", "ITEM_MAP"}, maps : Int, arrays : Int]
    /\ Place = "IGNORE" => ignoring.resume = "ITEM_MAP" /\ ignoring.maps + ignoring.arrays = Size - ItemAt
    /\ item = IF Size >= ItemAt THEN Declared ELSE NoItem

\* The payload, its count and the screen are what has been answered.
AnswerInv ==
    /\ List("payload") = doc.expected
    /\ tb \in [item_count : Nat, promiscuous : BOOLEAN]
    /\ NumbersMatch

\* No key of an item is left without a value.
NoNulls == NullKeys \subseteq {"Other"}

\* A type and a collection type say the same in both orders.
OrderFree ==
    \A s \in Shapes : TypeKeys \subseteq DOMAIN s =>
      CollectionAfter(TypeAfter("NONE", s["Type"]), s["CollectionType"])
        = TypeAfter(CollectionAfter("NONE", s["CollectionType"]), s["Type"])


\* A container is opened on top of the others, or the one on top is closed.
LEMMA Push ==
  ASSUME NEW S, NEW s \in Seq(S), NEW f \in S
  PROVE  /\ Append(s, f) \in Seq(S) /\ Len(s) \in Nat /\ Len(Append(s, f)) = Len(s) + 1
         /\ Append(s, f) # <<>>
         /\ Append(s, f)[Len(s) + 1] = f
         /\ \A j \in 1 .. Len(s) : Append(s, f)[j] = s[j]
  BY AppendProperties, LenProperties

LEMMA Pop ==
  ASSUME NEW S, NEW s \in Seq(S), s # <<>>
  PROVE  /\ Front(s) \in Seq(S) /\ Len(s) \in Nat \ {0} /\ Len(Front(s)) = Len(s) - 1
         /\ \A j \in 1 .. Len(s) - 1 : Front(s)[j] = s[j]
         /\ Last(s) = s[Len(s)]
<1>1. Len(s) \in Nat /\ Len(s) # 0
  BY EmptySeq, LenProperties
<1>2. \A i \in 1 .. Len(s) - 1 : s[i] \in S
  BY <1>1, ElementOfSeq
<1>3. 1 \in Int /\ Len(s) - 1 \in Int /\ (Len(s) - 1) - 1 + 1 = Len(s) - 1
  BY <1>1
<1>4. /\ SubSeq(s, 1, Len(s) - 1) \in Seq(S)
      /\ Len(SubSeq(s, 1, Len(s) - 1)) = Len(s) - 1
      /\ \A i \in 1 .. Len(s) - 1 : SubSeq(s, 1, Len(s) - 1)[i] = s[i]
  BY <1>1, <1>2, <1>3, SubSeqProperties
<1> QED  BY <1>1, <1>4 DEF Front, Last

LEMMA Untold ==
  ASSUME NEW type
  PROVE  TypeAfter(type, Absent) = type /\ CollectionAfter(type, Absent) = type
  BY DEF Absent, TypeAfter, CollectionAfter

\* What is on top says how deep it is.
Depths ==
    /\ Size \in Nat /\ ItemAt \in {2, 3} /\ (doc.stack = <<>> <=> Size = 0)
    /\ \A j \in 1 .. Size : doc.stack[j] \in [kind : Kinds, todo : SUBSET DocKeys]
    /\ Size > 0 => /\ Top = doc.stack[Size]
                   /\ Top.kind \in Kinds
                   /\ Top.kind \in {"query", "latest"} <=> Size = 1
                   /\ Top.kind = "items" <=> Size = 2 /\ ItemAt = 3
                   /\ Top.kind = "item" <=> Size = ItemAt
                   /\ Top.kind \in {"map", "array", "userdata"} <=> Size > ItemAt
                   /\ Top.kind = "userdata" => Size = ItemAt + 1

LEMMA DepthsHold == DocTypes /\ Nesting => Depths
<1> SUFFICES ASSUME DocTypes, Nesting PROVE Depths
  OBVIOUS
<1>1. Size \in Nat /\ ItemAt \in {2, 3} /\ (doc.stack = <<>> <=> Size = 0)
  BY EmptySeq, LenProperties DEF DocTypes, Size, ItemAt
<1>2. \A j \in 1 .. Size : doc.stack[j] \in [kind : Kinds, todo : SUBSET DocKeys]
  BY <1>1, ElementOfSeq DEF DocTypes, Size
<1>3. ASSUME Size > 0
      PROVE  /\ Top = doc.stack[Size] /\ Top.kind \in Kinds
             /\ Top.kind \in {"query", "latest"} <=> Size = 1
             /\ Top.kind = "items" <=> Size = 2 /\ ItemAt = 3
             /\ Top.kind = "item" <=> Size = ItemAt
             /\ Top.kind \in {"map", "array", "userdata"} <=> Size > ItemAt
             /\ Top.kind = "userdata" => Size = ItemAt + 1
  <2>1. Top = doc.stack[Size]
    BY <1>1, <1>3 DEF Top, Size, Last
  <2>2. Size \in 1 .. Size
    BY <1>1, <1>3
  <2> HIDE DEF Size, Top
  <2> QED  BY <1>1, <1>2, <1>3, <2>1, <2>2 DEF Nesting, ItemAt, Kinds
<1> QED  BY <1>1, <1>2, <1>3 DEF Depths

LEMMA DepthsPrimed == DocTypes' /\ Nesting' => Depths'
  BY DepthsHold, PTL

\* What the stack is after a container has been opened, or closed.
LEMMA Opened ==
  ASSUME DocInv, NEW f \in [kind : Kinds, todo : SUBSET DocKeys], doc'.stack = Append(doc.stack, f)
  PROVE  /\ doc'.stack \in Seq([kind : Kinds, todo : SUBSET DocKeys]) /\ doc'.stack # <<>>
         /\ Size' = Size + 1 /\ doc'.stack[Size + 1] = f
         /\ \A j \in 1 .. Size : doc'.stack[j] = doc.stack[j]
         /\ ItemAt' = IF Size > 0 THEN ItemAt ELSE IF f.kind = "latest" THEN 2 ELSE 3
<1>1. doc.stack \in Seq([kind : Kinds, todo : SUBSET DocKeys])
  BY DEF DocInv, DocTypes
<1>2. /\ doc'.stack \in Seq([kind : Kinds, todo : SUBSET DocKeys]) /\ doc'.stack # <<>>
      /\ Size' = Size + 1 /\ doc'.stack[Size + 1] = f /\ Size \in Nat
      /\ \A j \in 1 .. Size : doc'.stack[j] = doc.stack[j]
  BY <1>1, Push DEF Size
<1>3. Depths
  BY DepthsHold DEF DocInv
<1>4. CASE Size > 0
  <2>1. doc'.stack[1] = doc.stack[1] /\ doc.stack # <<>>
    BY <1>2, <1>3, <1>4 DEF Depths
  <2> QED  BY <1>2, <1>4, <2>1 DEF ItemAt
<1>5. CASE Size = 0
  BY <1>2, <1>5 DEF ItemAt
<1>6. Size > 0 \/ Size = 0
  BY <1>2
<1> QED  BY <1>2, <1>4, <1>5, <1>6, Zenon

LEMMA Closed ==
  ASSUME DocInv, doc.stack # <<>>, doc'.stack = Front(doc.stack)
  PROVE  /\ doc'.stack \in Seq([kind : Kinds, todo : SUBSET DocKeys])
         /\ Size \in Nat \ {0} /\ Size' = Size - 1 /\ (doc'.stack = <<>> <=> Size' = 0)
         /\ \A j \in 1 .. Size - 1 : doc'.stack[j] = doc.stack[j]
         /\ Size' > 0 => ItemAt' = ItemAt
<1>1. doc.stack \in Seq([kind : Kinds, todo : SUBSET DocKeys])
  BY DEF DocInv, DocTypes
<1>2. /\ doc'.stack \in Seq([kind : Kinds, todo : SUBSET DocKeys])
      /\ Size \in Nat \ {0} /\ Size' = Size - 1
      /\ \A j \in 1 .. Size - 1 : doc'.stack[j] = doc.stack[j]
  BY <1>1, Pop DEF Size
<1>3. doc'.stack = <<>> <=> Size' = 0
  BY <1>2, EmptySeq DEF Size
<1>4. ASSUME Size' > 0 PROVE ItemAt' = ItemAt
  <2>1. doc'.stack[1] = doc.stack[1] /\ doc'.stack # <<>>
    BY <1>2, <1>3, <1>4
  <2> QED  BY <2>1 DEF ItemAt
<1> QED  BY <1>2, <1>3, <1>4

\* A text of the item at hand is one of the texts.
LEMMA TextIs ==
  ASSUME NEW s \in Shapes, NEW n \in Serials, NEW k \in DOMAIN s
  PROVE  TextOf(s, n, k) \in Texts /\ s[k] \in Texts /\ Absent \in Texts
<1>1. n \in DOMAIN Tags
  BY TagsAssumption DEF Serials
<1> QED  BY <1>1 DEF TextOf, Texts

\* The rest of the document when only the stack and the key change.
Same == /\ doc'.shape = doc.shape /\ doc'.serial = doc.serial /\ doc'.facts = doc.facts
        /\ doc'.types = doc.types /\ doc'.expected = doc.expected

\* The values of one item are said once each.
ItemDomain == FieldKeys \cup TypeKeys

LEMMA FactsStay ==
  ASSUME Facts, Same, Size' >= ItemAt', Size >= ItemAt,
         \A k \in ItemDomain : k \in Brought' <=> k \in Brought
  PROVE  Facts'
  BY DEF Facts, Same, ItemDomain

-----------------------------------------------------------------------------
(***************************************************************************)
(* Each token leaves the document in order.                                *)
(***************************************************************************)

LEMMA DocBegins ==
  ASSUME DocInv, Sending, doc.stack = <<>>, NEW f, doc' = Open(f),
         f = Frame("query", {"Items", "Other"}) \/ f = Frame("latest", {})
  PROVE  DocInv'
<1>1. f \in [kind : Kinds, todo : SUBSET DocKeys] /\ f.kind \in {"query", "latest"}
      /\ f.todo \subseteq (IF f.kind = "query" THEN {"Items", "Other"} ELSE {})
  BY DEF Frame, Kinds, DocKeys
<1>2. /\ doc'.stack = Append(doc.stack, f) /\ doc'.key = NULL /\ doc'.asked = TRUE /\ Same
      /\ DOMAIN doc' = DOMAIN doc
  BY DEF Open, DocInv, DocTypes, Sending, Same
<1>3. Size = 0 /\ Size' = 1 /\ doc'.stack[1] = f /\ ItemAt' \in {2, 3} /\ doc'.stack # <<>>
      /\ doc'.stack \in Seq([kind : Kinds, todo : SUBSET DocKeys])
  BY <1>1, <1>2, Opened, DepthsHold DEF DocInv, Depths
<1>4. DocTypes'
  BY <1>2, <1>3 DEF DocInv, DocTypes, Same, Open
<1>5. Nesting'
  <2>1. /\ doc'.asked /\ doc'.stack[1].kind \in {"query", "latest"}
        /\ ~ Size' >= 2 /\ ~ Size' >= ItemAt'
    BY <1>1, <1>2, <1>3
  <2>2. \A i \in {2, 3} : i + 1 .. 1 = {}
    OBVIOUS
  <2>3. ItemAt' + 1 .. Size' = {}
    BY <1>3, <2>2, Zenon
  <2> QED  BY <2>1, <2>3 DEF Nesting
<1>6. Keys'
  BY <1>1, <1>2, <1>3 DEF Keys, KeysOf
<1>7. Facts'
  BY <1>3 DEF Facts
<1> QED  BY <1>3, <1>4, <1>5, <1>6, <1>7 DEF DocInv

LEMMA DocNamesKey ==
  ASSUME DocInv, Sending, IsMap(Top), doc.key = NULL, NEW k \in Top.todo,
         doc' = [doc EXCEPT !.key = k, !.stack[Len(doc.stack)].todo = @ \ {k}]
  PROVE  DocInv'
<1>1. Depths
  BY DepthsHold DEF DocInv
<1>2. Size \in Nat \ {0} /\ Top = doc.stack[Size] /\ Size \in 1 .. Size
  <2>1. Size # 0
    BY <1>1 DEF IsMap, Top, Frame, Depths
  <2> QED  BY <1>1, <2>1 DEF Depths
<1> DEFINE f == [doc.stack[Size] EXCEPT !.todo = @ \ {k}]
<1>3. f \in [kind : Kinds, todo : SUBSET DocKeys] /\ f.kind = Top.kind /\ f.todo = Top.todo \ {k}
  <2>1. doc.stack[Size] \in [kind : Kinds, todo : SUBSET DocKeys]
    BY <1>1, <1>2 DEF Depths
  <2> QED  BY <1>2, <2>1
<1>4. /\ doc'.stack = [doc.stack EXCEPT ![Size] = f] /\ doc'.key = k /\ doc'.asked = doc.asked /\ Same
  BY DEF DocInv, DocTypes, Same, Size
<1> HIDE DEF f
<1>5. /\ doc'.stack \in Seq([kind : Kinds, todo : SUBSET DocKeys]) /\ Size' = Size
      /\ \A j \in 1 .. Size : doc'.stack[j] = IF j = Size THEN f ELSE doc.stack[j]
  <2>1. doc.stack \in Seq([kind : Kinds, todo : SUBSET DocKeys]) /\ Len(doc.stack) = Size
    BY DEF DocInv, DocTypes, Size
  <2>2. /\ [doc.stack EXCEPT ![Size] = f] \in Seq([kind : Kinds, todo : SUBSET DocKeys])
        /\ Len([doc.stack EXCEPT ![Size] = f]) = Size
        /\ \A j \in 1 .. Size : [doc.stack EXCEPT ![Size] = f][j] = IF j = Size THEN f ELSE doc.stack[j]
    BY <1>2, <1>3, <2>1, ExceptSeq
  <2> QED  BY <1>4, <2>2 DEF Size
<1>6. /\ \A j \in 1 .. Size : doc'.stack[j].kind = doc.stack[j].kind /\ doc'.stack[j].todo \subseteq doc.stack[j].todo
      /\ ItemAt' = ItemAt /\ doc'.stack # <<>>
  <2>1. \A j \in 1 .. Size : doc'.stack[j].kind = doc.stack[j].kind /\ doc'.stack[j].todo \subseteq doc.stack[j].todo
    BY <1>2, <1>3, <1>5
  <2>2. 1 \in 1 .. Size /\ doc.stack # <<>> /\ doc'.stack # <<>>
    BY <1>1, <1>2, <1>5, EmptySeq DEF Depths, Size
  <2> QED  BY <2>1, <2>2 DEF ItemAt
<1>7. k \in DocKeys /\ k # NULL
  BY <1>1, <1>2, NullAssumption DEF Depths, DocKeys, PathKey
<1>8. DocTypes'
  BY <1>4, <1>5, <1>7 DEF DocInv, DocTypes, Same
<1>9. Nesting'
  <2>1. ItemAt \in 1 .. Size \/ Size < ItemAt
    BY <1>1 DEF Depths
  <2>2. Size >= 2 => 2 \in 1 .. Size /\ 1 \in 1 .. Size
    BY <1>2
  <2>3. Nesting
    BY DEF DocInv
  <2>4. doc'.asked /\ doc'.stack[1].kind \in {"query", "latest"}
    BY <1>2, <1>4, <1>6, <2>3 DEF Nesting
  <2>5. Size >= 2 /\ doc'.stack[1].kind = "query" => doc'.stack[2].kind = "items"
    BY <1>6, <2>2, <2>3 DEF Nesting
  <2>6. Size >= ItemAt => /\ doc'.stack[ItemAt].kind = "item"
                          /\ doc'.shape \in Shapes /\ doc'.serial \in Serials
    BY <1>1, <1>4, <1>6, <2>1, <2>3 DEF Nesting, Same, Depths
  <2>7. \A j \in ItemAt + 1 .. Size :
          \/ doc'.stack[j].kind \in {"map", "array"}
          \/ doc'.stack[j].kind = "userdata" /\ Size = ItemAt + 1
    BY <1>1, <1>6, <2>3 DEF Nesting, Depths
  <2> QED  BY <1>5, <1>6, <2>4, <2>5, <2>6, <2>7 DEF Nesting
<1>10. \A kind : KeysOf(kind)' = KeysOf(kind)
  BY <1>4 DEF KeysOf, Same
<1>11. k \in KeysOf(doc.stack[Size].kind)
  BY <1>2 DEF DocInv, Keys
<1>12. Keys'
  <2>1. \A j \in 1 .. Size : doc'.stack[j].todo \subseteq KeysOf(doc'.stack[j].kind)
    BY <1>6 DEF DocInv, Keys
  <2>2. k \notin doc'.stack[Size].todo
    BY <1>2, <1>3, <1>5
  <2>3. Size = ItemAt + 1 /\ doc.stack[Size].kind = "userdata" => "UserData" \notin doc'.stack[ItemAt].todo
    BY <1>1, <1>5 DEF DocInv, Keys, Depths
  <2> QED  BY <1>2, <1>4, <1>5, <1>6, <1>10, <1>11, <2>1, <2>2, <2>3 DEF Keys
<1>13. ASSUME Size >= ItemAt PROVE \A m \in ItemDomain : m \in Brought' <=> m \in Brought
  <2>1. NULL \notin ItemDomain
    BY NullAssumption DEF ItemDomain, FieldKeys, ItemKeys, StringKeys, NumberKeys, TypeKeys
  <2>2. CASE Size = ItemAt
    <3>1. Due = Top.todo \cup {NULL} /\ Due' = (Top.todo \ {k}) \cup {k}
      BY <1>2, <1>3, <1>4, <1>5, <1>6, <2>2 DEF Due
    <3>2. "UserData" # NULL
      BY NullAssumption DEF ItemKeys
    <3>3. "UserData" \in Due' <=> "UserData" \in Due
      BY <3>1, <3>2
    <3>4. DueInUserData' = DueInUserData
      BY <1>5, <1>6, <2>2, <3>3, <1>2 DEF DueInUserData
    <3> QED  BY <1>4, <2>1, <3>1, <3>4 DEF Brought, Same
  <2>3. CASE Size # ItemAt
    <3>1. Due' = Due
      BY <1>1, <1>5, <1>6, <1>13, <2>3 DEF Due, Depths
    <3>2. \A m \in ItemDomain : m \in DueInUserData' <=> m \in DueInUserData
      <4>1. CASE "UserData" \in Due
        BY <3>1, <4>1 DEF DueInUserData
      <4>2. CASE "UserData" \notin Due /\ Size = ItemAt + 1 /\ doc.stack[Size].kind = "userdata"
        <5>1. DueInUserData = Top.todo \cup {NULL} /\ DueInUserData' = (Top.todo \ {k}) \cup {k}
          BY <1>2, <1>3, <1>4, <1>5, <1>6, <3>1, <4>2 DEF DueInUserData
        <5> QED  BY <2>1, <5>1
      <4>3. CASE "UserData" \notin Due /\ ~ (Size = ItemAt + 1 /\ doc.stack[Size].kind = "userdata")
        BY <1>2, <1>5, <1>6, <3>1, <4>3 DEF DueInUserData
      <4> QED  BY <4>1, <4>2, <4>3
    <3> QED  BY <1>4, <3>1, <3>2 DEF Brought, Same
  <2> QED  BY <2>2, <2>3
<1>14. Facts'
  <2>1. CASE Size >= ItemAt
    BY <1>4, <1>5, <1>6, <1>13, <2>1, FactsStay DEF DocInv
  <2>2. CASE ~ Size >= ItemAt
    BY <1>5, <1>6, <2>2 DEF Facts
  <2> QED  BY <2>1, <2>2
<1> QED  BY <1>4, <1>6, <1>8, <1>9, <1>12, <1>14 DEF DocInv, Same

\* What a value does to the document whatever it says.
Valued == /\ doc.stack # <<>> /\ doc'.stack = doc.stack /\ doc'.key = NULL /\ doc'.shape = doc.shape
          /\ doc'.serial = doc.serial /\ doc'.expected = doc.expected /\ doc'.asked = doc.asked

LEMMA ValueKeeps ==
  ASSUME DocInv, Valued
  PROVE  /\ Nesting' /\ Keys' /\ Size' = Size /\ ItemAt' = ItemAt
         /\ \A kind : KeysOf(kind)' = KeysOf(kind)
  BY DEF DocInv, Valued, Nesting, Keys, Size, ItemAt, KeysOf

\* Nothing that is of the item.
LEMMA DocSkips ==
  ASSUME DocInv, doc.stack # <<>>, doc' = [doc EXCEPT !.key = NULL],
         doc.key \in {"Other", NULL} \/ Top.kind \in {"map", "array"}
  PROVE  DocInv'
<1>1. Valued /\ doc'.facts = doc.facts /\ doc'.types = doc.types
  BY DEF Valued, DocInv, DocTypes
<1>2. Nesting' /\ Keys' /\ Size' = Size /\ ItemAt' = ItemAt
  BY <1>1, ValueKeeps
<1>3. Depths
  BY DepthsHold DEF DocInv
<1>4. Size > 0 /\ Top = doc.stack[Size]
  BY <1>3 DEF Depths
<1>5. DocTypes'
  BY DEF DocInv, DocTypes
<1>6. NULL \notin ItemDomain /\ "Other" \notin ItemDomain /\ NULL # "UserData"
  BY NullAssumption DEF ItemDomain, FieldKeys, ItemKeys, StringKeys, NumberKeys, TypeKeys
<1>7. \A m \in ItemDomain \cup {"UserData"} : m \in Due' <=> m \in Due
  BY <1>1, <1>2, <1>3, <1>4, <1>6 DEF Due, Valued, Depths
<1>8. \A m \in ItemDomain : m \in DueInUserData' <=> m \in DueInUserData
  <2>1. "UserData" \in Due' <=> "UserData" \in Due
    BY <1>7
  <2>2. CASE "UserData" \in Due
    <3>1. DueInUserData = {PathKey}
      BY <2>2 DEF DueInUserData
    <3>2. DueInUserData' = {PathKey}
      BY <2>1, <2>2 DEF DueInUserData
    <3> QED  BY <3>1, <3>2
  <2>3. CASE "UserData" \notin Due /\ Size = ItemAt + 1 /\ doc.stack[Size].kind = "userdata"
    <3>1. DueInUserData = Top.todo \cup {doc.key} /\ DueInUserData' = Top.todo \cup {NULL}
      BY <1>1, <1>2, <1>4, <2>1, <2>3 DEF DueInUserData, Valued
    <3>2. doc.key \in {"Other", NULL}
      BY <1>4, <2>3
    <3> QED  BY <1>6, <3>1, <3>2
  <2>4. CASE "UserData" \notin Due /\ ~ (Size = ItemAt + 1 /\ doc.stack[Size].kind = "userdata")
    BY <1>1, <1>2, <2>1, <2>4 DEF DueInUserData, Valued
  <2> QED  BY <2>2, <2>3, <2>4
<1>9. \A m \in ItemDomain : m \in Brought' <=> m \in Brought
  BY <1>1, <1>7, <1>8 DEF Brought, Valued
<1>10. Facts'
  <2>1. CASE Size >= ItemAt
    BY <1>1, <1>2, <1>9, <2>1, FactsStay DEF DocInv, Valued, Same
  <2>2. CASE ~ Size >= ItemAt
    BY <1>2, <2>2 DEF Facts
  <2> QED  BY <2>1, <2>2
<1> QED  BY <1>1, <1>2, <1>5, <1>10 DEF DocInv, Valued

\* Where the item speaks of itself, and of what.
Speaks(k) ==
    /\ doc.key = k
    /\ \/ Size = ItemAt /\ k \in ItemDomain \ {PathKey}
       \/ Size = ItemAt + 1 /\ doc.stack[Size].kind = "userdata" /\ k = PathKey

\* The value of a key is brought by that.
LEMMA KeyBrought ==
  ASSUME DocInv, Valued, NEW k \in ItemDomain, Speaks(k)
  PROVE  /\ doc.shape \in Shapes /\ doc.serial \in Serials /\ k \in DOMAIN doc.shape
         /\ \A m \in ItemDomain : m \in Brought' <=> m = k \/ m \in Brought
         /\ Nesting' /\ Keys' /\ Size' = Size /\ ItemAt' = ItemAt /\ Size >= ItemAt
<1>1. Nesting' /\ Keys' /\ Size' = Size /\ ItemAt' = ItemAt
  BY ValueKeeps
<1>2. Depths
  BY DepthsHold DEF DocInv
<1>3. Size > 0 /\ Top = doc.stack[Size] /\ Size \in 1 .. Size /\ Size >= ItemAt /\ ItemAt \in 1 .. Size
  BY <1>2 DEF Depths, Valued, Speaks
<1>4. doc.shape \in Shapes /\ doc.serial \in Serials /\ doc.stack[ItemAt].kind = "item"
  BY <1>3 DEF DocInv, Nesting
<1>5. k # NULL /\ NULL \notin ItemDomain /\ "UserData" \notin ItemDomain /\ NULL # "UserData" /\ PathKey # "UserData"
      /\ PathKey \in ItemDomain
  BY NullAssumption DEF ItemDomain, FieldKeys, ItemKeys, StringKeys, NumberKeys, TypeKeys, PathKey
<1>6. /\ k \in KeysOf(doc.stack[Size].kind) \ doc.stack[Size].todo
      /\ doc.stack[ItemAt].todo \subseteq DOMAIN doc.shape \ {PathKey}
  <2>1. k \in KeysOf(doc.stack[Size].kind) \ doc.stack[Size].todo
    BY <1>5 DEF DocInv, Keys, Speaks
  <2>2. doc.stack[ItemAt].todo \subseteq KeysOf("item")
    BY <1>3, <1>4 DEF DocInv, Keys
  <2> QED  BY <2>1, <2>2 DEF KeysOf
<1>7. CASE Size = ItemAt
  <2>1. k # PathKey /\ k \in DOMAIN doc.shape \ {PathKey}
    BY <1>4, <1>6, <1>7 DEF Speaks, KeysOf
  <2>2. Due = Top.todo \cup {k} /\ Due' = Top.todo \cup {NULL}
    BY <1>1, <1>3, <1>7 DEF Due, Valued, Speaks
  <2>3. k \notin Top.todo
    BY <1>3, <1>6
  <2>4. "UserData" \in Due' <=> "UserData" \in Due
    BY <1>5, <2>2
  <2>5. DueInUserData' = DueInUserData /\ DueInUserData \subseteq {PathKey}
    BY <1>1, <1>2, <1>7, <2>4 DEF DueInUserData, Depths
  <2>6. \A m \in ItemDomain : m \in Brought' <=> m = k \/ m \in Brought
    BY <1>5, <2>1, <2>2, <2>3, <2>5 DEF Brought, Valued
  <2> QED  BY <1>1, <1>3, <1>4, <2>1, <2>6
<1>8. CASE Size # ItemAt
  <2>1. k = PathKey /\ Size = ItemAt + 1 /\ doc.stack[Size].kind = "userdata" /\ k \in DOMAIN doc.shape
    BY <1>6, <1>8 DEF Speaks, KeysOf
  <2>2. Due = doc.stack[ItemAt].todo /\ Due' = Due
    BY <1>1, <1>8 DEF Due, Valued
  <2>3. "UserData" \notin Due
    BY <2>1, <2>2 DEF DocInv, Keys
  <2>4. DueInUserData = Top.todo \cup {k} /\ DueInUserData' = Top.todo \cup {NULL}
    BY <1>1, <1>3, <2>1, <2>2, <2>3 DEF DueInUserData, Valued, Speaks
  <2>5. k \notin Top.todo /\ k \notin Due
    BY <1>3, <1>6, <2>1, <2>2
  <2>6. \A m \in ItemDomain : m \in Brought' <=> m = k \/ m \in Brought
    BY <1>5, <2>1, <2>2, <2>4, <2>5 DEF Brought, Valued
  <2> QED  BY <1>1, <1>3, <1>4, <2>1, <2>6
<1> QED  BY <1>7, <1>8

LEMMA DocSaysField ==
  ASSUME DocInv, doc.stack # <<>>, NEW k \in FieldKeys, Speaks(k), doc' = Saying(k)
  PROVE  DocInv'
<1>1. Valued /\ doc'.types = doc.types /\ doc'.facts = [doc.facts EXCEPT ![k] = TextOf(doc.shape, doc.serial, k)]
  BY DEF Saying, Valued, DocInv, DocTypes
<1>2. /\ doc.shape \in Shapes /\ doc.serial \in Serials /\ k \in DOMAIN doc.shape
      /\ \A m \in ItemDomain : m \in Brought' <=> m = k \/ m \in Brought
      /\ Nesting' /\ Keys' /\ Size' = Size /\ ItemAt' = ItemAt /\ Size >= ItemAt
  BY <1>1, KeyBrought DEF ItemDomain
<1>3. doc'.facts \in [FieldKeys -> Texts] /\ \A m \in FieldKeys : doc'.facts[m] = IF m = k THEN TextOf(doc.shape, doc.serial, k) ELSE doc.facts[m]
  BY <1>1, <1>2, TextIs DEF DocInv, DocTypes
<1>4. DocTypes'
  BY <1>1, <1>3 DEF DocInv, DocTypes, Saying, Valued
<1>5. Facts'
  <2>1. k \notin TypeKeys
    BY DEF FieldKeys, TypeKeys, StringKeys, NumberKeys
  <2> QED  BY <1>1, <1>2, <1>3, <2>1 DEF Facts, DocInv, ItemDomain, Valued
<1> QED  BY <1>1, <1>2, <1>4, <1>5 DEF DocInv, Valued

LEMMA DocSaysType ==
  ASSUME DocInv, doc.stack # <<>>, NEW k \in TypeKeys, Speaks(k),
         doc' = [doc EXCEPT !.key = NULL, !.types[k] = doc.shape[k]]
  PROVE  DocInv'
<1>1. Valued /\ doc'.facts = doc.facts /\ doc'.types = [doc.types EXCEPT ![k] = doc.shape[k]]
  BY DEF Valued, DocInv, DocTypes
<1>2. /\ doc.shape \in Shapes /\ doc.serial \in Serials /\ k \in DOMAIN doc.shape
      /\ \A m \in ItemDomain : m \in Brought' <=> m = k \/ m \in Brought
      /\ Nesting' /\ Keys' /\ Size' = Size /\ ItemAt' = ItemAt /\ Size >= ItemAt
  BY <1>1, KeyBrought DEF ItemDomain
<1>3. doc'.types \in [TypeKeys -> Texts] /\ \A m \in TypeKeys : doc'.types[m] = IF m = k THEN doc.shape[k] ELSE doc.types[m]
  BY <1>1, <1>2, TextIs DEF DocInv, DocTypes
<1>4. DocTypes'
  BY <1>1, <1>3 DEF DocInv, DocTypes, Valued
<1>5. Facts'
  <2>1. k \notin FieldKeys
    BY DEF FieldKeys, TypeKeys, StringKeys, NumberKeys
  <2> QED  BY <1>1, <1>2, <1>3, <2>1 DEF Facts, DocInv, ItemDomain, Valued
<1> QED  BY <1>1, <1>2, <1>4, <1>5 DEF DocInv, Valued

\* A container that is opened in another.
Opens(f) == /\ doc.stack # <<>> /\ f \in [kind : Kinds, todo : SUBSET DocKeys]
            /\ doc'.stack = Append(doc.stack, f) /\ doc'.key = NULL /\ doc'.asked = doc.asked

LEMMA DocOpens ==
  ASSUME DocInv, NEW f, Opens(f), doc'.shape = doc.shape, doc'.serial = doc.serial,
         \/ f.kind = "items" /\ Top.kind = "query"
         \/ f.kind = "userdata" /\ Top.kind = "item" /\ "UserData" \notin Top.todo
         \/ f.kind \in {"map", "array"} /\ Top.kind \in {"item", "map", "array"},
         f.todo \subseteq KeysOf(f.kind)
  PROVE  Nesting' /\ Keys' /\ Size > 0 /\ Size' = Size + 1 /\ ItemAt' = ItemAt
<1>1. Depths
  BY DepthsHold DEF DocInv
<1>2. /\ Size' = Size + 1 /\ doc'.stack[Size + 1] = f /\ ItemAt' = ItemAt
      /\ \A j \in 1 .. Size : doc'.stack[j] = doc.stack[j]
      /\ Size \in Nat \ {0} /\ Top = doc.stack[Size]
  <2>1. Size \in Nat \ {0} /\ Top = doc.stack[Size]
    BY <1>1 DEF Opens, Depths
  <2>2. f \in [kind : Kinds, todo : SUBSET DocKeys] /\ doc'.stack = Append(doc.stack, f)
    BY DEF Opens
  <2>3. /\ Size' = Size + 1 /\ doc'.stack[Size + 1] = f
        /\ \A j \in 1 .. Size : doc'.stack[j] = doc.stack[j]
        /\ ItemAt' = IF Size > 0 THEN ItemAt ELSE IF f.kind = "latest" THEN 2 ELSE 3
    BY <2>2, Opened, Zenon
  <2>4. Size > 0
    BY <2>1
  <2> QED  BY <2>1, <2>3, <2>4, Zenon
<1>3. \A kind : KeysOf(kind)' = KeysOf(kind)
  BY DEF KeysOf
<1>4. Nesting /\ Keys
  BY DEF DocInv
<1>5. Nesting'
  <2>1. doc'.asked /\ doc'.stack[1].kind \in {"query", "latest"}
    BY <1>2, <1>4 DEF Nesting, Opens
  <2>2. doc'.stack[1].kind = "query" => doc'.stack[2].kind = "items"
    <3>1. CASE Size = 1
      BY <1>1, <1>2, <3>1 DEF Depths, ItemAt
    <3>2. CASE Size >= 2
      BY <1>2, <1>4, <3>2 DEF Nesting
    <3> QED  BY <1>2, <3>1, <3>2
  <2>3. Size + 1 >= ItemAt => /\ doc'.stack[ItemAt].kind = "item"
                              /\ doc'.shape \in Shapes /\ doc'.serial \in Serials
    <3>1. Top.kind = "query" => Size = 1 /\ ItemAt = 3
      BY <1>1, <1>2 DEF Depths, ItemAt
    <3>2. Top.kind # "query" => Size >= ItemAt
      BY <1>1, <1>2 DEF Depths
    <3>3. Size + 1 >= ItemAt => Size >= ItemAt
      BY <1>2, <3>1, <3>2
    <3> QED  BY <1>1, <1>2, <1>4, <3>3 DEF Nesting, Depths
  <2>4. \A j \in ItemAt + 1 .. Size :
          \/ doc'.stack[j].kind \in {"map", "array"}
          \/ doc'.stack[j].kind = "userdata" /\ j = Size
    <3>1. ItemAt \in {2, 3}
      BY <1>1 DEF Depths
    <3>2. \A j \in ItemAt + 1 .. Size : doc'.stack[j] = doc.stack[j]
      BY <1>2, <3>1
    <3>3. \A j \in ItemAt + 1 .. Size :
            \/ doc.stack[j].kind \in {"map", "array"}
            \/ doc.stack[j].kind = "userdata" /\ Size = ItemAt + 1
      BY <1>4, Zenon DEF Nesting
    <3>4. \A j \in ItemAt + 1 .. Size : Size = ItemAt + 1 => j = Size
      BY <1>2, <3>1
    <3> QED  BY <3>2, <3>3, <3>4, Zenon
  <2>5. \A j \in ItemAt + 1 .. Size + 1 :
         \/ doc'.stack[j].kind \in {"map", "array"}
         \/ doc'.stack[j].kind = "userdata" /\ Size + 1 = ItemAt + 1
    BY <1>1, <1>2, <2>4 DEF Depths
  <2> QED  BY <1>2, <2>1, <2>2, <2>3, <2>5 DEF Nesting
<1>6. Keys'
  <2>1. \A j \in 1 .. Size + 1 : doc'.stack[j].todo \subseteq KeysOf(doc'.stack[j].kind)
    BY <1>2, <1>4 DEF Keys
  <2>2. f.kind = "userdata" /\ Size + 1 = ItemAt + 1 => "UserData" \notin doc'.stack[ItemAt].todo
    BY <1>1, <1>2 DEF Depths
  <2> QED  BY <1>2, <1>3, <2>1, <2>2 DEF Keys, Opens
<1> QED  BY <1>2, <1>5, <1>6

LEMMA DocStartsItems ==
  ASSUME DocInv, Top.kind = "query", doc.stack # <<>>, doc' = Open(Frame("items", {}))
  PROVE  DocInv'
<1>1. Opens(Frame("items", {})) /\ Same
  BY DEF Opens, Open, Frame, Kinds, DocInv, DocTypes, Same
<1>2. Nesting' /\ Keys' /\ Size' = Size + 1 /\ ItemAt' = ItemAt
  BY <1>1, DocOpens DEF Frame, Same
<1>3. Size = 1 /\ ItemAt = 3
  <2>1. Depths
    BY DepthsHold DEF DocInv
  <2> QED  BY <2>1 DEF Depths, ItemAt
<1>4. Facts'
  BY <1>2, <1>3 DEF Facts
<1>5. doc'.stack \in Seq([kind : Kinds, todo : SUBSET DocKeys]) /\ doc'.stack # <<>>
  BY <1>1, Opened DEF Opens
<1>6. DocTypes'
  BY <1>1, <1>5 DEF DocInv, DocTypes, Open
<1> QED  BY <1>2, <1>4, <1>5, <1>6 DEF DocInv

LEMMA DocStartsUserData ==
  ASSUME DocInv, Top.kind = "item", doc.stack # <<>>, doc.key = "UserData",
         doc' = Open(Frame("userdata", DOMAIN doc.shape \cap {PathKey, "Other"}))
  PROVE  DocInv'
<1> DEFINE f == Frame("userdata", DOMAIN doc.shape \cap {PathKey, "Other"})
<1>1. Depths
  BY DepthsHold DEF DocInv
<1>2. Size \in Nat \ {0} /\ Size = ItemAt /\ Top = doc.stack[Size] /\ Size \in 1 .. Size
  BY <1>1 DEF Depths
<1>3. doc.shape \in Shapes /\ "UserData" \notin Top.todo
  <2>1. doc.key # NULL
    BY NullAssumption DEF ItemKeys
  <2> QED  BY <1>2, <2>1 DEF DocInv, Nesting, Keys
<1>4. f.kind = "userdata" /\ f.todo = KeysOf("userdata") /\ f.todo = DOMAIN doc.shape \cap {PathKey, "Other"}
  BY DEF Frame, KeysOf
<1>5. f \in [kind : Kinds, todo : SUBSET DocKeys]
  BY DEF Frame, Kinds, DocKeys
<1>6. Same /\ doc'.key = NULL /\ doc'.asked = doc.asked /\ doc'.stack = Append(doc.stack, f)
  BY DEF Open, DocInv, DocTypes, Same
<1> HIDE DEF f
<1>7. Opens(f)
  BY <1>5, <1>6 DEF Opens
<1>8. Nesting' /\ Keys' /\ Size' = Size + 1 /\ ItemAt' = ItemAt
  BY <1>3, <1>4, <1>6, <1>7, DocOpens DEF Same
<1>9. /\ doc'.stack \in Seq([kind : Kinds, todo : SUBSET DocKeys]) /\ doc'.stack # <<>>
      /\ doc'.stack[Size + 1] = f /\ doc'.stack[Size] = doc.stack[Size]
  BY <1>2, <1>7, Opened DEF Opens
<1>10. DocTypes'
  BY <1>6, <1>9 DEF DocInv, DocTypes, Open
<1>11. NULL \notin ItemDomain /\ "Other" \notin ItemDomain /\ "UserData" \notin ItemDomain /\ PathKey # "UserData"
  BY NullAssumption DEF ItemDomain, FieldKeys, ItemKeys, StringKeys, NumberKeys, TypeKeys, PathKey
<1>12. Due = Top.todo \cup {"UserData"} /\ Due' = Top.todo
  BY <1>2, <1>8, <1>9 DEF Due
<1>13. DueInUserData = {PathKey}
  BY <1>12 DEF DueInUserData
<1>14. DueInUserData' = f.todo \cup {NULL}
  BY <1>2, <1>3, <1>4, <1>6, <1>8, <1>9, <1>12 DEF DueInUserData
<1>15. \A m \in ItemDomain : m \in Brought' <=> m \in Brought
  BY <1>4, <1>6, <1>11, <1>12, <1>13, <1>14 DEF Brought, Same
<1>16. Facts'
  BY <1>2, <1>6, <1>8, <1>15, FactsStay DEF DocInv
<1> QED  BY <1>8, <1>9, <1>10, <1>16 DEF DocInv

LEMMA DocStartsNested ==
  ASSUME DocInv, doc.stack # <<>>, Nested, NEW f, doc' = Open(f),
         f = Frame("map", {"Name", "Other"}) \/ f = Frame("array", {})
  PROVE  DocInv'
<1>1. Depths
  BY DepthsHold DEF DocInv
<1>2. Size \in Nat \ {0} /\ Size >= ItemAt /\ ItemAt \in {2, 3} /\ Top = doc.stack[Size] /\ Size \in 1 .. Size
      /\ (Size > ItemAt => Top.kind \in {"map", "array"}) /\ Top.kind \in {"item", "map", "array"}
  BY <1>1 DEF Depths, Nested
<1>3. /\ f \in [kind : Kinds, todo : SUBSET DocKeys] /\ f.kind \in {"map", "array"}
      /\ f.todo \subseteq KeysOf(f.kind)
  BY DEF Frame, Kinds, DocKeys, KeysOf, ItemKeys, StringKeys
<1>4. Same /\ doc'.key = NULL /\ doc'.asked = doc.asked /\ doc'.stack = Append(doc.stack, f)
  BY DEF Open, DocInv, DocTypes, Same
<1>5. Opens(f)
  BY <1>3, <1>4 DEF Opens
<1>6. Nesting' /\ Keys' /\ Size' = Size + 1 /\ ItemAt' = ItemAt
  BY <1>2, <1>3, <1>4, <1>5, DocOpens DEF Same
<1>7. /\ doc'.stack \in Seq([kind : Kinds, todo : SUBSET DocKeys]) /\ doc'.stack # <<>>
      /\ doc'.stack[Size + 1] = f /\ \A j \in 1 .. Size : doc'.stack[j] = doc.stack[j]
  BY <1>5, Opened DEF Opens
<1>8. DocTypes'
  BY <1>4, <1>7 DEF DocInv, DocTypes, Open
<1>9. NULL \notin ItemDomain /\ "Other" \notin ItemDomain /\ "UserData" \notin {NULL, "Other"}
  BY NullAssumption DEF ItemDomain, FieldKeys, ItemKeys, StringKeys, NumberKeys, TypeKeys
<1>10. Due' = doc.stack[ItemAt].todo
  BY <1>2, <1>6, <1>7 DEF Due
<1>11. Due = doc.stack[ItemAt].todo \/ Due = doc.stack[ItemAt].todo \cup {"Other"}
  <2>1. Size = ItemAt => Top.kind = "item"
    BY <1>1, <1>2 DEF Depths
  <2> QED  BY <1>2, <2>1 DEF Due, Nested
<1>12. DueInUserData' = DueInUserData
  <2>1. "UserData" \in Due' <=> "UserData" \in Due
    BY <1>9, <1>10, <1>11
  <2>2. Top.kind # "userdata" /\ f.kind # "userdata"
    BY <1>2, <1>3
  <2> QED  BY <1>2, <1>6, <1>7, <2>1, <2>2 DEF DueInUserData
<1>13. \A m \in ItemDomain : m \in Brought' <=> m \in Brought
  BY <1>4, <1>9, <1>10, <1>11, <1>12 DEF Brought, Same
<1>14. Facts'
  BY <1>2, <1>4, <1>6, <1>13, FactsStay DEF DocInv
<1> QED  BY <1>6, <1>7, <1>8, <1>14 DEF DocInv

Starts(s) ==
    doc' = [Open(Frame("item", DOMAIN s \ {PathKey})) EXCEPT
              !.shape = s, !.serial = @ + 1, !.facts = NoDoc.facts, !.types = NoDoc.types]

LEMMA DocStartsItem ==
  ASSUME DocInv, doc.stack # <<>>, Top.kind \in {"items", "latest"}, doc.serial + 1 \in Serials,
         NEW s \in Shapes, Starts(s)
  PROVE  DocInv'
<1> DEFINE f == Frame("item", DOMAIN s \ {PathKey})
<1>1. Depths
  BY DepthsHold DEF DocInv
<1>2. Size \in Nat \ {0} /\ Size + 1 = ItemAt /\ Top = doc.stack[Size]
  BY <1>1 DEF Depths, ItemAt
<1>3. DOMAIN s \subseteq ItemKeys \cup {PathKey, "Other"} /\ (PathKey \in DOMAIN s => "UserData" \in DOMAIN s)
  BY ShapesAssumption DEF PathKey
<1>4. f.kind = "item" /\ f.todo = DOMAIN s \ {PathKey} /\ f \in [kind : Kinds, todo : SUBSET DocKeys]
  BY <1>3 DEF Frame, Kinds, DocKeys
<1>20. doc'.stack = Append(doc.stack, f)
  BY DEF Starts, Open, DocInv, DocTypes
<1>5. /\ doc'.key = NULL /\ doc'.asked = doc.asked
      /\ doc'.expected = doc.expected /\ doc'.shape = s /\ doc'.serial = doc.serial + 1
      /\ doc'.facts = NoDoc.facts /\ doc'.types = NoDoc.types
  BY DEF Starts, Open, DocInv, DocTypes
<1> HIDE DEF f
<1>0. doc'.stack \in Seq([kind : Kinds, todo : SUBSET DocKeys]) /\ doc'.stack # <<>>
  BY <1>4, <1>20, Opened
<1>6. /\ Size' = Size + 1 /\ doc'.stack[Size + 1] = f /\ ItemAt' = ItemAt
      /\ \A j \in 1 .. Size : doc'.stack[j] = doc.stack[j]
  <2>1. /\ Size' = Size + 1 /\ doc'.stack[Size + 1] = f
        /\ ItemAt' = IF Size > 0 THEN ItemAt ELSE IF f.kind = "latest" THEN 2 ELSE 3
        /\ \A j \in 1 .. Size : doc'.stack[j] = doc.stack[j]
    BY <1>4, <1>20, Opened
  <2>2. Size > 0
    BY <1>2
  <2> QED  BY <2>1, <2>2, Zenon
<1>8. doc'.facts = [k \in FieldKeys |-> Absent] /\ doc'.types = [k \in TypeKeys |-> Absent] /\ Absent \in Texts
  BY <1>5 DEF NoDoc, NoItem, Texts
<1>9. doc'.serial \in Serials
  BY <1>5
<1>10. DocTypes'
  <2>1. doc'.facts \in [FieldKeys -> Texts] /\ doc'.types \in [TypeKeys -> Texts]
    BY <1>8
  <2>2. doc'.expected \in Seq(Items) /\ doc'.asked \in BOOLEAN
    BY <1>5 DEF DocInv, DocTypes
  <2>3. doc'.key \in DocKeys \cup {NULL} /\ doc'.shape \in Shapes \cup {NULL} /\ doc'.serial \in Serials \cup {0}
    BY <1>5, <1>9
  <2>4. doc' = [stack |-> doc'.stack, key |-> doc'.key, shape |-> doc'.shape, serial |-> doc'.serial,
                facts |-> doc'.facts, types |-> doc'.types, expected |-> doc'.expected, asked |-> doc'.asked]
    BY DEF Starts, Open, DocInv, DocTypes
  <2> QED  BY <1>0, <2>1, <2>2, <2>3, <2>4 DEF DocTypes
<1>11. Nesting'
  <2>1. doc'.asked /\ doc'.stack[1].kind \in {"query", "latest"}
    BY <1>2, <1>5, <1>6 DEF DocInv, Nesting
  <2>2. doc'.stack[1].kind = "query" => doc'.stack[2].kind = "items"
    <3>1. doc'.stack[1] = doc.stack[1]
      BY <1>2, <1>6
    <3>2. doc.stack[1].kind = "query" => ItemAt = 3 /\ Size = 2
      BY <1>2 DEF ItemAt
    <3> QED  BY <1>2, <1>6, <3>1, <3>2 DEF DocInv, Nesting
  <2> QED  BY <1>2, <1>4, <1>5, <1>6, <1>9, <2>1, <2>2 DEF Nesting
<1>12. Keys'
  <2>1. \A j \in 1 .. Size : doc.stack[j].kind \in {"query", "latest", "items"}
    BY <1>1, <1>2 DEF DocInv, Nesting, Depths
  <2>2. \A j \in 1 .. Size : (doc.stack[j].todo \subseteq KeysOf(doc.stack[j].kind))'
    <3>1. \A kind \in {"query", "latest", "items"} : KeysOf(kind)' = KeysOf(kind)
      BY DEF KeysOf
    <3>2. \A j \in 1 .. Size : doc.stack[j].todo \subseteq KeysOf(doc.stack[j].kind)
      BY DEF DocInv, Keys
    <3>3. \A j \in 1 .. Size : KeysOf(doc.stack[j].kind)' = KeysOf(doc.stack[j].kind)
      BY <1>6, <2>1, <3>1
    <3> QED  BY <1>6, <3>2, <3>3
  <2>3. f.todo \subseteq KeysOf(f.kind)'
    BY <1>4, <1>5 DEF KeysOf
  <2>4. (\A j \in 1 .. Size : doc.stack[j].todo \subseteq KeysOf(doc.stack[j].kind))'
    BY <1>2, <1>6, <2>2, <2>3
  <2> QED  BY <1>2, <1>5, <1>6, <2>4 DEF Keys
<1>13. NULL \notin ItemDomain /\ NULL # "UserData" /\ "Other" \notin ItemDomain /\ PathKey # "UserData"
  BY NullAssumption DEF ItemDomain, FieldKeys, ItemKeys, StringKeys, NumberKeys, TypeKeys, PathKey
<1>14. Due' = (DOMAIN s \ {PathKey}) \cup {NULL}
  BY <1>2, <1>4, <1>5, <1>6 DEF Due
<1>15. PathKey \in DOMAIN s => DueInUserData' = {PathKey}
  BY <1>3, <1>13, <1>14 DEF DueInUserData
<1>16. \A m \in ItemDomain : m \notin Brought'
  BY <1>5, <1>14, <1>15 DEF Brought
<1>17. Facts'
  BY <1>8, <1>16 DEF Facts, ItemDomain
<1> QED  BY <1>0, <1>10, <1>11, <1>12, <1>17 DEF DocInv

\* An item that is over has said all that there was to say of it.
LEMMA Complete ==
  ASSUME DocInv, doc.stack # <<>>, Top.kind = "item", doc.key = NULL, Top.todo = {}
  PROVE  doc.shape \in Shapes /\ doc.serial \in DOMAIN Tags /\ Declared = Said(doc.shape, doc.serial)
<1>1. Depths
  BY DepthsHold DEF DocInv
<1>2. Size \in Nat \ {0} /\ Size = ItemAt /\ Top = doc.stack[Size]
  BY <1>1 DEF Depths
<1>3. doc.shape \in Shapes /\ doc.serial \in DOMAIN Tags
  BY <1>2, TagsAssumption DEF DocInv, Nesting, Serials
<1>4. NULL \notin ItemDomain /\ NULL # "UserData"
  BY NullAssumption DEF ItemDomain, FieldKeys, ItemKeys, StringKeys, NumberKeys, TypeKeys
<1>5. Due = {NULL} /\ DueInUserData = {}
  <2>1. Due = {NULL}
    BY <1>2 DEF Due
  <2>2. Size # ItemAt + 1 /\ "UserData" \notin Due
    BY <1>2, <1>4, <2>1
  <2> QED  BY <2>1, <2>2 DEF DueInUserData
<1>6. \A m \in ItemDomain : m \in Brought <=> m \in DOMAIN doc.shape
  BY <1>4, <1>5 DEF Brought
<1>7. Facts /\ doc.facts \in [FieldKeys -> Texts] /\ doc.types \in [TypeKeys -> Texts]
  BY DEF DocInv, DocTypes
<1>8. /\ \A k \in FieldKeys : doc.facts[k] = IF k \in DOMAIN doc.shape THEN TextOf(doc.shape, doc.serial, k) ELSE Absent
      /\ \A k \in TypeKeys : doc.types[k] = IF k \in DOMAIN doc.shape THEN doc.shape[k] ELSE Absent
  BY <1>2, <1>6, <1>7 DEF Facts, ItemDomain
<1>9. /\ doc.facts = [k \in FieldKeys |-> IF k \in DOMAIN doc.shape THEN TextOf(doc.shape, doc.serial, k) ELSE Absent]
      /\ doc.types = [k \in TypeKeys |-> IF k \in DOMAIN doc.shape THEN doc.shape[k] ELSE Absent]
  BY <1>7, <1>8
<1> QED  BY <1>3, <1>9 DEF Declared, Said

LEMMA Answerable ==
  ASSUME DocInv, doc.stack # <<>>, Top.kind = "item", doc.key = NULL, Top.todo = {},
         IsValid(Declared), NEW p \in BOOLEAN
  PROVE  MenuItem(Declared, p) \in Items
  BY Complete, ItemsAssumption, Zenon

Closes(e) == e \in Seq(Items) /\ doc' = [Close EXCEPT !.expected = e]

LEMMA DocCloses ==
  ASSUME DocInv, doc.stack # <<>>, IsMap(Top) => doc.key = NULL /\ Top.todo = {},
         NEW e, Top.kind # "item" => e = doc.expected,
         Closes(e)
  PROVE  DocInv'
<1>1. Depths
  BY DepthsHold DEF DocInv
<1>2. Size \in Nat \ {0} /\ Top = doc.stack[Size] /\ ItemAt \in {2, 3}
  BY <1>1 DEF Depths, Size
<1>3. /\ doc'.stack = Front(doc.stack) /\ doc'.key = NULL /\ (doc'.asked <=> Size > 1) /\ doc'.expected = e
      /\ doc'.shape = doc.shape /\ doc'.serial = doc.serial /\ doc'.facts = doc.facts /\ doc'.types = doc.types
  BY DEF Closes, Close, Size, DocInv, DocTypes
<1>0. doc'.stack \in Seq([kind : Kinds, todo : SUBSET DocKeys])
  BY <1>3, Closed
<1>4. /\ Size' = Size - 1 /\ (doc'.stack = <<>> <=> Size' = 0)
      /\ \A j \in 1 .. Size - 1 : doc'.stack[j] = doc.stack[j]
      /\ Size - 1 > 0 => ItemAt' = ItemAt
  BY <1>3, Closed
<1>5. DocTypes'
  <2>1. /\ doc'.key \in DocKeys \cup {NULL} /\ doc'.shape \in Shapes \cup {NULL}
        /\ doc'.serial \in Serials \cup {0} /\ doc'.facts \in [FieldKeys -> Texts]
        /\ doc'.types \in [TypeKeys -> Texts] /\ doc'.asked \in BOOLEAN
    BY <1>3 DEF DocInv, DocTypes, Closes, Close
  <2>3. doc'.expected \in Seq(Items)
    BY <1>3 DEF Closes
  <2>2. doc' = [stack |-> doc'.stack, key |-> doc'.key, shape |-> doc'.shape, serial |-> doc'.serial,
                facts |-> doc'.facts, types |-> doc'.types, expected |-> doc'.expected, asked |-> doc'.asked]
    BY DEF Closes, Close, DocInv, DocTypes
  <2> QED  BY <1>0, <2>1, <2>2, <2>3 DEF DocTypes
<1>6. \A kind : KeysOf(kind)' = KeysOf(kind)
  BY <1>3 DEF KeysOf
<1>7. Nesting'
  <2>1. CASE Size = 1
    <3>1. Size' = 0 /\ ItemAt' = 3
      BY <1>4, <2>1 DEF ItemAt
    <3> QED  BY <3>1 DEF Nesting
  <2>2. CASE Size > 1
    <3>1. doc'.asked /\ doc'.stack[1].kind \in {"query", "latest"} /\ doc'.stack[1] = doc.stack[1]
      BY <1>2, <1>3, <1>4, <2>2 DEF DocInv, Nesting
    <3>2. Size - 1 >= 2 /\ doc'.stack[1].kind = "query" => doc'.stack[2].kind = "items"
      BY <1>2, <1>4, <2>2, <3>1 DEF DocInv, Nesting
    <3>3. Size - 1 >= ItemAt => /\ doc'.stack[ItemAt].kind = "item"
                                /\ doc'.shape \in Shapes /\ doc'.serial \in Serials
      BY <1>2, <1>3, <1>4 DEF DocInv, Nesting
    <3>4. \A j \in ItemAt + 1 .. Size - 1 : doc'.stack[j].kind \in {"map", "array"}
      BY <1>2, <1>4 DEF DocInv, Nesting
    <3> QED  BY <1>2, <1>4, <2>2, <3>1, <3>2, <3>3, <3>4 DEF Nesting
  <2> QED  BY <1>2, <2>1, <2>2
<1>8. Size - 1 = ItemAt + 1 => doc'.stack[Size - 1].kind # "userdata"
  BY <1>2, <1>4 DEF DocInv, Nesting
<1>9. Keys'
  <2>1. \A j \in 1 .. Size - 1 : doc'.stack[j].todo \subseteq KeysOf(doc'.stack[j].kind)
    BY <1>2, <1>4 DEF DocInv, Keys
  <2>2. Size' = ItemAt' + 1 => Size - 1 > 0
    BY <1>2, <1>4 DEF ItemAt
  <2>3. (\A j \in 1 .. Size : doc.stack[j].todo \subseteq KeysOf(doc.stack[j].kind))'
    BY <1>4, <1>6, <2>1
  <2> QED  BY <1>2, <1>3, <1>4, <1>8, <2>2, <2>3 DEF Keys
<1>10. ASSUME Size - 1 >= ItemAt PROVE \A m \in ItemDomain : m \in Brought' <=> m \in Brought
  <2>1. NULL \notin ItemDomain /\ NULL # "UserData"
    BY NullAssumption DEF ItemDomain, FieldKeys, ItemKeys, StringKeys, NumberKeys, TypeKeys
  <2>2. ItemAt' = ItemAt /\ doc'.stack[ItemAt] = doc.stack[ItemAt] /\ Size' = Size - 1
    BY <1>2, <1>4, <1>10
  <2>3. Due = doc.stack[ItemAt].todo /\ Due' \ {NULL} = Due \ {NULL}
    BY <1>2, <1>3, <1>10, <2>2 DEF Due
  <2>4. "UserData" \in Due' <=> "UserData" \in Due
    BY <2>1, <2>3
  <2>5. DueInUserData' = IF "UserData" \in Due THEN {PathKey} ELSE {}
    BY <1>8, <2>2, <2>4 DEF DueInUserData
  <2>6. "UserData" \in Due => DueInUserData = {PathKey}
    BY DEF DueInUserData
  <2>7. "UserData" \notin Due => DueInUserData \subseteq {NULL}
    BY <1>2 DEF DueInUserData, IsMap
  <2> QED  BY <1>3, <2>1, <2>3, <2>5, <2>6, <2>7 DEF Brought
<1>11. Facts'
  <2>1. CASE Size - 1 >= ItemAt
    BY <1>2, <1>3, <1>4, <1>10, <2>1 DEF DocInv, Facts, ItemDomain
  <2>2. CASE ~ (Size - 1 >= ItemAt)
    <3>1. ~ (Size' >= ItemAt')
      BY <1>2, <1>4, <2>2 DEF ItemAt
    <3> QED  BY <3>1 DEF Facts
  <2> QED  BY <2>1, <2>2
<1>12. doc'.asked => Size' # 0
  BY <1>2, <1>3, <1>4
<1> QED  BY <1>4, <1>5, <1>7, <1>9, <1>11, <1>12 DEF DocInv

-----------------------------------------------------------------------------
(***************************************************************************)
(* Each token leaves the parser where the document is, and knowing of the  *)
(* item at hand what the item has said.                                    *)
(***************************************************************************)

Resting ==
    Place = IF Size = 0 THEN "IDLE"
            ELSE IF Size = 1 THEN (IF ItemAt = 2 THEN "LATEST_ARRAY" ELSE "QUERYRESULT_MAP")
            ELSE IF Size < ItemAt THEN "ITEMS_ARRAY"
            ELSE IF Size = ItemAt THEN "ITEM_MAP"
            ELSE IF Top.kind = "userdata" THEN "USERDATA_MAP" ELSE "IGNORE"

\* Where the parser rests between a value and the next key.
LEMMA InBetween == DocInv /\ doc.key = NULL => Resting
<1> SUFFICES ASSUME DocInv, doc.key = NULL
             PROVE  Resting
  OBVIOUS
<1>1. Depths
  BY DepthsHold DEF DocInv
<1>2. doc.key \notin ItemKeys /\ doc.key # "Items" /\ doc.key # PathKey
  BY NullAssumption DEF PathKey
<1>3. CASE Size = 0
  BY <1>1, <1>3 DEF Depths, Place, Resting
<1>4. CASE Size > 0
  <2>1. Place = At(Top.kind, doc.key) /\ Top.kind \in Kinds /\ Size # 0
    BY <1>1, <1>4 DEF Depths, Place
  <2>2. /\ Top.kind = "query" <=> Size = 1 /\ ItemAt = 3
        /\ Top.kind = "latest" <=> Size = 1 /\ ItemAt = 2
    BY <1>1, <1>4 DEF Depths, ItemAt
  <2>3. /\ Size \in Nat /\ ItemAt \in {2, 3}
        /\ Top.kind = "items" <=> Size = 2 /\ ItemAt = 3
        /\ Top.kind = "item" <=> Size = ItemAt
    BY <1>1, <1>4 DEF Depths
  <2>4. /\ Top.kind = "query" => At(Top.kind, doc.key) = "QUERYRESULT_MAP"
        /\ Top.kind = "latest" => At(Top.kind, doc.key) = "LATEST_ARRAY"
        /\ Top.kind = "items" => At(Top.kind, doc.key) = "ITEMS_ARRAY"
        /\ Top.kind = "item" => At(Top.kind, doc.key) = "ITEM_MAP"
        /\ Top.kind = "userdata" => At(Top.kind, doc.key) = "USERDATA_MAP"
        /\ Top.kind \in {"map", "array"} => At(Top.kind, doc.key) = "IGNORE"
    BY <1>2 DEF At
  <2> QED  BY <2>1, <2>2, <2>3, <2>4 DEF Kinds, Resting
<1> QED  BY <1>1, <1>3, <1>4 DEF Depths

LEMMA InBetweenPrimed == DocInv' /\ (doc.key = NULL)' => Resting'
  BY InBetween, PTL

\* Nothing is answered by a token, or nothing yet.
Quiet == UNCHANGED <<vars, tb, rejected, printed>> /\ doc'.expected = doc.expected

LEMMA QuietKeeps ==
  ASSUME DocInv, AnswerInv, Quiet, doc.stack # <<>>
  PROVE  AnswerInv'
<1>1. List("payload")' = List("payload")
  BY SameList DEF Quiet, vars, Caches
<1>2. count' = count /\ header' = header /\ body' = body /\ printed' = printed /\ tb' = tb
  BY DEF Quiet, vars
<1>3. \A n : GetItem("payload", n)' = GetItem("payload", n)
  BY <1>2 DEF GetItem
<1>4. tb.item_count = count["payload"]
  BY DEF AnswerInv, NumbersMatch
<1>5. printed = [n \in 1 .. count["payload"] |-> <<n, GetItem("payload", n).name>>]
  BY DEF AnswerInv, NumbersMatch
<1>6. printed' = [n \in 1 .. count'["payload"] |-> <<n, GetItem("payload", n)'.name>>]
  BY <1>2, <1>3, <1>5
<1> QED  BY <1>1, <1>2, <1>4, <1>6 DEF AnswerInv, NumbersMatch, Quiet

Before == DocInv /\ ParserInv /\ AnswerInv
Kept == DocInv' /\ ParserInv' /\ AnswerInv'

\* The item at hand, and what it has said, are as they were.
SameItem ==
    /\ (Size' >= ItemAt') <=> (Size >= ItemAt)
    /\ (Size' >= ItemAt' /\ ItemAt' = 2) <=> (Size >= ItemAt /\ ItemAt = 2)
    /\ doc'.facts = doc.facts /\ doc'.types = doc.types /\ doc'.expected = doc.expected

LEMMA DeclaredStays ==
  ASSUME SameItem
  PROVE  (IF Size >= ItemAt THEN Declared ELSE NoItem)' = IF Size >= ItemAt THEN Declared ELSE NoItem
<1>1. Declared' = Declared
  BY DEF SameItem, Declared
<1>2. (Size' >= ItemAt') <=> (Size >= ItemAt)
  BY DEF SameItem
<1> QED  BY <1>1, <1>2

LEMMA GoesKeeps ==
  ASSUME Before, DocInv', doc.stack # <<>>, NEW s, Goes(s), Place' = s, SameItem,
         s = "IGNORE" => Place = "IGNORE" /\ Size' = Size /\ ItemAt' = ItemAt
  PROVE  Kept
<1>1. AnswerInv'
  BY QuietKeeps DEF Before, Goes, Quiet, SameItem
<1>2. /\ parser_state' = s /\ ignoring' = ignoring /\ latest_array' = latest_array /\ item' = item
      /\ rejected' = rejected
  BY DEF Goes
<1>3. item' = (IF Size >= ItemAt THEN Declared ELSE NoItem)'
  BY <1>2, DeclaredStays DEF Before, ParserInv
<1>4. latest_array' \in BOOLEAN /\ (latest_array' <=> Size' >= ItemAt' /\ ItemAt' = 2)
  BY <1>2 DEF SameItem, Before, ParserInv
<1>5. ignoring' \in [resume : {"NO_STATE", "ITEM_MAP"}, maps : Int, arrays : Int] /\ ~ rejected'
  BY <1>2 DEF Before, ParserInv
<1>6. Place' = "IGNORE" =>
        ignoring'.resume = "ITEM_MAP" /\ ignoring'.maps + ignoring'.arrays = Size' - ItemAt'
  BY <1>2 DEF Before, ParserInv
<1> QED  BY <1>1, <1>2, <1>3, <1>4, <1>5, <1>6 DEF Kept, ParserInv

LEMMA IgnoredPlace ==
  ASSUME DocInv', (doc.key = NULL)', Size' >= ItemAt', Size' > ItemAt' => Top'.kind # "userdata"
  PROVE  /\ Size' \in Nat /\ ItemAt' \in {2, 3}
         /\ Size' > ItemAt' => Place' = "IGNORE"
         /\ Size' = ItemAt' => Place' = "ITEM_MAP"
<1>1. Size' \in Nat /\ ItemAt' \in {2, 3}
  BY DepthsPrimed DEF DocInv, Depths
<1>2. Resting'
  BY InBetweenPrimed
<1>3. Size' = ItemAt' => Place' = "ITEM_MAP"
  BY <1>1, <1>2 DEF Resting
<1>4. Size' > ItemAt' => Place' = "IGNORE"
  BY <1>1, <1>2 DEF Resting
<1> QED  BY <1>1, <1>3, <1>4

LEMMA IgnoresKeep ==
  ASSUME Before, DocInv', doc.stack # <<>>, NEW i \in [resume : {"NO_STATE", "ITEM_MAP"}, maps : Int, arrays : Int],
         Ignores(i), i.resume = "ITEM_MAP", i.maps + i.arrays = Size' - ItemAt',
         Size' >= ItemAt', Size >= ItemAt, ItemAt' = ItemAt, SameItem, (doc.key = NULL)',
         Size' > ItemAt' => Top'.kind # "userdata"
  PROVE  Kept
<1>1. AnswerInv'
  BY QuietKeeps DEF Before, Ignores, Quiet, SameItem
<1>2. /\ ignoring' = i /\ latest_array' = latest_array /\ item' = item /\ rejected' = rejected
      /\ parser_state' = IF i.maps + i.arrays > 0 THEN "IGNORE" ELSE "ITEM_MAP"
  BY DEF Ignores
<1>3. item' = (IF Size >= ItemAt THEN Declared ELSE NoItem)'
  BY <1>2, DeclaredStays DEF Before, ParserInv
<1>4. latest_array' \in BOOLEAN /\ (latest_array' <=> Size' >= ItemAt' /\ ItemAt' = 2)
  BY <1>2 DEF SameItem, Before, ParserInv
<1>5. ~ rejected'
  BY <1>2 DEF Before, ParserInv
<1>6. /\ Size' \in Nat /\ ItemAt' \in {2, 3}
      /\ Size' > ItemAt' => Place' = "IGNORE"
      /\ Size' = ItemAt' => Place' = "ITEM_MAP"
  BY IgnoredPlace
<1>7. parser_state' = Place'
  <2>1. CASE Size' > ItemAt'
    BY <1>2, <1>6, <2>1
  <2>2. CASE Size' = ItemAt'
    BY <1>2, <1>6, <2>2
  <2> QED  BY <1>6, <2>1, <2>2
<1> QED  BY <1>1, <1>2, <1>3, <1>4, <1>5, <1>7 DEF Kept, ParserInv

LEMMA FillKeeps ==
  ASSUME Before, DocInv', doc.stack # <<>>, NEW i, NEW back, Fill(i, back), Place' = back, back # "IGNORE",
         Size' = Size, ItemAt' = ItemAt, Size >= ItemAt, doc'.expected = doc.expected, i = Declared'
  PROVE  Kept
<1>1. AnswerInv'
  BY QuietKeeps DEF Before, Fill, Quiet
<1>2. /\ parser_state' = back /\ ignoring' = ignoring /\ latest_array' = latest_array /\ item' = i
      /\ rejected' = rejected
  BY DEF Fill
<1>3. latest_array' \in BOOLEAN /\ (latest_array' <=> Size' >= ItemAt' /\ ItemAt' = 2)
  BY <1>2 DEF Before, ParserInv
<1>4. ignoring' \in [resume : {"NO_STATE", "ITEM_MAP"}, maps : Int, arrays : Int] /\ ~ rejected'
  BY <1>2 DEF Before, ParserInv
<1> QED  BY <1>1, <1>2, <1>3, <1>4 DEF Kept, ParserInv

\* Where a container that has been opened, or closed, leaves the document.
LEMMA OpenedTo ==
  ASSUME DocInv, doc.stack # <<>>, NEW f \in [kind : Kinds, todo : SUBSET DocKeys],
         doc'.stack = Append(doc.stack, f), doc'.key = NULL
  PROVE  /\ Size \in Nat \ {0} /\ Size' = Size + 1 /\ ItemAt' = ItemAt /\ ItemAt \in {2, 3}
         /\ doc'.stack # <<>> /\ Top' = f /\ Place' = At(f.kind, NULL)
<1>1. Size \in Nat \ {0} /\ ItemAt \in {2, 3}
  BY DepthsHold DEF DocInv, Depths
<1>2. /\ Size' = Size + 1 /\ doc'.stack # <<>> /\ doc'.stack[Size + 1] = f
      /\ ItemAt' = IF Size > 0 THEN ItemAt ELSE IF f.kind = "latest" THEN 2 ELSE 3
  BY Opened
<1>3. ItemAt' = ItemAt
  BY <1>1, <1>2
<1>4. Place' = At(f.kind, NULL)
  BY <1>2 DEF Place
<1>5. Top' = f
  BY <1>2 DEF Top, Size, Last
<1> QED  BY <1>1, <1>2, <1>3, <1>4, <1>5

LEMMA ClosedTo ==
  ASSUME DocInv, DocInv', doc.stack # <<>>, doc'.stack = Front(doc.stack), doc'.key = NULL
  PROVE  /\ Size \in Nat \ {0} /\ Size' = Size - 1 /\ (Size' > 0 => ItemAt' = ItemAt)
         /\ ItemAt \in {2, 3} /\ ItemAt' \in {2, 3} /\ Resting'
         /\ Size' > 0 => Top' = doc.stack[Size - 1] /\ Size - 1 \in 1 .. Size
<1>1. Size \in Nat \ {0} /\ ItemAt \in {2, 3}
  BY DepthsHold DEF DocInv, Depths
<1>2. /\ Size' = Size - 1 /\ (Size' > 0 => ItemAt' = ItemAt)
      /\ \A j \in 1 .. Size - 1 : doc'.stack[j] = doc.stack[j]
  BY Closed
<1>3. Resting'
  BY InBetweenPrimed
<1>4. ItemAt' \in {2, 3} /\ (Size' > 0 => Top' = doc'.stack[Size'])
  BY DepthsPrimed DEF DocInv, Depths
<1> QED  BY <1>1, <1>2, <1>3, <1>4

LEMMA AtRest ==
  /\ At("query", NULL) = "QUERYRESULT_MAP" /\ At("query", "Other") = "QUERYRESULT_MAP"
  /\ At("query", "Items") = "Items"
  /\ \A k : At("latest", k) = "LATEST_ARRAY" /\ At("items", k) = "ITEMS_ARRAY"
  /\ At("item", NULL) = "ITEM_MAP" /\ At("item", "Other") = "ITEM_MAP"
  /\ \A k \in ItemKeys : At("item", k) = k
  /\ At("userdata", NULL) = "USERDATA_MAP" /\ At("userdata", "Other") = "USERDATA_MAP"
  /\ At("userdata", PathKey) = PathKey
  /\ \A k : At("map", k) = "IGNORE" /\ At("array", k) = "IGNORE"
<1>1. NULL \notin ItemKeys /\ NULL # "Items" /\ NULL # PathKey
  BY NullAssumption DEF PathKey
<1>2. "Other" \notin ItemKeys /\ PathKey # "Other"
  BY DEF ItemKeys, StringKeys, NumberKeys, TypeKeys, PathKey
<1> QED  BY <1>1, <1>2 DEF At

LEMMA PlaceIs ==
  ASSUME Before, doc.stack # <<>>
  PROVE  /\ parser_state = At(Top.kind, doc.key) /\ Place = parser_state /\ Depths /\ DocInv /\ ParserInv
         /\ Size \in Nat \ {0} /\ ItemAt \in {2, 3} /\ Top.kind \in Kinds
<1>1. Depths /\ DocInv /\ ParserInv
  BY DepthsHold DEF DocInv, Before
<1> QED  BY <1>1 DEF Depths, Place, ParserInv

LEMMA TokStartItems ==
  ASSUME Before, StartItems
  PROVE  Kept
<1>1. /\ doc.stack # <<>> /\ Top.kind = "query" /\ doc.key = "Items" /\ jf_sax_items_start_array
      /\ doc' = Open(Frame("items", {}))
  BY DEF StartItems, ValueDue
<1>2. parser_state = "Items" /\ Place = "Items" /\ DocInv /\ ParserInv /\ Depths
  BY <1>1, PlaceIs, AtRest
<1>3. Goes("ITEMS_ARRAY")
  BY <1>1, <1>2 DEF jf_sax_items_start_array
<1>4. DocInv'
  BY <1>1, <1>2, DocStartsItems
<1>5. /\ Size' = Size + 1 /\ ItemAt' = ItemAt /\ Place' = "ITEMS_ARRAY"
  <2>1. Frame("items", {}) \in [kind : Kinds, todo : SUBSET DocKeys] /\ Frame("items", {}).kind = "items"
    BY DEF Frame, Kinds
  <2>2. doc'.stack = Append(doc.stack, Frame("items", {})) /\ doc'.key = NULL
    BY <1>1, <1>2 DEF Open, DocInv, DocTypes
  <2> QED  BY <1>1, <1>2, <2>1, <2>2, OpenedTo, AtRest
<1>6. SameItem
  <2>1. Size = 1 /\ ItemAt = 3
    BY <1>1, <1>2 DEF Depths, ItemAt
  <2>2. doc'.facts = doc.facts /\ doc'.types = doc.types /\ doc'.expected = doc.expected
    BY <1>1, <1>2 DEF Open, DocInv, DocTypes
  <2> QED  BY <1>5, <2>1, <2>2 DEF SameItem
<1> QED  BY <1>1, <1>3, <1>4, <1>5, <1>6, GoesKeeps

LEMMA TokStartUserData ==
  ASSUME Before, StartUserData
  PROVE  Kept
<1> DEFINE f == Frame("userdata", DOMAIN doc.shape \cap {PathKey, "Other"})
<1>1. /\ doc.stack # <<>> /\ Top.kind = "item" /\ doc.key = "UserData" /\ jf_sax_items_start_map
      /\ doc' = Open(f)
  BY DEF StartUserData, ValueDue, PathKey
<1>2. parser_state = "UserData" /\ Place = "UserData" /\ DocInv /\ ParserInv /\ Depths
  BY <1>1, PlaceIs, AtRest DEF ItemKeys
<1>3. Goes("USERDATA_MAP")
  BY <1>1, <1>2 DEF jf_sax_items_start_map
<1>4. DocInv'
  BY <1>1, <1>2, DocStartsUserData
<1>5. f \in [kind : Kinds, todo : SUBSET DocKeys] /\ f.kind = "userdata"
  BY DEF Frame, Kinds, DocKeys
<1>6. doc'.stack = Append(doc.stack, f) /\ doc'.key = NULL
      /\ doc'.facts = doc.facts /\ doc'.types = doc.types /\ doc'.expected = doc.expected
  BY <1>1, <1>2 DEF Open, DocInv, DocTypes
<1> HIDE DEF f
<1>7. /\ Size' = Size + 1 /\ ItemAt' = ItemAt /\ Place' = "USERDATA_MAP"
  BY <1>1, <1>2, <1>5, <1>6, OpenedTo, AtRest
<1>8. Size = ItemAt /\ Size \in Nat
  BY <1>1, <1>2 DEF Depths
<1>9. SameItem
  BY <1>6, <1>7, <1>8 DEF SameItem
<1> QED  BY <1>1, <1>3, <1>4, <1>7, <1>9, GoesKeeps

LEMMA TokStartItem ==
  ASSUME Before, StartItem
  PROVE  Kept
<1>1. /\ doc.stack # <<>> /\ Top.kind \in {"items", "latest"} /\ doc.serial < Len(Tags)
      /\ jf_sax_items_start_map /\ \E s \in Shapes : Starts(s)
  BY DEF StartItem, ValueDue, Starts, PathKey
<1>2. /\ parser_state = (IF Top.kind = "items" THEN "ITEMS_ARRAY" ELSE "LATEST_ARRAY")
      /\ DocInv /\ ParserInv /\ Depths /\ AnswerInv
  BY <1>1, PlaceIs, AtRest DEF Before
<1>3. PICK s \in Shapes : Starts(s)
  BY <1>1
<1>4. doc.serial + 1 \in Serials
  <2>1. Len(Tags) \in Nat
    BY TagsAssumption, LenProperties
  <2>2. doc.serial \in Serials \cup {0}
    BY <1>2 DEF DocInv, DocTypes
  <2> QED  BY <1>1, <2>1, <2>2 DEF Serials
<1>5. DocInv'
  BY <1>1, <1>2, <1>3, <1>4, DocStartsItem
<1> DEFINE f == Frame("item", DOMAIN s \ {PathKey})
<1>6. f \in [kind : Kinds, todo : SUBSET DocKeys] /\ f.kind = "item"
  BY ShapesAssumption DEF Frame, Kinds, DocKeys, PathKey
<1>7. /\ doc'.stack = Append(doc.stack, f) /\ doc'.key = NULL /\ doc'.expected = doc.expected
      /\ doc'.facts = NoDoc.facts /\ doc'.types = NoDoc.types
  BY <1>2, <1>3 DEF Starts, Open, DocInv, DocTypes
<1> HIDE DEF f
<1>8. Size' = Size + 1 /\ ItemAt' = ItemAt /\ Place' = "ITEM_MAP"
  BY <1>1, <1>2, <1>6, <1>7, OpenedTo, AtRest
<1>9. Size + 1 = ItemAt /\ Size \in Nat /\ (ItemAt = 2 <=> Top.kind = "latest")
  BY <1>1, <1>2 DEF Depths, ItemAt
<1>10. /\ parser_state' = "ITEM_MAP" /\ latest_array' = (IF Top.kind = "latest" THEN TRUE ELSE latest_array)
       /\ UNCHANGED <<vars, ignoring, item, tb, rejected, printed>>
  BY <1>1, <1>2 DEF jf_sax_items_start_map, Goes
<1>11. AnswerInv'
  BY <1>1, <1>2, <1>7, <1>10, QuietKeeps DEF Quiet
<1>12. item = NoItem /\ ~ rejected /\ ignoring \in [resume : {"NO_STATE", "ITEM_MAP"}, maps : Int, arrays : Int]
       /\ latest_array = FALSE
  BY <1>2, <1>9 DEF ParserInv
<1>13. Declared' = NoItem
  <2>1. Declared' = [type |-> TypeSaid(NoDoc.types), field |-> NoDoc.facts]
    BY <1>7 DEF Declared
  <2>2. NoDoc.types["Type"] = Absent /\ NoDoc.types["CollectionType"] = Absent
    BY DEF NoDoc, TypeKeys
  <2>3. TypeSaid(NoDoc.types) = "NONE"
    BY <2>2, Untold DEF TypeSaid
  <2> QED  BY <2>1, <2>3 DEF NoDoc, NoItem
<1>14. ParserInv'
  <2>1. Size' >= ItemAt'
    BY <1>8, <1>9
  <2>2. item' = (IF Size >= ItemAt THEN Declared ELSE NoItem)'
    BY <1>10, <1>12, <1>13, <2>1
  <2>3. latest_array' \in BOOLEAN /\ (latest_array' <=> Size' >= ItemAt' /\ ItemAt' = 2)
    BY <1>1, <1>8, <1>9, <1>10, <1>12, <2>1
  <2> QED  BY <1>8, <1>10, <1>12, <2>2, <2>3 DEF ParserInv
<1> QED  BY <1>5, <1>11, <1>14 DEF Kept

LEMMA IgnoringStarts ==
  /\ [StartIgnoring EXCEPT !.maps = 1] \in [resume : {"NO_STATE", "ITEM_MAP"}, maps : Int, arrays : Int]
  /\ [StartIgnoring EXCEPT !.arrays = 1] \in [resume : {"NO_STATE", "ITEM_MAP"}, maps : Int, arrays : Int]
  /\ [StartIgnoring EXCEPT !.maps = 1].resume = "ITEM_MAP"
  /\ [StartIgnoring EXCEPT !.maps = 1].maps + [StartIgnoring EXCEPT !.maps = 1].arrays = 1
  /\ [StartIgnoring EXCEPT !.arrays = 1].resume = "ITEM_MAP"
  /\ [StartIgnoring EXCEPT !.arrays = 1].maps + [StartIgnoring EXCEPT !.arrays = 1].arrays = 1
<1>1. StartIgnoring = [resume |-> "ITEM_MAP", maps |-> 0, arrays |-> 0]
  BY DEF StartIgnoring, NotIgnoring
<1>2. [StartIgnoring EXCEPT !.maps = 1] = [resume |-> "ITEM_MAP", maps |-> 1, arrays |-> 0]
  BY <1>1
<1>3. [StartIgnoring EXCEPT !.arrays = 1] = [resume |-> "ITEM_MAP", maps |-> 0, arrays |-> 1]
  BY <1>1
<1>4. \A m, n \in Int : LET r == [resume |-> "ITEM_MAP", maps |-> m, arrays |-> n] IN
        r \in [resume : {"NO_STATE", "ITEM_MAP"}, maps : Int, arrays : Int] /\ r.resume = "ITEM_MAP" /\ r.maps = m /\ r.arrays = n
  OBVIOUS
<1> QED  BY <1>2, <1>3, <1>4

LEMMA TokStartNested ==
  ASSUME Before, StartNested
  PROVE  Kept
<1>1. doc.stack # <<>> /\ Nested
  BY DEF StartNested, ValueDue
<1>2. /\ parser_state = (IF Top.kind = "item" THEN "ITEM_MAP" ELSE "IGNORE")
      /\ Place = parser_state /\ DocInv /\ ParserInv /\ Depths /\ (Top.kind = "item" \/ Top.kind \in {"map", "array"})
  BY <1>1, PlaceIs, AtRest DEF Nested
<1>3. PICK f : /\ doc' = Open(f)
               /\ \/ f = Frame("map", {"Name", "Other"}) /\ jf_sax_items_start_map
                  \/ f = Frame("array", {}) /\ jf_sax_items_start_array
  BY DEF StartNested
<1>4. /\ f \in [kind : Kinds, todo : SUBSET DocKeys] /\ f.kind \in {"map", "array"}
  BY <1>3 DEF Frame, Kinds, DocKeys, ItemKeys, StringKeys
<1>5. DocInv'
  BY <1>1, <1>2, <1>3, DocStartsNested
<1>6. /\ doc'.stack = Append(doc.stack, f) /\ doc'.key = NULL
      /\ doc'.facts = doc.facts /\ doc'.types = doc.types /\ doc'.expected = doc.expected
  BY <1>2, <1>3 DEF Open, DocInv, DocTypes
<1>7. Size' = Size + 1 /\ ItemAt' = ItemAt /\ Top' = f /\ Size \in Nat /\ ItemAt \in {2, 3}
  BY <1>1, <1>2, <1>4, <1>6, OpenedTo
<1>8. Size >= ItemAt /\ (Top.kind = "item" <=> Size = ItemAt)
  BY <1>1, <1>2 DEF Depths
<1>9. SameItem
  BY <1>6, <1>7, <1>8 DEF SameItem
<1>10. \E i \in [resume : {"NO_STATE", "ITEM_MAP"}, maps : Int, arrays : Int] :
          Ignores(i) /\ i.resume = "ITEM_MAP" /\ i.maps + i.arrays = Size' - ItemAt'
  <2>1. CASE Top.kind = "item"
    <3>1. Ignores([StartIgnoring EXCEPT !.maps = 1]) \/ Ignores([StartIgnoring EXCEPT !.arrays = 1])
      BY <1>2, <1>3, <2>1 DEF jf_sax_items_start_map, jf_sax_items_start_array
    <3>3. Size' - ItemAt' = 1
      BY <1>7, <1>8, <2>1
    <3> QED  BY <3>1, <3>3, IgnoringStarts
  <2>2. CASE Top.kind # "item"
    <3>1. Ignores([ignoring EXCEPT !.maps = @ + 1]) \/ Ignores([ignoring EXCEPT !.arrays = @ + 1])
      BY <1>2, <1>3, <2>2 DEF jf_sax_items_start_map, jf_sax_items_start_array
    <3>2. ignoring \in [resume : {"NO_STATE", "ITEM_MAP"}, maps : Int, arrays : Int] /\ ignoring.resume = "ITEM_MAP"
          /\ ignoring.maps + ignoring.arrays = Size - ItemAt
      BY <1>2, <2>2 DEF ParserInv
    <3>3. \A i \in {[ignoring EXCEPT !.maps = @ + 1], [ignoring EXCEPT !.arrays = @ + 1]} :
            i \in [resume : {"NO_STATE", "ITEM_MAP"}, maps : Int, arrays : Int] /\ i.resume = "ITEM_MAP"
            /\ i.maps + i.arrays = Size - ItemAt + 1
      BY <1>7, <3>2
    <3>4. Size' - ItemAt' = Size - ItemAt + 1
      BY <1>7
    <3> QED  BY <3>1, <3>3, <3>4
  <2> QED  BY <2>1, <2>2
<1>11. Size' >= ItemAt' /\ Top'.kind # "userdata"
  BY <1>4, <1>7, <1>8
<1>12. (doc.key = NULL)'
  BY <1>6
<1> QED  BY <1>1, <1>5, <1>7, <1>8, <1>9, <1>10, <1>11, <1>12, IgnoresKeep

\* What is none of the item's is skipped.
LEMMA Skipped ==
  ASSUME Before, doc.stack # <<>>, doc.key \in {"Other", NULL} \/ Top.kind \in {"map", "array"},
         doc' = [doc EXCEPT !.key = NULL], Goes(parser_state)
  PROVE  Kept
<1>1. DocInv /\ Depths /\ Place = At(Top.kind, doc.key) /\ Place = parser_state /\ Top.kind \in Kinds
  BY PlaceIs
<1>2. DocInv'
  BY <1>1, DocSkips
<1>3. /\ doc'.stack = doc.stack /\ doc'.key = NULL
      /\ doc'.facts = doc.facts /\ doc'.types = doc.types /\ doc'.expected = doc.expected
  BY <1>1 DEF DocInv, DocTypes
<1>4. Size' = Size /\ ItemAt' = ItemAt
  BY <1>3 DEF Size, ItemAt
<1>5. At(Top.kind, NULL) = At(Top.kind, doc.key)
  <2>1. CASE Top.kind \in {"map", "array"}
    BY <2>1, AtRest
  <2>2. CASE doc.key = "Other"
    <3>1. CASE Top.kind = "query"
      BY <2>2, <3>1, AtRest
    <3>2. CASE Top.kind \in {"latest", "items"}
      BY <3>2, AtRest
    <3>3. CASE Top.kind = "item"
      BY <2>2, <3>3, AtRest
    <3>4. CASE Top.kind = "userdata"
      BY <2>2, <3>4, AtRest
    <3> QED  BY <1>1, <2>1, <3>1, <3>2, <3>3, <3>4 DEF Kinds
  <2>3. CASE doc.key = NULL
    BY <2>3
  <2> QED  BY <2>1, <2>2, <2>3
<1>6. Top = doc.stack[Size]
  BY <1>1 DEF Depths
<1>7. Place' = parser_state
  BY <1>1, <1>3, <1>4, <1>5, <1>6 DEF Place
<1>8. SameItem
  BY <1>3, <1>4 DEF SameItem
<1> QED  BY <1>1, <1>2, <1>4, <1>7, <1>8, GoesKeeps

\* The callbacks of values skip where the parser waits for none.
LEMMA NotWaiting ==
  ASSUME Before, doc.stack # <<>>, doc.key = "Other" \/ Nested, ValueDue
  PROVE  /\ parser_state \notin StringKeys \cup NumberKeys \cup TypeKeys \cup {PathKey}
         /\ doc.key \in {"Other", NULL} \/ Top.kind \in {"map", "array"}
<1>1. parser_state = At(Top.kind, doc.key) /\ Top.kind \in Kinds
  BY PlaceIs
<1>2. doc.key = "Other" \/ Top.kind \in {"map", "array"}
  BY DEF Nested
<1>3. parser_state \in {"QUERYRESULT_MAP", "LATEST_ARRAY", "ITEMS_ARRAY", "ITEM_MAP", "USERDATA_MAP", "IGNORE"}
  BY <1>1, <1>2, AtRest DEF Kinds
<1> QED  BY <1>2, <1>3 DEF StringKeys, NumberKeys, TypeKeys, PathKey

\* The item takes what it has said of itself.
LEMMA TakesField ==
  ASSUME Before, doc.stack # <<>>, NEW k \in FieldKeys, Speaks(k), doc' = Saying(k), NEW back,
         back = (IF k = PathKey THEN "USERDATA_MAP" ELSE "ITEM_MAP"),
         Fill([item EXCEPT !.field[k] = TextOf(doc.shape, doc.serial, k)], back)
  PROVE  Kept
<1>1. DocInv /\ ParserInv /\ Depths /\ Size \in Nat \ {0} /\ ItemAt \in {2, 3} /\ Top = doc.stack[Size]
  BY PlaceIs DEF Depths
<1>2. DocInv'
  BY <1>1, DocSaysField
<1>3. /\ doc'.stack = doc.stack /\ doc'.key = NULL /\ doc'.types = doc.types /\ doc'.expected = doc.expected
      /\ doc'.facts = [doc.facts EXCEPT ![k] = TextOf(doc.shape, doc.serial, k)]
  BY <1>1 DEF Saying, DocInv, DocTypes
<1>4. Size' = Size /\ ItemAt' = ItemAt
  BY <1>3 DEF Size, ItemAt
<1>5. Size >= ItemAt
  BY <1>1 DEF Speaks
<1>6. Place' = back
  <2>1. Place' = At(doc.stack[Size].kind, NULL)
    BY <1>3, <1>4 DEF Place
  <2>2. CASE k = PathKey
    BY <2>1, <2>2, AtRest DEF Speaks
  <2>3. CASE k # PathKey
    <3>1. Size = ItemAt
      BY <2>3 DEF Speaks
    <3>2. doc.stack[Size].kind = "item"
      BY <1>1, <3>1 DEF Depths
    <3> QED  BY <2>1, <2>3, <3>2, AtRest
  <2> QED  BY <2>2, <2>3
<1>7. item = [type |-> TypeSaid(doc.types), field |-> doc.facts]
  BY <1>1, <1>5 DEF ParserInv, Declared
<1>8. [item EXCEPT !.field[k] = TextOf(doc.shape, doc.serial, k)] = Declared'
  BY <1>3, <1>7 DEF Declared
<1> QED  BY <1>2, <1>3, <1>4, <1>5, <1>6, <1>8, FillKeeps

LEMMA TakesType ==
  ASSUME OrderFree, Before, doc.stack # <<>>, NEW k \in TypeKeys, Speaks(k),
         doc' = [doc EXCEPT !.key = NULL, !.types[k] = doc.shape[k]], NEW type,
         type = (IF k = "Type" THEN TypeAfter(item.type, doc.shape[k]) ELSE CollectionAfter(item.type, doc.shape[k])),
         Fill([item EXCEPT !.type = type], "ITEM_MAP")
  PROVE  Kept
<1>1. DocInv /\ ParserInv /\ Depths /\ Size \in Nat \ {0} /\ ItemAt \in {2, 3} /\ Top = doc.stack[Size]
  BY PlaceIs DEF Depths
<1>2. DocInv'
  BY <1>1, DocSaysType
<1>3. /\ doc'.stack = doc.stack /\ doc'.key = NULL /\ doc'.facts = doc.facts /\ doc'.expected = doc.expected
      /\ doc'.types = [doc.types EXCEPT ![k] = doc.shape[k]] /\ doc.types \in [TypeKeys -> Texts]
  BY <1>1 DEF DocInv, DocTypes
<1>4. Size' = Size /\ ItemAt' = ItemAt
  BY <1>3 DEF Size, ItemAt
<1>5. Size = ItemAt
  BY DEF Speaks, TypeKeys, PathKey
<1>6. Place' = "ITEM_MAP"
  <2>1. Place' = At(doc.stack[Size].kind, NULL)
    BY <1>3, <1>4 DEF Place
  <2>2. doc.stack[Size].kind = "item"
    BY <1>1, <1>5 DEF Depths
  <2> QED  BY <2>1, <2>2, AtRest
<1>7. item = [type |-> TypeSaid(doc.types), field |-> doc.facts]
  BY <1>1, <1>5 DEF ParserInv, Declared
<1>8. doc.shape \in Shapes /\ k \in DOMAIN doc.shape /\ k \notin Brought
      /\ \A m \in TypeKeys : doc.types[m] = IF m \in Brought THEN doc.shape[m] ELSE Absent
  <2>1. Valued
    BY <1>1, <1>3 DEF Valued, DocInv, DocTypes
  <2>2. doc.shape \in Shapes /\ k \in DOMAIN doc.shape
    BY <1>1, <2>1, KeyBrought DEF ItemDomain
  <2>3. k \in Due
    BY <1>5 DEF Due, Speaks
  <2> QED  BY <1>1, <1>5, <2>2, <2>3 DEF Brought, DocInv, Facts
<1>9. Brought \subseteq DOMAIN doc.shape
  BY DEF Brought
<1>10. type = TypeSaid(doc'.types)
  <2>1. CASE k = "Type"
    <3>1. doc.types["Type"] = Absent /\ doc'.types["Type"] = doc.shape["Type"]
          /\ doc'.types["CollectionType"] = doc.types["CollectionType"]
      BY <1>3, <1>8, <2>1 DEF TypeKeys
    <3>2. TypeSaid(doc.types) = CollectionAfter("NONE", doc.types["CollectionType"])
      BY <3>1, Untold DEF TypeSaid
    <3>3. CASE doc.types["CollectionType"] = Absent
      BY <1>7, <2>1, <3>1, <3>2, <3>3, Untold DEF TypeSaid
    <3>4. CASE doc.types["CollectionType"] # Absent
      <4>1. doc.types["CollectionType"] = doc.shape["CollectionType"] /\ TypeKeys \subseteq DOMAIN doc.shape
        BY <1>8, <1>9, <2>1, <3>4 DEF TypeKeys
      <4> QED  BY <1>7, <1>8, <2>1, <3>1, <3>2, <4>1 DEF TypeSaid, OrderFree
    <3> QED  BY <3>3, <3>4
  <2>2. CASE k = "CollectionType"
    <3>1. doc.types["CollectionType"] = Absent /\ doc'.types["CollectionType"] = doc.shape["CollectionType"]
          /\ doc'.types["Type"] = doc.types["Type"]
      BY <1>3, <1>8, <2>2 DEF TypeKeys
    <3>2. TypeSaid(doc.types) = TypeAfter("NONE", doc.types["Type"])
      BY <3>1, Untold DEF TypeSaid
    <3> QED  BY <1>7, <2>2, <3>1, <3>2 DEF TypeSaid
  <2> QED  BY <2>1, <2>2 DEF TypeKeys
<1>11. [item EXCEPT !.type = type] = Declared'
  BY <1>3, <1>7, <1>10 DEF Declared
<1> QED  BY <1>1, <1>2, <1>3, <1>4, <1>5, <1>6, <1>11, FillKeeps

LEMMA TokStringValue ==
  ASSUME OrderFree, Before, StringValue
  PROVE  Kept
<1>1. doc.stack # <<>> /\ ValueDue
  BY DEF StringValue, ValueDue
<1>2. parser_state = At(Top.kind, doc.key) /\ Depths
  BY <1>1, PlaceIs
<1>3. /\ StringKeys \cap TypeKeys = {} /\ StringKeys \cup TypeKeys \subseteq ItemKeys /\ StringKeys \subseteq FieldKeys
      /\ PathKey \notin StringKeys \cup TypeKeys
  BY DEF StringKeys, TypeKeys, ItemKeys, FieldKeys, PathKey
<1>4. Top.kind = "item" => Size = ItemAt
  BY <1>1, <1>2 DEF Depths
<1>5. CASE /\ Top.kind = "item" /\ doc.key \in StringKeys
           /\ jf_sax_items_string(TextOf(doc.shape, doc.serial, doc.key)) /\ doc' = Saying(doc.key)
  <2>1. parser_state = doc.key
    BY <1>2, <1>3, <1>5, AtRest
  <2>2. Fill([item EXCEPT !.field[doc.key] = TextOf(doc.shape, doc.serial, doc.key)], "ITEM_MAP")
    <3> DEFINE text == TextOf(doc.shape, doc.serial, doc.key)
    <3>1. parser_state \in StringKeys /\ parser_state # "Type" /\ parser_state # "CollectionType"
      BY <1>3, <1>5, <2>1 DEF TypeKeys
    <3>2. jf_sax_items_string(text)
      BY <1>5
    <3> HIDE DEF text
    <3>3. Fill([item EXCEPT !.field[parser_state] = text], "ITEM_MAP")
      BY <3>1, <3>2 DEF jf_sax_items_string
    <3> QED  BY <2>1, <3>3 DEF text
  <2>3. Speaks(doc.key)
    BY <1>3, <1>4, <1>5 DEF Speaks, ItemDomain
  <2> QED  BY <1>1, <1>3, <1>5, <2>2, <2>3, TakesField
<1>6. CASE /\ Top.kind = "item" /\ doc.key \in TypeKeys /\ jf_sax_items_string(doc.shape[doc.key])
           /\ doc' = [doc EXCEPT !.key = NULL, !.types[doc.key] = doc.shape[doc.key]]
  <2>1. parser_state = doc.key /\ doc.key \notin StringKeys
    BY <1>2, <1>3, <1>6, AtRest
  <2>2. Speaks(doc.key)
    BY <1>3, <1>4, <1>6 DEF Speaks, ItemDomain
  <2>3. CASE doc.key = "Type"
    <3>1. Fill([item EXCEPT !.type = TypeAfter(item.type, doc.shape[doc.key])], "ITEM_MAP")
      BY <1>6, <2>1, <2>3 DEF jf_sax_items_string
    <3> QED  BY <1>1, <1>6, <2>2, <2>3, <3>1, TakesType
  <2>4. CASE doc.key = "CollectionType"
    <3>1. Fill([item EXCEPT !.type = CollectionAfter(item.type, doc.shape[doc.key])], "ITEM_MAP")
      BY <1>6, <2>1, <2>4 DEF jf_sax_items_string
    <3> QED  BY <1>1, <1>6, <2>2, <2>4, <3>1, TakesType
  <2> QED  BY <1>6, <2>3, <2>4 DEF TypeKeys
<1>7. CASE (doc.key = "Other" \/ Nested) /\ jf_sax_items_string(Foreign) /\ doc' = [doc EXCEPT !.key = NULL]
  <2>1. /\ parser_state \notin StringKeys \cup NumberKeys \cup TypeKeys \cup {PathKey}
        /\ doc.key \in {"Other", NULL} \/ Top.kind \in {"map", "array"}
    BY <1>1, <1>7, NotWaiting
  <2>2. Goes(parser_state)
    BY <1>7, <2>1 DEF jf_sax_items_string, TypeKeys
  <2> QED  BY <1>1, <1>7, <2>1, <2>2, Skipped
<1> QED  BY <1>5, <1>6, <1>7 DEF StringValue

LEMMA TokNumberValue ==
  ASSUME Before, NumberValue
  PROVE  Kept
<1>1. doc.stack # <<>> /\ ValueDue
  BY DEF NumberValue, ValueDue
<1>2. parser_state = At(Top.kind, doc.key) /\ Depths /\ Top = doc.stack[Size]
  BY <1>1, PlaceIs DEF Depths
<1>3. /\ NumberKeys \subseteq ItemKeys /\ NumberKeys \cup {PathKey} \subseteq FieldKeys /\ PathKey \notin NumberKeys
  BY DEF NumberKeys, ItemKeys, FieldKeys, PathKey
<1>4. CASE /\ Top.kind = "item" /\ doc.key \in NumberKeys
           /\ jf_sax_items_number(TextOf(doc.shape, doc.serial, doc.key)) /\ doc' = Saying(doc.key)
  <2>1. parser_state = doc.key
    BY <1>2, <1>3, <1>4, AtRest
  <2>2. Fill([item EXCEPT !.field[doc.key] = TextOf(doc.shape, doc.serial, doc.key)], "ITEM_MAP")
    BY <1>3, <1>4, <2>1 DEF jf_sax_items_number, PathKey
  <2>3. Size = ItemAt
    BY <1>1, <1>2, <1>4 DEF Depths
  <2>4. Speaks(doc.key)
    BY <1>3, <1>4, <2>3 DEF Speaks, ItemDomain
  <2> QED  BY <1>1, <1>3, <1>4, <2>2, <2>4, TakesField
<1>5. CASE /\ Top.kind = "userdata" /\ doc.key = PathKey
           /\ jf_sax_items_number(TextOf(doc.shape, doc.serial, doc.key)) /\ doc' = Saying(doc.key)
  <2>1. parser_state = PathKey
    BY <1>2, <1>5, AtRest
  <2>2. Fill([item EXCEPT !.field[doc.key] = TextOf(doc.shape, doc.serial, doc.key)], "USERDATA_MAP")
    BY <1>3, <1>5, <2>1 DEF jf_sax_items_number, PathKey
  <2>3. Size = ItemAt + 1
    BY <1>1, <1>2, <1>5 DEF Depths
  <2>4. Speaks(doc.key)
    BY <1>2, <1>5, <2>3 DEF Speaks
  <2> QED  BY <1>1, <1>3, <1>5, <2>2, <2>4, TakesField
<1>6. CASE (doc.key = "Other" \/ Nested) /\ jf_sax_items_number(Foreign) /\ doc' = [doc EXCEPT !.key = NULL]
  <2>1. /\ parser_state \notin StringKeys \cup NumberKeys \cup TypeKeys \cup {PathKey}
        /\ doc.key \in {"Other", NULL} \/ Top.kind \in {"map", "array"}
    BY <1>1, <1>6, NotWaiting
  <2>2. Goes(parser_state)
    BY <1>6, <2>1 DEF jf_sax_items_number, PathKey
  <2> QED  BY <1>1, <1>6, <2>1, <2>2, Skipped
<1> QED  BY <1>4, <1>5, <1>6 DEF NumberValue, PathKey

LEMMA TokNullValue ==
  ASSUME NoNulls, Before, NullValue
  PROVE  Kept
<1>1. doc.stack # <<>> /\ ValueDue /\ (doc.key = "Other" \/ Nested) /\ doc' = [doc EXCEPT !.key = NULL]
  BY DEF NullValue, ValueDue, NoNulls
<1>2. Goes(parser_state)
  BY DEF NullValue, Goes, context
<1>3. doc.key \in {"Other", NULL} \/ Top.kind \in {"map", "array"}
  BY <1>1, NotWaiting
<1> QED  BY <1>1, <1>2, <1>3, Skipped

LEMMA TokMapKey ==
  ASSUME Before, MapKey
  PROVE  Kept
<1>1. Sending /\ IsMap(Top) /\ doc.key = NULL
  BY DEF MapKey
<1>2. doc.stack # <<>>
  BY <1>1 DEF IsMap, Top, Frame
<1>3. /\ parser_state = At(Top.kind, NULL) /\ Place = parser_state /\ DocInv /\ Depths /\ Top.kind \in Kinds
      /\ Size \in Nat \ {0} /\ Top = doc.stack[Size]
  BY <1>1, <1>2, PlaceIs DEF Depths
<1>4. PICK k \in Top.todo : jf_sax_items_map_key(k) /\ doc' = [doc EXCEPT !.key = k, !.stack[Len(doc.stack)].todo = @ \ {k}]
  BY DEF MapKey
<1>5. DocInv'
  BY <1>1, <1>3, <1>4, DocNamesKey
<1> DEFINE f == [doc.stack[Size] EXCEPT !.todo = @ \ {k}]
<1>6. /\ doc'.stack = [doc.stack EXCEPT ![Size] = f] /\ doc'.key = k
      /\ doc'.facts = doc.facts /\ doc'.types = doc.types /\ doc'.expected = doc.expected
  BY <1>3, <1>4 DEF DocInv, DocTypes, Size
<1>7. f.kind = Top.kind
  <2>1. doc.stack[Size] \in [kind : Kinds, todo : SUBSET DocKeys]
    BY <1>3 DEF Depths
  <2> QED  BY <1>3, <2>1
<1> HIDE DEF f
<1>8. Size' = Size /\ \A j \in 1 .. Size : doc'.stack[j] = IF j = Size THEN f ELSE doc.stack[j]
  <2>1. doc.stack \in Seq([kind : Kinds, todo : SUBSET DocKeys])
    BY <1>3 DEF DocInv, DocTypes
  <2> QED  BY <1>3, <1>6, <2>1, ExceptSeq DEF Size
<1>9. doc'.stack # <<>> /\ doc'.stack[Size] = f
  <2>1. Size' # 0 => doc'.stack # <<>>
    BY EmptySeq DEF Size
  <2> QED  BY <1>3, <1>8, <2>1
<1>10. ItemAt' = ItemAt
  <2>1. doc'.stack[1].kind = doc.stack[1].kind
    BY <1>3, <1>7, <1>8
  <2> QED  BY <1>2, <1>9, <2>1 DEF ItemAt
<1>11. Place' = At(Top.kind, k)
  BY <1>6, <1>7, <1>8, <1>9 DEF Place
<1>12. SameItem
  BY <1>6, <1>8, <1>10 DEF SameItem
<1>13. k \in KeysOf(Top.kind) /\ Top.kind \in {"query", "item", "userdata", "map"}
  BY <1>1, <1>3, <1>4 DEF DocInv, Keys, IsMap
<1>14. Goes(At(Top.kind, k))
  <2>1. CASE Top.kind = "query"
    <3>1. k \in {"Items", "Other"} /\ parser_state = "QUERYRESULT_MAP"
      BY <1>3, <1>13, <2>1, AtRest DEF KeysOf
    <3>2. Goes(IF k = "Items" THEN "Items" ELSE "QUERYRESULT_MAP")
      BY <1>4, <3>1 DEF jf_sax_items_map_key
    <3> QED  BY <2>1, <3>1, <3>2, AtRest
  <2>2. CASE Top.kind = "item"
    <3>1. k \in ItemKeys \cup {"Other"} /\ parser_state = "ITEM_MAP"
      <4>1. doc.shape \in Shapes
        BY <1>3, <2>2 DEF DocInv, Nesting, Depths
      <4> QED  BY <1>3, <1>13, <2>2, <4>1, ShapesAssumption, AtRest DEF KeysOf, PathKey
    <3>2. Goes(IF k \in ItemKeys THEN k ELSE "ITEM_MAP")
      BY <1>4, <3>1 DEF jf_sax_items_map_key
    <3> QED  BY <2>2, <3>1, <3>2, AtRest
  <2>3. CASE Top.kind = "userdata"
    <3>1. k \in {PathKey, "Other"} /\ parser_state = "USERDATA_MAP"
      BY <1>3, <1>13, <2>3, AtRest DEF KeysOf
    <3>2. Goes(IF k = PathKey THEN k ELSE "USERDATA_MAP")
      BY <1>4, <3>1 DEF jf_sax_items_map_key, PathKey
    <3> QED  BY <2>3, <3>1, <3>2, AtRest
  <2>4. CASE Top.kind = "map"
    <3>1. parser_state = "IGNORE"
      BY <1>3, <2>4, AtRest
    <3>2. Goes("IGNORE")
      BY <1>4, <3>1 DEF jf_sax_items_map_key
    <3> QED  BY <2>4, <3>2, AtRest
  <2> QED  BY <1>13, <2>1, <2>2, <2>3, <2>4
<1>15. At(Top.kind, k) = "IGNORE" => Place = "IGNORE"
  <2>1. "IGNORE" \notin ItemKeys \cup {"Items", PathKey}
    BY DEF ItemKeys, StringKeys, NumberKeys, TypeKeys, PathKey
  <2> QED  BY <1>3, <1>13, <2>1, AtRest DEF At
<1> QED  BY <1>2, <1>5, <1>8, <1>10, <1>11, <1>12, <1>14, <1>15, GoesKeeps

\* The menu is a list of lines, one for each record of the payload.
Lines(list) == [n \in 1 .. Len(list) |-> <<n, list[n].name>>]

Listed ==
    /\ List("payload") \in Seq(Items) /\ Len(List("payload")) = count["payload"]
    /\ [n \in 1 .. count["payload"] |-> <<n, GetItem("payload", n).name>>] = Lines(List("payload"))

LEMMA LinesOf == IInv => Listed
<1> SUFFICES ASSUME IInv PROVE Listed
  OBVIOUS
<1>1. List("payload") \in Seq(Items) /\ Len(List("payload")) = count["payload"] /\ count["payload"] \in Nat
  BY ListSeq DEF Caches, IInv, TypeOK
<1>2. \A n \in 1 .. count["payload"] : List("payload")[n] = GetItem("payload", n)
  BY <1>1 DEF List
<1> QED  BY <1>1, <1>2 DEF Lines, Listed

LEMMA LinesOfPrimed == IInv' => Listed'
  BY LinesOf, PTL

\* One more record, one more line.
LEMMA LinesGrow ==
  ASSUME NEW list \in Seq(Items), NEW entry \in Items
  PROVE  /\ Append(Lines(list), <<Len(list) + 1, entry.name>>) = Lines(Append(list, entry))
         /\ Len(Append(list, entry)) = Len(list) + 1
<1> DEFINE L == Len(list)
           S == {<<n, list[n].name>> : n \in 1 .. L} \cup {<<L + 1, entry.name>>}
           line == <<L + 1, entry.name>>
<1>1. L \in Nat /\ Len(Append(list, entry)) = L + 1 /\ Append(list, entry)[L + 1] = entry
      /\ \A n \in 1 .. L : Append(list, entry)[n] = list[n]
  BY AppendRecord
<1>2. Lines(list) = [n \in 1 .. L |-> <<n, list[n].name>>] /\ Lines(list) \in [1 .. L -> S] /\ line \in S
  BY DEF Lines
<1>3. Lines(list) \in Seq(S) /\ Len(Lines(list)) = L
  BY <1>1, <1>2, SeqDef, LenProperties
<1> HIDE DEF S, line
<1>4. /\ Append(Lines(list), line) \in Seq(S) /\ Len(Append(Lines(list), line)) = L + 1
      /\ \A n \in 1 .. L : Append(Lines(list), line)[n] = Lines(list)[n]
      /\ Append(Lines(list), line)[L + 1] = line
  BY <1>2, <1>3, Push
<1>5. Append(Lines(list), line) = [n \in 1 .. L + 1 |-> IF n = L + 1 THEN line ELSE Lines(list)[n]]
  <2>1. Append(Lines(list), line) = [n \in 1 .. L + 1 |-> Append(Lines(list), line)[n]]
    BY <1>4, LenProperties
  <2>2. \A n \in 1 .. L + 1 : Append(Lines(list), line)[n] = IF n = L + 1 THEN line ELSE Lines(list)[n]
    BY <1>1, <1>4
  <2> QED  BY <2>1, <2>2
<1>6. \A n \in 1 .. L + 1 : (IF n = L + 1 THEN line ELSE Lines(list)[n]) = <<n, Append(list, entry)[n].name>>
  BY <1>1, <1>2 DEF line
<1>7. Lines(Append(list, entry)) = [n \in 1 .. L + 1 |-> <<n, Append(list, entry)[n].name>>]
  BY <1>1 DEF Lines
<1> QED  BY <1>1, <1>5, <1>6, <1>7 DEF line

\* A container that ends leaves the parser in the one around it.
LEMMA EndFacts ==
  ASSUME DocInv, doc.stack # <<>>, doc' = Close
  PROVE  /\ doc'.stack = Front(doc.stack) /\ doc'.key = NULL /\ doc'.expected = doc.expected
         /\ doc'.facts = doc.facts /\ doc'.types = doc.types /\ Closes(doc.expected)
  BY DEF Close, Closes, DocInv, DocTypes

LEMMA TokEndOther ==
  ASSUME Before, doc.stack # <<>>, Top.kind # "item", IsMap(Top) => doc.key = NULL /\ Top.todo = {}, doc' = Close,
         IF IsMap(Top) THEN jf_sax_items_end_map ELSE jf_sax_items_end_array
  PROVE  Kept
<1>1. /\ parser_state = At(Top.kind, doc.key) /\ Place = parser_state /\ DocInv /\ ParserInv /\ Depths
      /\ Size \in Nat \ {0} /\ ItemAt \in {2, 3} /\ Top.kind \in Kinds
  BY PlaceIs
<1>2. /\ doc'.stack = Front(doc.stack) /\ doc'.key = NULL /\ doc'.expected = doc.expected
      /\ doc'.facts = doc.facts /\ doc'.types = doc.types /\ Closes(doc.expected)
  BY <1>1, EndFacts
<1>3. DocInv'
  BY <1>1, <1>2, DocCloses
<1>4. /\ Size' = Size - 1 /\ (Size' > 0 => ItemAt' = ItemAt)
      /\ ItemAt' \in {2, 3} /\ Resting'
      /\ Size' > 0 => Top' = doc.stack[Size - 1] /\ Size - 1 \in 1 .. Size
  BY <1>1, <1>2, <1>3, ClosedTo
<1>5. /\ Top.kind = "query" => Size = 1 /\ ItemAt = 3
      /\ Top.kind = "latest" => Size = 1 /\ ItemAt = 2
      /\ Top.kind = "items" => Size = 2 /\ ItemAt = 3
      /\ Top.kind = "userdata" => Size = ItemAt + 1
      /\ Top.kind \in {"map", "array"} => Size > ItemAt
      /\ Size # ItemAt
  BY <1>1 DEF Depths, ItemAt
<1>6. SameItem
  <2>1. (Size' >= ItemAt') <=> (Size >= ItemAt)
    BY <1>1, <1>4, <1>5 DEF Kinds
  <2>2. Size' >= ItemAt' => ItemAt' = ItemAt
    BY <1>1, <1>4
  <2> QED  BY <1>2, <2>1, <2>2 DEF SameItem
<1>7. CASE Top.kind \in {"query", "latest"}
  <2>1. Place' = "IDLE"
    BY <1>1, <1>4, <1>5, <1>7 DEF Resting
  <2>2. Goes("IDLE")
    <3>1. CASE Top.kind = "query"
      BY <1>1, <3>1, AtRest DEF IsMap, jf_sax_items_end_map
    <3>2. CASE Top.kind = "latest"
      BY <1>1, <3>2, AtRest DEF IsMap, jf_sax_items_end_array
    <3> QED  BY <1>7, <3>1, <3>2
  <2> QED  BY <1>3, <1>6, <2>1, <2>2, GoesKeeps
<1>8. CASE Top.kind = "items"
  <2>1. Place' = "QUERYRESULT_MAP"
    BY <1>1, <1>4, <1>5, <1>8 DEF Resting
  <2>2. Goes("QUERYRESULT_MAP")
    BY <1>1, <1>8, AtRest DEF IsMap, jf_sax_items_end_array
  <2> QED  BY <1>3, <1>6, <2>1, <2>2, GoesKeeps
<1>9. CASE Top.kind = "userdata"
  <2>1. Place' = "ITEM_MAP"
    BY <1>1, <1>4, <1>5, <1>9 DEF Resting
  <2>2. Goes("ITEM_MAP")
    BY <1>1, <1>9, AtRest DEF IsMap, jf_sax_items_end_map
  <2> QED  BY <1>3, <1>6, <2>1, <2>2, GoesKeeps
<1>10. CASE Top.kind \in {"map", "array"}
  <2>1. parser_state = "IGNORE"
    BY <1>1, <1>10, AtRest
  <2>2. /\ ignoring \in [resume : {"NO_STATE", "ITEM_MAP"}, maps : Int, arrays : Int]
        /\ ignoring.resume = "ITEM_MAP" /\ ignoring.maps + ignoring.arrays = Size - ItemAt
    BY <1>1, <2>1 DEF ParserInv
  <2>3. Ignores([ignoring EXCEPT !.maps = @ - 1]) \/ Ignores([ignoring EXCEPT !.arrays = @ - 1])
    <3>1. CASE Top.kind = "map"
      BY <2>1, <3>1 DEF IsMap, jf_sax_items_end_map
    <3>2. CASE Top.kind = "array"
      BY <2>1, <3>2 DEF IsMap, jf_sax_items_end_array
    <3> QED  BY <1>10, <3>1, <3>2
  <2>4. \A i \in {[ignoring EXCEPT !.maps = @ - 1], [ignoring EXCEPT !.arrays = @ - 1]} :
          i \in [resume : {"NO_STATE", "ITEM_MAP"}, maps : Int, arrays : Int] /\ i.resume = "ITEM_MAP"
          /\ i.maps + i.arrays = Size - ItemAt - 1
    BY <1>1, <2>2
  <2>5. ItemAt' = ItemAt /\ Size - ItemAt - 1 = Size' - ItemAt' /\ Size' >= ItemAt' /\ Size >= ItemAt
    <3>1. Size > ItemAt /\ Size \in Nat /\ ItemAt \in {2, 3} /\ Size' = Size - 1
      BY <1>1, <1>4, <1>5, <1>10
    <3>2. ItemAt' = ItemAt
      BY <1>4, <3>1
    <3> QED  BY <3>1, <3>2
  <2>6. Size' > ItemAt' => Top'.kind # "userdata"
    <3>1. Size' > ItemAt' => Top'.kind \in {"map", "array"}
      BY <1>1, <1>4, <2>5 DEF DocInv, Nesting
    <3> QED  BY <3>1
  <2>7. (doc.key = NULL)'
    BY <1>2
  <2>8. PICK i \in [resume : {"NO_STATE", "ITEM_MAP"}, maps : Int, arrays : Int] :
          Ignores(i) /\ i.resume = "ITEM_MAP" /\ i.maps + i.arrays = Size' - ItemAt'
    BY <2>3, <2>4, <2>5
  <2> QED  BY <1>3, <1>6, <2>5, <2>6, <2>7, <2>8, IgnoresKeep
<1> QED  BY <1>1, <1>7, <1>8, <1>9, <1>10 DEF Kinds

\* An item that ends is answered, if it is valid, and forgotten.
LEMMA TokEndItem ==
  ASSUME IInv, IInv', Before, doc.stack # <<>>, Top.kind = "item", doc.key = NULL, Top.todo = {},
         jf_sax_items_end_map,
         doc' = IF IsValid(Declared)
                THEN [Close EXCEPT !.expected = Append(@, MenuItem(Declared, tb.promiscuous))]
                ELSE Close
  PROVE  Kept
<1> DEFINE entry == MenuItem(Declared, tb.promiscuous)
           told == IF IsValid(Declared) THEN Append(doc.expected, entry) ELSE doc.expected
<1>1. /\ parser_state = "ITEM_MAP" /\ DocInv /\ ParserInv /\ AnswerInv /\ Depths
      /\ Size \in Nat \ {0} /\ ItemAt \in {2, 3} /\ Size = ItemAt
  <2>1. parser_state = At("item", NULL) /\ DocInv /\ ParserInv /\ AnswerInv /\ Depths /\ Size \in Nat \ {0} /\ ItemAt \in {2, 3}
    BY PlaceIs DEF Before
  <2>2. Size = ItemAt
    BY <2>1 DEF Depths
  <2> QED  BY <2>1, <2>2, AtRest
<1>2. EndItem
  BY <1>1 DEF jf_sax_items_end_map
<1>3. item = Declared
  BY <1>1 DEF ParserInv
<1>4. IsValid(Declared) => entry \in Items
  BY <1>1, Answerable DEF AnswerInv
<1>5. doc.expected \in Seq(Items) /\ told \in Seq(Items)
  BY <1>1, <1>4, AppendRecord DEF DocInv, DocTypes
<1>6. /\ Closes(told) /\ doc'.stack = Front(doc.stack) /\ doc'.key = NULL /\ doc'.expected = told
  <2>1. doc.expected \in Seq(Items) /\ told \in Seq(Items) /\ Close.expected = doc.expected
    BY <1>1, <1>5 DEF Close, DocInv, DocTypes
  <2>2. doc' = [Close EXCEPT !.expected = told]
    BY <1>1, <2>1 DEF Close, DocInv, DocTypes
  <2> QED  BY <1>1, <2>1, <2>2 DEF Closes, Close, DocInv, DocTypes
<1>7. DocInv'
  BY <1>1, <1>6, DocCloses
<1>8. /\ Size' = Size - 1 /\ ItemAt' = ItemAt /\ Resting'
  BY <1>1, <1>6, <1>7, ClosedTo
<1>9. ParserInv'
  <2>1. /\ item' = NoItem /\ latest_array' = FALSE /\ ignoring' = ignoring /\ rejected' = rejected
        /\ parser_state' = IF latest_array THEN "LATEST_ARRAY" ELSE "ITEMS_ARRAY"
    BY <1>2 DEF EndItem
  <2>2. latest_array <=> ItemAt = 2
    BY <1>1 DEF ParserInv
  <2>3. Place' = IF ItemAt = 2 THEN "LATEST_ARRAY" ELSE "ITEMS_ARRAY"
    BY <1>1, <1>8 DEF Resting
  <2>4. ~ (Size' >= ItemAt')
    BY <1>1, <1>8
  <2>5. parser_state' = Place' /\ Place' # "IGNORE"
    BY <2>1, <2>2, <2>3
  <2>6. ~ rejected' /\ ignoring' \in [resume : {"NO_STATE", "ITEM_MAP"}, maps : Int, arrays : Int]
    BY <1>1, <2>1 DEF ParserInv
  <2> QED  BY <2>1, <2>4, <2>5, <2>6 DEF ParserInv
<1> HIDE DEF told, entry
<1>10. AnswerInv'
  <2>1. List("payload") = doc.expected /\ tb.item_count = count["payload"] /\ tb \in [item_count : Nat, promiscuous : BOOLEAN]
        /\ printed = Lines(List("payload")) /\ Len(List("payload")) = count["payload"]
    BY <1>1, LinesOf DEF AnswerInv, NumbersMatch, Listed
  <2>2. CASE ~ IsValid(Declared)
    <3>1. UNCHANGED <<vars, tb, rejected, printed>>
      BY <1>2, <1>3, <2>2 DEF EndItem
    <3>2. doc'.expected = doc.expected
      BY <1>6, <2>2 DEF told
    <3> QED  BY <1>1, <3>1, <3>2, QuietKeeps DEF Quiet
  <2>3. CASE IsValid(Declared)
    <3>1. /\ tb' = [tb EXCEPT !.item_count = @ + 1]
          /\ printed' = Append(printed, <<tb.item_count + 1, DisplayName(item, tb.promiscuous)>>)
          /\ AddItem("payload", entry)
      BY <1>2, <1>3, <2>3 DEF EndItem, entry
    <3>2. DisplayName(item, tb.promiscuous) = entry.name
      BY <1>3 DEF entry, MenuItem
    <3>3. List("payload")' = Append(List("payload"), entry)
      <4>1. Lists!Add("payload", entry)
        BY <1>4, <2>3, <3>1, AddRefines DEF Caches
      <4> QED  BY <4>1 DEF Lists!Add, Caches
    <3>4. /\ Append(Lines(List("payload")), <<Len(List("payload")) + 1, entry.name>>) = Lines(List("payload"))'
          /\ Len(List("payload"))' = Len(List("payload")) + 1
      <4>1. List("payload") \in Seq(Items) /\ entry \in Items
        BY <1>4, <1>5, <2>1, <2>3
      <4> QED  BY <3>3, <4>1, LinesGrow
    <3>5. printed' = Lines(List("payload"))'
      BY <2>1, <3>1, <3>2, <3>4
    <3>6. /\ Len(List("payload"))' = count["payload"]'
          /\ printed' = [n \in 1 .. count["payload"] |-> <<n, GetItem("payload", n).name>>]'
      BY <3>5, LinesOfPrimed DEF Listed
    <3>7. tb'.item_count = count["payload"]' /\ tb' \in [item_count : Nat, promiscuous : BOOLEAN]
      BY <2>1, <3>1, <3>4, <3>6
    <3>8. List("payload")' = doc'.expected
      BY <1>6, <2>1, <2>3, <3>3 DEF told
    <3> QED  BY <3>6, <3>7, <3>8 DEF AnswerInv, NumbersMatch
  <2> QED  BY <2>2, <2>3
<1> QED  BY <1>7, <1>9, <1>10 DEF Kept

LEMMA TokEndMap ==
  ASSUME IInv, IInv', Before, EndMap
  PROVE  Kept
<1>1. IsMap(Top) /\ doc.key = NULL /\ Top.todo = {} /\ jf_sax_items_end_map
  BY DEF EndMap
<1>2. doc.stack # <<>>
  BY <1>1 DEF IsMap, Top, Frame
<1>3. CASE Top.kind = "item"
  <2>1. doc' = IF IsValid(Declared)
               THEN [Close EXCEPT !.expected = Append(@, MenuItem(Declared, tb.promiscuous))]
               ELSE Close
    BY <1>3 DEF EndMap
  <2> QED  BY <1>1, <1>2, <1>3, <2>1, TokEndItem
<1>4. CASE Top.kind # "item"
  <2>1. doc' = Close
    BY <1>4 DEF EndMap
  <2> QED  BY <1>1, <1>2, <1>4, <2>1, TokEndOther
<1> QED  BY <1>3, <1>4

LEMMA TokEndArray ==
  ASSUME Before, EndArray
  PROVE  Kept
<1>1. Top.kind \in {"items", "latest", "array"} /\ jf_sax_items_end_array /\ doc' = Close
  BY DEF EndArray
<1>2. doc.stack # <<>> /\ ~ IsMap(Top) /\ Top.kind # "item"
  BY <1>1 DEF IsMap, Top, Frame
<1> QED  BY <1>1, <1>2, TokEndOther

\* An empty payload is an empty list.
LEMMA NoLines ==
  ASSUME count["payload"] = 0
  PROVE  List("payload") = <<>> /\ [n \in 1 .. count["payload"] |-> <<n, GetItem("payload", n).name>>] = <<>>
  BY DEF List

LEMMA NoLinesPrimed ==
  ASSUME count'["payload"] = 0
  PROVE  List("payload")' = <<>> /\ [n \in 1 .. count["payload"] |-> <<n, GetItem("payload", n).name>>]' = <<>>
<1>1. (count["payload"] = 0 =>
        List("payload") = <<>> /\ [n \in 1 .. count["payload"] |-> <<n, GetItem("payload", n).name>>] = <<>>)'
  BY NoLines, PTL
<1> QED  BY <1>1

LEMMA TokOpenDocument ==
  ASSUME IInv, Before, OpenDocument
  PROVE  Kept
<1>1. Sending /\ doc.stack = <<>> /\ DocInv /\ ParserInv /\ AnswerInv /\ Depths
  <2>1. Sending /\ doc.stack = <<>>
    BY DEF OpenDocument
  <2>2. DocInv /\ ParserInv /\ AnswerInv
    BY DEF Before
  <2> QED  BY <2>1, <2>2, DepthsHold DEF DocInv
<1>2. Size = 0 /\ parser_state = "IDLE" /\ doc.expected = <<>> /\ ItemAt \in {2, 3}
  BY <1>1 DEF Depths, ParserInv, Place, DocInv, Sending
<1>3. count["payload"] = 0 /\ printed = <<>>
  <2>1. Listed
    BY LinesOf
  <2>2. count["payload"] = 0
    BY <1>1, <1>2, <2>1, LenProperties, EmptySeq DEF AnswerInv, Listed
  <2> QED  BY <1>1, <2>2, NoLines DEF AnswerInv, NumbersMatch
<1>4. \/ /\ Begin("QUERYRESULT_MAP") /\ Refresh /\ doc' = Open(Frame("query", {"Items", "Other"}))
      \/ Begin("LATEST_ARRAY") /\ UNCHANGED vars /\ doc' = Open(Frame("latest", {}))
  BY <1>2 DEF OpenDocument, jf_sax_items_start_map, jf_sax_items_start_array
<1>5. PICK f, s :
        /\ Begin(s) /\ (Refresh \/ UNCHANGED vars) /\ doc' = Open(f)
        /\ \/ s = "QUERYRESULT_MAP" /\ f = Frame("query", {"Items", "Other"})
           \/ s = "LATEST_ARRAY" /\ f = Frame("latest", {})
  BY <1>4
<1>6. DocInv'
  BY <1>1, <1>5, DocBegins
<1>7. f \in [kind : Kinds, todo : SUBSET DocKeys] /\ s = At(f.kind, NULL) /\ f.kind \in {"query", "latest"}
  BY <1>5, AtRest DEF Frame, Kinds, DocKeys
<1>8. /\ doc'.stack = Append(doc.stack, f) /\ doc'.key = NULL /\ doc'.expected = doc.expected
  BY <1>1, <1>5 DEF Open, DocInv, DocTypes
<1>9. Size' = 1 /\ doc'.stack # <<>> /\ doc'.stack[1] = f /\ ItemAt' \in {2, 3}
  <2>1. Size' = Size + 1 /\ doc'.stack[Size + 1] = f /\ doc'.stack # <<>>
    BY <1>1, <1>7, <1>8, Opened
  <2>2. ItemAt' \in {2, 3}
    BY DEF ItemAt
  <2> QED  BY <1>2, <2>1, <2>2
<1>10. Place' = s
  BY <1>7, <1>8, <1>9 DEF Place
<1>11. ParserInv'
  <2>1. parser_state' = s /\ item' = NoItem /\ ignoring' = ignoring /\ latest_array' = latest_array /\ rejected' = rejected
    BY <1>5 DEF Begin
  <2>2. ~ (Size' >= ItemAt') /\ ~ (Size >= ItemAt) /\ s # "IGNORE"
    BY <1>2, <1>5, <1>9
  <2> QED  BY <1>1, <1>10, <2>1, <2>2 DEF ParserInv
<1>12. AnswerInv'
  <2>1. tb' = [tb EXCEPT !.item_count = 0] /\ printed' = printed
    BY <1>5 DEF Begin
  <2>2. count'["payload"] = 0
    BY <1>3, <1>5 DEF Refresh, vars, Caches
  <2>3. tb' \in [item_count : Nat, promiscuous : BOOLEAN] /\ tb'.item_count = 0
    BY <1>1, <2>1 DEF AnswerInv
  <2> QED  BY <1>2, <1>3, <1>8, <2>1, <2>2, <2>3, NoLinesPrimed DEF AnswerInv, NumbersMatch
<1> QED  BY <1>6, <1>11, <1>12 DEF Kept

-----------------------------------------------------------------------------
(***************************************************************************)
(* What parser and menu do to the caches are calls of the caches.          *)
(***************************************************************************)

LEMMA CallbackCalls ==
  /\ jf_sax_items_start_map \/ jf_sax_items_start_array => Refresh \/ UNCHANGED vars
  /\ \A k : jf_sax_items_map_key(k) => UNCHANGED vars
  /\ \A text : jf_sax_items_string(text) \/ jf_sax_items_number(text) => UNCHANGED vars
  /\ jf_sax_items_end_array => UNCHANGED vars
  /\ jf_sax_items_end_map => UNCHANGED vars \/ (EndItem /\ parser_state = "ITEM_MAP")
<1>1. \A s : Goes(s) \/ BadState => UNCHANGED vars
  BY DEF Goes, BadState
<1>2. \A i : Ignores(i) => UNCHANGED vars
  BY DEF Ignores
<1>3. \A i, back : Fill(i, back) => UNCHANGED vars
  BY DEF Fill
<1>4. jf_sax_items_start_map => Refresh \/ UNCHANGED vars
  BY <1>1, <1>2 DEF jf_sax_items_start_map
<1>5. jf_sax_items_start_array => Refresh \/ UNCHANGED vars
  BY <1>1, <1>2 DEF jf_sax_items_start_array
<1>6. \A k : jf_sax_items_map_key(k) => UNCHANGED vars
  BY <1>1 DEF jf_sax_items_map_key
<1>7. \A text : jf_sax_items_string(text) => UNCHANGED vars
  BY <1>1, <1>3 DEF jf_sax_items_string
<1>8. \A text : jf_sax_items_number(text) => UNCHANGED vars
  BY <1>1, <1>3 DEF jf_sax_items_number
<1>9. jf_sax_items_end_array => UNCHANGED vars
  BY <1>1, <1>2 DEF jf_sax_items_end_array
<1>10. jf_sax_items_end_map => UNCHANGED vars \/ (EndItem /\ parser_state = "ITEM_MAP")
  BY <1>1, <1>2 DEF jf_sax_items_end_map
<1> QED  BY <1>4, <1>5, <1>6, <1>7, <1>8, <1>9, <1>10

LEMMA EntriesAreItems ==
  ASSUME IInv
  PROVE  Entries \subseteq Items
<1>1. \A n \in 1 .. count["payload"] : GetItem("payload", n) \in Items
  <2> TAKE n \in 1 .. count["payload"]
  <2>1. count["payload"] \in Nat /\ body["payload"] \in Seq(Items) /\ header["payload"][n] \in 1 .. Len(body["payload"])
    BY DEF IInv, TypeOK, Caches
  <2> QED  BY <2>1, ElementOfSeq DEF GetItem
<1> QED  BY <1>1 DEF Entries

LEMMA PlayCalls ==
  ASSUME IInv, Play
  PROVE  [Next]_vars
<1>1. Entries \subseteq Items
  BY EntriesAreItems
<1>2. ASSUME NEW i \in Entries \cup {NULL}, AddItem("playlist", i) \/ AddSkipped("playlist", i) PROVE Next
  BY <1>1, <1>2 DEF Next, Caches
<1>3. ASSUME NEW a \in 1 .. MaxRecords, NEW b \in 1 .. MaxRecords, SwapItems(a, b) PROVE Next
  BY <1>3 DEF Next
<1>4. ASSUME NEW n \in 1 .. MaxRecords, NEW i \in Entries \ Folders, ReplaceItem(n, i) PROVE Next
  BY <1>1, <1>4 DEF Next
<1> QED  BY <1>2, <1>3, <1>4 DEF Play

LEMMA CallsOnly ==
  ASSUME IInv, Before, [SNext]_svars
  PROVE  [Next]_vars
<1>1. Refresh => Next
  BY DEF Next
<1>2. ASSUME OpenDocument PROVE [Next]_vars
  BY <1>1, <1>2, CallbackCalls DEF OpenDocument
<1>3. ASSUME MapKey PROVE [Next]_vars
  BY <1>3, CallbackCalls DEF MapKey
<1>4. ASSUME StartItems \/ StartItem \/ StartUserData \/ StartNested PROVE [Next]_vars
  <2>1. jf_sax_items_start_map \/ jf_sax_items_start_array
    BY <1>4 DEF StartItems, StartItem, StartUserData, StartNested
  <2> QED  BY <1>1, <2>1, CallbackCalls
<1>5. ASSUME StringValue \/ NumberValue \/ NullValue PROVE [Next]_vars
  BY <1>5, CallbackCalls DEF StringValue, NumberValue, NullValue
<1>6. ASSUME EndArray PROVE [Next]_vars
  BY <1>6, CallbackCalls DEF EndArray
<1>7. ASSUME EndMap PROVE [Next]_vars
  <2>1. jf_sax_items_end_map /\ IsMap(Top) /\ doc.key = NULL /\ Top.todo = {} /\ doc.stack # <<>>
    BY <1>7 DEF EndMap, IsMap, Top, Frame
  <2>2. CASE EndItem /\ parser_state = "ITEM_MAP"
    <3>1. Top.kind = "item"
      BY <2>1, <2>2, PlaceIs, AtRest DEF Kinds
    <3>2. Depths /\ DocInv /\ ParserInv /\ AnswerInv
      BY <2>1, PlaceIs DEF Before
    <3>3. Size >= ItemAt
      BY <2>1, <3>1, <3>2 DEF Depths
    <3>4. item = Declared
      BY <3>2, <3>3 DEF ParserInv
    <3>5. IsValid(item) => MenuItem(item, tb.promiscuous) \in Items
      BY <2>1, <3>1, <3>2, <3>4, Answerable DEF AnswerInv
    <3>6. \/ UNCHANGED vars
          \/ IsValid(item) /\ AddItem("payload", MenuItem(item, tb.promiscuous))
      BY <2>2 DEF EndItem
    <3> QED  BY <3>5, <3>6 DEF Next, Caches
  <2> QED  BY <2>1, <2>2, CallbackCalls
<1>8. ASSUME Request PROVE [Next]_vars
  BY <1>1, <1>8 DEF Request
<1>9. ASSUME Play PROVE [Next]_vars
  BY <1>9, PlayCalls
<1>10. ASSUME UNCHANGED svars PROVE [Next]_vars
  BY <1>10 DEF svars
<1> QED  BY <1>2, <1>3, <1>4, <1>5, <1>6, <1>7, <1>8, <1>9, <1>10 DEF SNext, Token

-----------------------------------------------------------------------------
(***************************************************************************)
(* The theorems.                                                           *)
(***************************************************************************)

SInv == IInv /\ Before

\* No document: none asked for, or none begun.
Fresh == doc = NoDoc \/ doc = [NoDoc EXCEPT !.asked = TRUE]
NotBegun == DocInv /\ Size = 0 /\ ItemAt = 3 /\ Place = "IDLE" /\ doc.stack = <<>> /\ doc.expected = <<>>

LEMMA NoneBegun == Fresh => NotBegun
<1> SUFFICES ASSUME Fresh PROVE NotBegun
  OBVIOUS
<1>1. \E a \in BOOLEAN : doc = [stack |-> <<>>, key |-> NULL, shape |-> NULL, serial |-> 0, facts |-> NoDoc.facts,
                                types |-> NoDoc.types, expected |-> <<>>, asked |-> a]
  BY DEF Fresh, NoDoc
<1>2. doc.stack = <<>> /\ doc.key = NULL /\ doc.expected = <<>> /\ doc.asked \in BOOLEAN
  BY <1>1
<1>3. Size = 0 /\ ItemAt = 3 /\ Place = "IDLE"
  BY <1>2, EmptySeq DEF Size, ItemAt, Place
<1>4. NoDoc.facts \in [FieldKeys -> Texts] /\ NoDoc.types \in [TypeKeys -> Texts]
  BY DEF NoDoc, NoItem, Texts
<1>5. <<>> \in Seq([kind : Kinds, todo : SUBSET DocKeys]) /\ <<>> \in Seq(Items)
  BY EmptySeq
<1>6. DocTypes
  BY <1>1, <1>4, <1>5 DEF DocTypes
<1>7. Nesting /\ Keys /\ Facts
  BY <1>2, <1>3 DEF Nesting, Keys, Facts
<1> QED  BY <1>2, <1>3, <1>6, <1>7 DEF DocInv, NotBegun

LEMMA NoneBegunPrimed == Fresh' => NotBegun'
  BY NoneBegun, PTL

LEMMA SInitInv == SInit => SInv
<1> SUFFICES ASSUME SInit PROVE SInv
  OBVIOUS
<1>1. IInv
  BY InitInv DEF SInit
<1>2. NotBegun
  <2>1. doc = NoDoc
    BY DEF SInit
  <2> QED  BY <2>1, NoneBegun DEF Fresh
<1>3. ParserInv
  <2>1. ignoring \in [resume : {"NO_STATE", "ITEM_MAP"}, maps : Int, arrays : Int]
    BY DEF SInit, NotIgnoring
  <2>2. parser_state = "IDLE" /\ latest_array = FALSE /\ item = NoItem /\ rejected = FALSE
    BY DEF SInit
  <2>3. Place = "IDLE" /\ ~ (Size >= ItemAt)
    BY <1>2 DEF NotBegun
  <2> QED  BY <2>1, <2>2, <2>3 DEF ParserInv
<1>4. AnswerInv
  <2>1. count["payload"] = 0
    BY DEF SInit, Init, Caches
  <2> QED  BY <1>2, <2>1, NoLines DEF SInit, AnswerInv, NumbersMatch, NotBegun
<1> QED  BY <1>1, <1>2, <1>3, <1>4 DEF SInv, Before, NotBegun

LEMMA RequestKeeps ==
  ASSUME Before, Request
  PROVE  Kept
<1>1. DocInv /\ ParserInv /\ AnswerInv
  BY DEF Before
<1>2. ~ doc.asked /\ doc.stack = <<>> /\ Size = 0 /\ ItemAt \in {2, 3}
  <2>1. ~ doc.asked
    BY <1>1 DEF Request, InMenu, ParserInv
  <2>2. Depths /\ (Size >= 1 => doc.asked)
    BY <1>1, DepthsHold DEF DocInv, Nesting
  <2> QED  BY <2>1, <2>2 DEF Depths
<1>3. NotBegun'
  <2>1. doc' = [NoDoc EXCEPT !.asked = TRUE]
    BY DEF Request
  <2>2. NoDoc' = NoDoc
    BY DEF NoDoc, NoItem
  <2>3. Fresh'
    BY <2>1, <2>2 DEF Fresh
  <2> QED  BY <2>3, NoneBegunPrimed
<1>4. ParserInv'
  <2>1. UNCHANGED context /\ rejected' = FALSE
    BY DEF Request
  <2>2. parser_state = "IDLE" /\ item = NoItem /\ latest_array = FALSE
    BY <1>1, <1>2 DEF ParserInv, Place
  <2> QED  BY <1>1, <1>3, <2>1, <2>2 DEF ParserInv, NotBegun, context
<1>5. AnswerInv'
  <2>1. count'["payload"] = 0 /\ printed' = <<>> /\ doc'.asked = TRUE
    BY DEF Request, Refresh, Caches, NoDoc
  <2>2. tb' \in [item_count : Nat, promiscuous : BOOLEAN]
    BY <1>1 DEF Request, AnswerInv
  <2> QED  BY <1>3, <2>1, <2>2, NoLinesPrimed DEF AnswerInv, NumbersMatch, NotBegun
<1> QED  BY <1>3, <1>4, <1>5 DEF Kept, NotBegun

\* What the menu does to the playlist leaves the payload as it is.
LEMMA PayloadApart ==
  ASSUME IInv, Play
  PROVE  header'["payload"] = header["payload"] /\ body'["payload"] = body["payload"] /\ count'["payload"] = count["payload"]
<1>1. /\ header \in [Caches -> Seq(Nat)] /\ body \in [Caches -> Seq(Items)] /\ count \in [Caches -> Nat]
      /\ "payload" \in Caches /\ "playlist" \in Caches /\ "payload" # "playlist"
  BY DEF IInv, TypeOK, Caches
<1>2. ASSUME NEW i, AddItem("playlist", i)
      PROVE header'["payload"] = header["payload"] /\ body'["payload"] = body["payload"] /\ count'["payload"] = count["payload"]
  BY <1>1, <1>2, Zenon DEF AddItem
<1>3. ASSUME NEW i, AddSkipped("playlist", i) PROVE header' = header /\ body' = body /\ count' = count
  BY <1>3 DEF AddSkipped, vars
<1>4. ASSUME NEW a, NEW b, SwapItems(a, b)
      PROVE header'["payload"] = header["payload"] /\ body' = body /\ count' = count
  BY <1>1, <1>4, Zenon DEF SwapItems
<1>5. ASSUME NEW n, NEW i, ReplaceItem(n, i)
      PROVE header'["payload"] = header["payload"] /\ body'["payload"] = body["payload"] /\ count' = count
  BY <1>1, <1>5, Zenon DEF ReplaceItem
<1> QED  BY <1>2, <1>3, <1>4, <1>5 DEF Play

\* The same document, parser, payload and screen.
LEMMA NothingNew ==
  ASSUME Before, UNCHANGED <<context, tb, rejected, printed, doc>>,
         header'["payload"] = header["payload"], body'["payload"] = body["payload"], count'["payload"] = count["payload"]
  PROVE  Kept
<1>1. DocInv' /\ Place' = Place /\ Size' = Size /\ ItemAt' = ItemAt /\ Declared' = Declared
  BY DEF Before, DocInv, DocTypes, Nesting, Keys, Facts, Brought, Due, DueInUserData, KeysOf,
         Place, Size, ItemAt, Declared
<1>2. ParserInv'
  BY <1>1 DEF Before, ParserInv, context
<1>3. List("payload")' = List("payload")
  BY SameList DEF Caches
<1>4. \A n : GetItem("payload", n)' = GetItem("payload", n)
  BY DEF GetItem
<1>5. [n \in 1 .. count["payload"] |-> <<n, GetItem("payload", n).name>>]'
       = [n \in 1 .. count["payload"] |-> <<n, GetItem("payload", n).name>>]
  BY <1>4
<1>6. AnswerInv'
  BY <1>3, <1>5 DEF Before, AnswerInv, NumbersMatch
<1> QED  BY SMTT(30), <1>1, <1>2, <1>6 DEF Kept

LEMMA SNextInv ==
  ASSUME NoNulls, OrderFree
  PROVE  SInv /\ [SNext]_svars => SInv' /\ [Next]_vars
<1> SUFFICES ASSUME SInv, [SNext]_svars PROVE SInv' /\ [Next]_vars
  OBVIOUS
<1>1. IInv /\ Before
  BY DEF SInv
<1>2. [Next]_vars /\ IInv'
  BY <1>1, CallsOnly, NextInv
<1>3. ASSUME Token PROVE Kept
  <2>1. CASE OpenDocument
    BY <1>1, <2>1, TokOpenDocument
  <2>2. CASE MapKey
    BY <1>1, <2>2, TokMapKey
  <2>3. CASE StartItems
    BY <1>1, <2>3, TokStartItems
  <2>4. CASE StartItem
    BY <1>1, <2>4, TokStartItem
  <2>5. CASE StartUserData
    BY <1>1, <2>5, TokStartUserData
  <2>6. CASE StartNested
    BY <1>1, <2>6, TokStartNested
  <2>7. CASE StringValue
    BY <1>1, <2>7, TokStringValue
  <2>8. CASE NumberValue
    BY <1>1, <2>8, TokNumberValue
  <2>9. CASE NullValue
    BY <1>1, <2>9, TokNullValue
  <2>10. CASE EndMap
    BY <1>1, <1>2, <2>10, TokEndMap
  <2>11. CASE EndArray
    BY <1>1, <2>11, TokEndArray
  <2> QED  BY <1>3, <2>1, <2>2, <2>3, <2>4, <2>5, <2>6, <2>7, <2>8, <2>9, <2>10, <2>11 DEF Token
<1>4. ASSUME Request PROVE Kept
  BY <1>1, <1>4, RequestKeeps
<1>5. ASSUME Play PROVE Kept
  <2>1. UNCHANGED <<context, tb, rejected, printed, doc>>
    BY <1>5 DEF Play
  <2> QED  BY <1>1, <1>5, <2>1, PayloadApart, NothingNew
<1>6. ASSUME UNCHANGED svars PROVE Kept
  <2>1. UNCHANGED <<context, tb, rejected, printed, doc>> /\ UNCHANGED vars
    BY <1>6 DEF svars
  <2>2. header' = header /\ body' = body /\ count' = count
    BY <2>1 DEF vars
  <2> QED  BY <1>1, <2>1, <2>2, NothingNew
<1>7. Kept
  BY <1>3, <1>4, <1>5, <1>6 DEF SNext
<1> QED  BY <1>2, <1>7 DEF SInv, Before, Kept

\* Parser, document and caches are in step, whatever the server sends: the parser is
\* where the document is, and knows of the item at hand what that has said (json.c 64-372).
THEOREM InStep ==
  ASSUME NoNulls, OrderFree
  PROVE  SSpec => []SInv
  BY SInitInv, SNextInv, PTL DEF SSpec

\* For any items, in any nesting and any order of their keys: the payload is what was
\* answered, so long as no key is left null and a type and a collection type agree
\* whichever comes first (json.c 64-372).
THEOREM PayloadAlwaysAnswer ==
  ASSUME NoNulls, OrderFree
  PROVE  SSpec => []PayloadIsAnswer
<1>1. SInv => PayloadIsAnswer
  <2> SUFFICES ASSUME SInv PROVE PayloadIsAnswer
    OBVIOUS
  <2>1. DocInv /\ ParserInv /\ AnswerInv
    BY DEF SInv, Before
  <2>2. ASSUME ~ doc.asked PROVE parser_state = "IDLE"
    <3>1. Depths /\ (Size >= 1 => doc.asked)
      BY <2>1, DepthsHold DEF DocInv, Nesting
    <3>2. doc.stack = <<>>
      BY <2>2, <3>1 DEF Depths
    <3> QED  BY <2>1, <3>2 DEF ParserInv, Place
  <2> QED  BY <2>1, <2>2 DEF PayloadIsAnswer, ParserInv, AnswerInv
<1> QED  BY <1>1, InStep, PTL

\* The number printed before an entry is always the one under which it is in the
\* payload (json.c 376-452, disk.c 228-242).
THEOREM NumbersAlwaysMatch ==
  ASSUME NoNulls, OrderFree
  PROVE  SSpec => []NumbersMatch
<1>1. SInv => NumbersMatch
  BY DEF SInv, Before, AnswerInv
<1> QED  BY <1>1, InStep, PTL

\* The parser and the menu use the caches by their operations, on records that are items:
\* what is shown of the caches for these holds of the program (json.c 376-452, menu.c).
THEOREM CallsAreOfTheCaches ==
  ASSUME NoNulls, OrderFree
  PROVE  SSpec => Spec
<1>1. SInit => Init
  BY DEF SInit
<1> QED  BY <1>1, InStep, SNextInv, PTL DEF SSpec, Spec

\* So under the parser and the menu the two files are still the plain lists, and every
\* call has the effect on them it is made for (disk.c 205-305).
THEOREM CachesStayLists ==
  ASSUME NoNulls, OrderFree
  PROVE  SSpec => RefinesLists /\ OperationsAgree
  BY CallsAreOfTheCaches, ImplementsLists, CallsHaveTheirEffect, PTL
=============================================================================
