------------------------------ MODULE MenuProofs ------------------------------
(***************************************************************************)
(* What the menu keeps, for any library and any lines of the grammar.      *)
(***************************************************************************)
EXTENDS Menu, SequenceTheorems, WellFoundedInduction, TLAPS

Folders == DOMAIN Children

\* The items of the menu at hand.
Listed == ToSet(Contents)

\* Every item of a path is in the folder below it, or is a search.
Follows(s, item) == item = Search \/ \E n \in DOMAIN Children[Last(s)] : item = Children[Last(s)][n]
IsPath(s) ==
    /\ s # <<>> => s[1] = Root
    /\ \A i \in 1 .. Len(s) - 1 : s[i + 1] = Search \/ \E n \in DOMAIN Children[s[i]] : s[i + 1] = Children[s[i]][n]

\* The numbers that a range goes through in a menu with contents c, or all of them, and
\* the line with them written out.
Numbers(a, c) ==
    IF a.do = "range" THEN Positions(a.l, a.r, Len(c)) ELSE Positions(1, Len(c), Len(c))
Digits(ps) == [k \in DOMAIN ps |-> Digest(ps[k])]
Written(l, c) == Digits(Numbers(Head(l), c)) \o Tail(l)

\* What a line does not select, and that it selects just one item.
NoFolders(s) == \A n \in 1 .. Len(s) : ~ IsFolder(s[n])
Nothing(l, c) == Selection(l, c) = <<>>
NoFolder(l, c) == NoFolders(Selection(l, c))
OneItem(l, c) == Len(Selection(l, c)) = 1

\* Nothing has been done for the line at hand.
Untouched == stack # <<>> /\ Last(stack) = context /\ playlist = <<>>
Idle == Untouched /\ filters_cmd = filters

Types ==
    /\ at \in {"menu", "print", "prompt", "parse"}
    /\ stack \in Seq(Folders)
    /\ context \in Folders \cup {NULL}
    /\ filters \subseteq FilterKinds /\ filters_cmd \subseteq FilterKinds
    /\ IsPath(stack)
    /\ ~ Contradictory(filters) /\ ~ Contradictory(filters_cmd)
    /\ at # "menu" => context \in Folders

PrintInv ==
    at = "print" =>
        /\ filters_cmd = filters /\ playlist = <<>>
        /\ query = QueryOf(TypeOf[context], filters)
        /\ IF stack = <<>> THEN context = Root ELSE Follows(stack, context)

PromptInv ==
    at = "prompt" =>
        /\ cmd \in {"VALIDATE_START", "VALIDATE_OK", "SUCCESS"} \cup Failures
        /\ cmd # "SUCCESS" => Idle
        /\ cmd = "VALIDATE_OK" => Filtering(line) \/ (Selecting(line) /\ (NoFolder(line, Contents) \/ OneItem(line, Contents)))

\* The first pass over selectors: what it has not seen yet decides about the line.
Validated ==
    /\ cmd \in {"VALIDATE_START", "VALIDATE_ATOMS", "VALIDATE_FOLDER", "FAIL_FOLDER"}
    /\ Selecting(todo) /\ Selecting(line) /\ Idle
    /\ cmd = "VALIDATE_START" => /\ NoFolder(todo, Contents) => NoFolder(line, Contents)
                                 /\ OneItem(todo, Contents) => OneItem(line, Contents)
    /\ cmd = "VALIDATE_ATOMS" => (NoFolder(todo, Contents) => NoFolder(line, Contents))
    /\ cmd = "VALIDATE_FOLDER" => (Nothing(todo, Contents) => OneItem(line, Contents))

\* The second.
Dispatched ==
    /\ cmd = "VALIDATE_OK" /\ Selecting(todo) /\ stack # <<>>
    /\ NoFolder(todo, Contents) \/ (OneItem(todo, Contents) /\ Last(stack) = context)

ParseInv ==
    at = "parse" =>
        \/ Validated
        \/ Dispatched
        \/ cmd \in Marks /\ Selecting(todo)
        \/ cmd = "VALIDATE_START" /\ (Marking(todo) \/ OneWord(todo)) /\ Idle
        \/ cmd \in {"VALIDATE_START", "VALIDATE_OK"} /\ Filtering(todo) /\ Filtering(line) /\ Idle
        \/ cmd = "VALIDATE_FILTERS" /\ todo \in Seq(FilterLetters) /\ Filtering(line) /\ Idle
        \/ cmd = "SPECIAL" /\ todo \in Seq(FilterLetters) /\ Untouched
        \/ cmd = "SPECIAL" /\ todo = <<>>
        \/ cmd = "FAIL_SPECIAL" /\ todo \in Seq(FilterLetters) /\ Idle

AskedInv == at \in {"prompt", "parse"} /\ TypeOf[context] # "PLAYLIST" => asked = Shown

\* What the line has done so far.  The first pass has left out nothing that the line selects.
Unread ==
    /\ marked = <<>> /\ (todo = line \/ (Selecting(line) /\ Selecting(todo)))
    /\ Selection(todo, Contents) = Selected

\* The second has put some of it on the playlist, or opened the one folder.
Playing ==
    /\ Selecting(line) /\ Last(stack) = context /\ playlist \in Seq(Listed)
    /\ playlist \o Selection(todo, Contents) = Selected
    /\ NoFolders(Selected) \/ Len(Selected) = 1
Opened ==
    /\ Selecting(line) /\ playlist = <<>> /\ Selected = <<Last(stack)>>
    /\ Selection(todo, Contents) = <<>>

\* Some of it is marked.
MarkedSoFar ==
    /\ Marking(line) /\ Untouched /\ marked \in Seq(Listed)
    /\ marked \o Selection(todo, Contents) = Selected

Honouring ==
    /\ at = "parse" =>
         /\ cmd = "VALIDATE_START" => Unread
         /\ cmd = "VALIDATE_OK" => (Filtering(line) /\ Filtering(todo)) \/ Playing \/ Opened
         /\ cmd \in Marks => MarkedSoFar
         /\ cmd = "SPECIAL" => Selected = <<>>
    /\ SelectionHonoured

IInv == Types /\ PrintInv /\ PromptInv /\ ParseInv /\ AskedInv

-----------------------------------------------------------------------------
(* Paths                                                                   *)

\* Beyond the last item there may be what follows it.
LEMMA PathPush ==
  ASSUME NEW s \in Seq(Folders), IsPath(s), NEW item \in Folders,
         IF s = <<>> THEN item = Root ELSE Follows(s, item)
  PROVE  /\ Append(s, item) \in Seq(Folders) /\ IsPath(Append(s, item))
         /\ Append(s, item) # <<>> /\ Last(Append(s, item)) = item
<1> DEFINE t == Append(s, item)
<1>1. /\ t \in Seq(Folders) /\ Len(t) = Len(s) + 1 /\ Len(s) \in Nat
      /\ \A i \in 1 .. Len(s) : t[i] = s[i]
      /\ t[Len(s) + 1] = item
  BY AppendProperties, LenProperties
<1>2. t # <<>> /\ Last(t) = item
  BY <1>1 DEF Last
<1> HIDE DEF t
<1>3. s # <<>> => Len(s) >= 1
  BY <1>1
<1>4. t[1] = Root
  BY <1>1, <1>3 DEF IsPath
<1>5. ASSUME NEW i \in 1 .. Len(t) - 1
      PROVE  t[i + 1] = Search \/ \E n \in DOMAIN Children[t[i]] : t[i + 1] = Children[t[i]][n]
  <2>1. CASE i = Len(s)
    <3>1. s # <<>>
      BY <2>1, <1>1
    <3> QED  BY <1>1, <2>1, <3>1 DEF Follows, Last
  <2>2. CASE i < Len(s)
    <3>1. i \in 1 .. Len(s) - 1 /\ t[i] = s[i] /\ t[i + 1] = s[i + 1]
      BY <1>1, <2>2
    <3> QED  BY <3>1 DEF IsPath
  <2> QED  BY <1>1, <2>1, <2>2
<1> QED  BY <1>1, <1>2, <1>4, <1>5 DEF IsPath, t

\* A path without its last item is one, which that item follows.
LEMMA PathPop ==
  ASSUME NEW s \in Seq(Folders), IsPath(s), s # <<>>
  PROVE  /\ Front(s) \in Seq(Folders) /\ IsPath(Front(s)) /\ Last(s) \in Folders
         /\ IF Front(s) = <<>> THEN Last(s) = Root ELSE Follows(Front(s), Last(s))
<1> DEFINE t == Front(s)
<1>1. /\ Len(s) \in Nat \ {0} /\ \A i \in 1 .. Len(s) : s[i] \in Folders
      /\ t = [i \in 1 .. Len(s) - 1 |-> s[i]]
  BY DEF Front
<1>2. t \in Seq(Folders) /\ Len(t) = Len(s) - 1 /\ \A i \in 1 .. Len(t) : t[i] = s[i]
  BY <1>1
<1> HIDE DEF t
<1>3. IsPath(t)
  <2>1. t # <<>> => 1 \in 1 .. Len(t) /\ s # <<>>
    BY <1>1, <1>2
  <2>2. t # <<>> => t[1] = Root
    BY <1>2, <2>1 DEF IsPath
  <2>3. \A i \in 1 .. Len(t) - 1 : i \in 1 .. Len(s) - 1 /\ t[i] = s[i] /\ t[i + 1] = s[i + 1]
    BY <1>1, <1>2
  <2>4. ASSUME NEW i \in 1 .. Len(t) - 1
        PROVE  t[i + 1] = Search \/ \E n \in DOMAIN Children[t[i]] : t[i + 1] = Children[t[i]][n]
    <3>1. i \in 1 .. Len(s) - 1 /\ t[i] = s[i] /\ t[i + 1] = s[i + 1]
      BY <2>3
    <3>2. s[i + 1] = Search \/ \E n \in DOMAIN Children[s[i]] : s[i + 1] = Children[s[i]][n]
      BY <3>1 DEF IsPath
    <3> QED  BY <3>1, <3>2, Zenon
  <2> QED  BY <2>2, <2>4, Zenon DEF IsPath
<1>4. IF t = <<>> THEN Last(s) = Root ELSE Follows(t, Last(s))
  <2>1. CASE t = <<>>
    <3>1. Len(t) = 0
      BY <2>1
    <3>2. Len(s) = 1
      BY <1>1, <1>2, <3>1
    <3> QED  BY <2>1, <3>2 DEF IsPath, Last
  <2>2. CASE t # <<>>
    <3>1. Len(t) \in 1 .. Len(s) - 1 /\ Last(t) = s[Len(t)] /\ Last(s) = s[Len(t) + 1]
      BY <1>1, <1>2, <2>2 DEF Last
    <3> QED  BY <2>2, <3>1 DEF IsPath, Follows
  <2> QED  BY <2>1, <2>2
<1> QED  BY <1>1, <1>2, <1>3, <1>4 DEF t, Last

-----------------------------------------------------------------------------
(* Lines                                                                   *)

\* The first action tells of what kind a line is.
LEMMA HeadTells ==
  ASSUME NEW l, l # <<>>
  PROVE  /\ Selecting(l) => Head(l).do \in {"digest", "range", "all"}
         /\ l \in Seq(FilterLetters) => Head(l).do = "filter" /\ Head(l).filter \in FilterKinds
         /\ Marking(l) => Head(l).do = "mark"
         /\ Filtering(l) => Head(l).do = "filters"
         /\ OneWord(l) => Head(l).do \in {"dotdot", "help", "home", "search", "quit"}
<1>1. Selecting(l) => Head(l) \in Selectors
  BY DEF Selecting
<1>2. l \in Seq(FilterLetters) => Head(l) \in FilterLetters
  OBVIOUS
<1> QED  BY <1>1, <1>2 DEF Selectors, FilterLetters, Marking, Filtering, OneWord, Starts, Words

\* Selectors and letters one by one.
LEMMA TailKind ==
  ASSUME NEW S, NEW l \in Seq(S), l # <<>>
  PROVE  /\ Tail(l) \in Seq(S) /\ Head(l) \in S /\ Head(l) = l[1]
         /\ Len(l) \in Nat \ {0} /\ Len(Tail(l)) = Len(l) - 1
         /\ \A i \in 1 .. Len(l) - 1 : Tail(l)[i] = l[i + 1]
  OBVIOUS

-----------------------------------------------------------------------------
(* What a line selects                                                     *)

\* The order of the natural numbers as a relation, and what it being well-founded says.
LEMMA NatOrder == IsWellFoundedOn({p \in Nat \X Nat : p[1] < p[2]}, Nat)
BY NatLessThanWellFounded DEF OpToRel

\* Every set of natural numbers that is not empty has a least one.
LEMMA Least ==
  ASSUME NEW S \in SUBSET Nat, S # {}
  PROVE  \E n \in S : \A m \in S : n <= m
<1> DEFINE R == {p \in Nat \X Nat : p[1] < p[2]}
<1>1. PICK x \in S : \A y \in S : ~ (<<y, x>> \in R)
  BY NatOrder, WFMin
<1>2. \A y \in S : y \in Nat /\ x \in Nat /\ ~ (y < x)
  BY <1>1
<1> QED  BY <1>2

\* f[i] is the first i sequences of ss, one behind the other.
Joins(f, ss, n, T) ==
    /\ f \in [1 .. n -> Seq(T)]
    /\ \A i \in 1 .. n : f[i] = IF i = 1 THEN ss[i] ELSE f[i - 1] \o ss[i]

\* One more sequence can always be put behind the others.
LEMMA JoinsOneMore ==
  ASSUME NEW T, NEW ss \in Seq(Seq(T)), NEW m \in 1 .. Len(ss), NEW f, Joins(f, ss, m - 1, T)
  PROVE  \E g : Joins(g, ss, m, T)
<1> DEFINE next == IF m = 1 THEN ss[m] ELSE f[m - 1] \o ss[m]
           g == [i \in 1 .. m |-> IF i = m THEN next ELSE f[i]]
<1>1. m \in Nat \ {0} /\ ss[m] \in Seq(T)
  BY ElementOfSeq, LenProperties
<1>2. f \in [1 .. m - 1 -> Seq(T)]
  BY DEF Joins
<1>3. next \in Seq(T)
  <2>1. m # 1 => f[m - 1] \in Seq(T)
    BY <1>1, <1>2
  <2> QED  BY <1>1, <2>1, ConcatProperties
<1> HIDE DEF next
<1>4. g \in [1 .. m -> Seq(T)]
  BY <1>1, <1>2, <1>3
<1>5. ASSUME NEW i \in 1 .. m
      PROVE  g[i] = IF i = 1 THEN ss[i] ELSE g[i - 1] \o ss[i]
  <2>1. i # 1 => g[i - 1] = f[i - 1]
    BY <1>1
  <2>2. CASE i = m
    <3>1. g[m] = next
      BY <1>1
    <3> HIDE DEF g
    <3> QED  BY <2>1, <2>2, <3>1 DEF next
  <2>3. CASE i # m
    <3>1. g[i] = f[i] /\ i \in 1 .. m - 1
      BY <1>1, <2>3
    <3> HIDE DEF g
    <3> QED  BY <2>1, <3>1 DEF Joins
  <2> QED  BY <2>2, <2>3
<1> HIDE DEF g
<1> QED  BY <1>4, <1>5 DEF Joins

\* So all of them can.
LEMMA JoinsExist ==
  ASSUME NEW T, NEW ss \in Seq(Seq(T))
  PROVE  \A m \in 0 .. Len(ss) : \E f : Joins(f, ss, m, T)
<1> DEFINE Bad == {m \in 0 .. Len(ss) : ~ \E f : Joins(f, ss, m, T)}
<1>1. Len(ss) \in Nat
  BY LenProperties
<1>2. SUFFICES ASSUME Bad # {} PROVE FALSE
  OBVIOUS
<1>3. PICK m \in Bad : \A k \in Bad : m <= k
  <2>1. Bad \in SUBSET Nat
    BY <1>1
  <2> QED  BY <1>2, <2>1, Least
<1>4. CASE m = 0
  <2> DEFINE g == [i \in 1 .. 0 |-> <<>>]
  <2>1. Joins(g, ss, 0, T)
    BY DEF Joins
  <2> QED  BY <1>3, <1>4, <2>1
<1>5. CASE m # 0
  <2>1. m - 1 \in 0 .. Len(ss) /\ m \in 1 .. Len(ss) /\ ~ m <= m - 1
    BY <1>1, <1>3, <1>5
  <2>2. m - 1 \notin Bad
    BY <1>3, <2>1
  <2> QED  BY <1>3, <2>1, <2>2, JoinsOneMore
<1> QED  BY <1>4, <1>5

\* FlattenSeq does it.
LEMMA FlattenJoins ==
  ASSUME NEW T, NEW ss \in Seq(Seq(T)), ss # <<>>
  PROVE  \E f : Joins(f, ss, Len(ss), T) /\ FlattenSeq(ss) = f[Len(ss)]
<1> DEFINE n == Len(ss)
           Body(f) == [i \in 1 .. n |-> IF i = 1 THEN ss[i] ELSE f[i - 1] \o ss[i]]
           flat == CHOOSE f : f = Body(f)
<1>1. n \in Nat \ {0}
  BY EmptySeq
<1>2. FlattenSeq(ss) = flat[n]
  BY <1>1 DEF FlattenSeq
<1>3. PICK g : Joins(g, ss, n, T)
  BY <1>1, JoinsExist
<1>4. g = Body(g)
  BY <1>3 DEF Joins
<1>5. flat = Body(flat)
  <2> HIDE DEF Body
  <2> QED  BY <1>4
<1> HIDE DEF flat, n
<1>6. \A i \in 1 .. n : flat[i] = IF i = 1 THEN ss[i] ELSE flat[i - 1] \o ss[i]
  BY <1>5
<1> DEFINE Bad == {i \in 1 .. n : flat[i] # g[i]}
<1>7. Bad = {}
  <2> SUFFICES ASSUME Bad # {} PROVE FALSE
    OBVIOUS
  <2>1. PICK i \in Bad : \A k \in Bad : i <= k
    <3>1. Bad \in SUBSET Nat
      BY <1>1
    <3> QED  BY <3>1, Least
  <2>2. g[i] = IF i = 1 THEN ss[i] ELSE g[i - 1] \o ss[i]
    BY <1>3 DEF Joins
  <2>3. i # 1 => flat[i - 1] = g[i - 1]
    <3>1. i # 1 => i - 1 \in 1 .. n /\ ~ i <= i - 1
      BY <1>1
    <3> QED  BY <2>1, <3>1
  <2> QED  BY <1>6, <2>2, <2>3
<1>8. flat[n] = g[n]
  BY <1>1, <1>7
<1> QED  BY <1>2, <1>3, <1>8 DEF n


\* f starts with x and goes on as g does.
Behind(f, g, r, x, n, T) ==
    /\ r \in [1 .. n -> Seq(T)] /\ g \in [1 .. n -> Seq(T)]
    /\ f[1] = x
    /\ \A i \in 1 .. n : f[i + 1] = f[i] \o r[i]
    /\ \A i \in 1 .. n : g[i] = IF i = 1 THEN r[i] ELSE g[i - 1] \o r[i]

\* What is put behind the first sequence of several is the others joined.
LEMMA JoinsBehind ==
  ASSUME NEW T, NEW n \in Nat, NEW x \in Seq(T), NEW f, NEW r, NEW g, Behind(f, g, r, x, n, T)
  PROVE  \A i \in 1 .. n : f[i + 1] = x \o g[i]
<1> DEFINE Bad == {i \in 1 .. n : f[i + 1] # x \o g[i]}
<1>1. ASSUME NEW i \in Bad, \A k \in Bad : i <= k
      PROVE  FALSE
  <2>1. i \in 1 .. n /\ f[i + 1] # x \o g[i]
    OBVIOUS
  <2>2. i - 1 \in Bad => i <= i - 1
    BY <1>1
  <2> HIDE DEF Bad
  <2>3. /\ f[i + 1] = f[i] \o r[i] /\ r[i] \in Seq(T) /\ f[1] = x
        /\ g[i] = IF i = 1 THEN r[i] ELSE g[i - 1] \o r[i]
    BY <2>1, Zenon DEF Behind
  <2>4. i # 1
    BY <2>1, <2>3
  <2>5. i - 1 \in 1 .. n /\ (i - 1) + 1 = i /\ ~ i <= i - 1
    BY <2>1, <2>4
  <2>6. f[i] = x \o g[i - 1]
    BY <2>2, <2>5 DEF Bad
  <2>7. g[i - 1] \in Seq(T)
    BY <2>5 DEF Behind
  <2> DEFINE v == g[i - 1]
             w == r[i]
  <2>8. v \in Seq(T) /\ w \in Seq(T)
    BY <2>3, <2>7
  <2> HIDE DEF v, w
  <2>9. (x \o v) \o w = x \o (v \o w)
    BY <2>8, ConcatAssociative, SMTT(30)
  <2> QED  BY <2>1, <2>3, <2>4, <2>6, <2>9 DEF v, w
<1>2. Bad \in SUBSET Nat
  OBVIOUS
<1>3. Bad = {}
  <2> HIDE DEF Bad
  <2> QED  BY <1>1, <1>2, Least, Zenon
<1> QED  BY <1>3

\* The first of the sequences, and the others behind it.
LEMMA FlattenCons ==
  ASSUME NEW T, NEW ss \in Seq(Seq(T)), ss # <<>>
  PROVE  /\ FlattenSeq(ss) \in Seq(T) /\ FlattenSeq(Tail(ss)) \in Seq(T)
         /\ FlattenSeq(ss) = ss[1] \o FlattenSeq(Tail(ss))
<1> DEFINE n == Len(ss)
           rest == Tail(ss)
<1>1. /\ n \in Nat \ {0} /\ rest \in Seq(Seq(T)) /\ Len(rest) = n - 1
      /\ \A i \in 1 .. n : ss[i] \in Seq(T)
      /\ \A i \in 1 .. n - 1 : rest[i] = ss[i + 1]
  BY EmptySeq, HeadTailProperties, ElementOfSeq
<1>2. PICK f : Joins(f, ss, n, T) /\ FlattenSeq(ss) = f[n]
  BY FlattenJoins
<1> HIDE DEF n, rest
<1>3. n \in Nat \ {0}
  BY <1>1
<1>4. /\ f \in [1 .. n -> Seq(T)]
      /\ \A i \in 1 .. n : f[i] = IF i = 1 THEN ss[i] ELSE f[i - 1] \o ss[i]
  BY <1>2 DEF Joins
<1>5. f[n] \in Seq(T) /\ f[1] = ss[1] /\ ss[1] \in Seq(T)
  <2>1. 1 \in 1 .. n /\ n \in 1 .. n
    BY <1>3
  <2> QED  BY <1>1, <1>4, <2>1
<1>6. CASE n = 1
  <2>1. rest = <<>>
    BY <1>1, <1>6, EmptySeq
  <2>2. FlattenSeq(rest) = <<>>
    BY <2>1 DEF FlattenSeq
  <2>3. ss[1] \o <<>> = ss[1] /\ <<>> \in Seq(T)
    BY <1>5, ConcatEmptySeq, EmptySeq
  <2> QED  BY <1>2, <1>5, <1>6, <2>2, <2>3 DEF rest
<1>7. CASE n # 1
  <2>1. rest # <<>>
    BY <1>1, <1>7, EmptySeq
  <2>2. PICK g : Joins(g, rest, n - 1, T) /\ FlattenSeq(rest) = g[n - 1]
    BY <1>1, <2>1, FlattenJoins
  <2>3. /\ g \in [1 .. n - 1 -> Seq(T)]
        /\ \A i \in 1 .. n - 1 : g[i] = IF i = 1 THEN rest[i] ELSE g[i - 1] \o rest[i]
    BY <2>2 DEF Joins
  <2> DEFINE r == [i \in 1 .. n - 1 |-> rest[i]]
  <2>4. \A i \in 1 .. n - 1 : i + 1 \in 1 .. n /\ i + 1 # 1 /\ (i + 1) - 1 = i
    BY <1>3
  <2>5. r \in [1 .. n - 1 -> Seq(T)]
    BY <1>1, <2>4
  <2>6. \A i \in 1 .. n - 1 : f[i + 1] = f[i] \o r[i]
    BY <1>1, <1>4, <2>4
  <2>7. \A i \in 1 .. n - 1 : g[i] = IF i = 1 THEN r[i] ELSE g[i - 1] \o r[i]
    BY <2>3
  <2> HIDE DEF r
  <2>8. n - 1 \in Nat /\ n - 1 \in 1 .. n - 1 /\ (n - 1) + 1 = n
    BY <1>3, <1>7
  <2>9. \A i \in 1 .. n - 1 : f[i + 1] = ss[1] \o g[i]
    <3> DEFINE m == n - 1
               x == ss[1]
    <3>1. m \in Nat /\ x \in Seq(T)
      BY <1>5, <2>8
    <3>2. Behind(f, g, r, x, m, T)
      BY <1>5, <2>3, <2>5, <2>6, <2>7 DEF Behind
    <3> HIDE DEF m, x
    <3>3. \A i \in 1 .. m : f[i + 1] = x \o g[i]
      BY <3>1, <3>2, JoinsBehind
    <3> QED  BY <3>3 DEF m, x
  <2>10. f[n] = ss[1] \o g[n - 1] /\ g[n - 1] \in Seq(T)
    BY <2>3, <2>8, <2>9
  <2> QED  BY <1>2, <1>5, <2>2, <2>10 DEF rest
<1> QED  BY <1>6, <1>7

\* What a selector selects are items of the menu.
LEMMA BetweenIs ==
  ASSUME NEW T, NEW c \in Seq(T), NEW l \in Int, NEW r \in Int
  PROVE  Between(l, r, c) \in Seq(T)
<1> DEFINE m == IF l < 1 THEN 1 ELSE l
           n == IF r > Len(c) THEN Len(c) ELSE r
<1>1. m \in Int /\ n \in Int /\ \A i \in m .. n : i \in 1 .. Len(c)
  BY LenProperties
<1>2. \A i \in m .. n : c[i] \in T
  BY <1>1, ElementOfSeq
<1> HIDE DEF m, n
<1>3. SubSeq(c, m, n) \in Seq(T)
  BY <1>1, <1>2, SubSeqProperties
<1> QED  BY <1>3 DEF m, n, Between

\* What reversing a sequence makes of it.
LEMMA ReverseIs ==
  ASSUME NEW T, NEW s \in Seq(T)
  PROVE  /\ Reverse(s) \in Seq(T) /\ Len(Reverse(s)) = Len(s)
         /\ \A i \in 1 .. Len(s) : Reverse(s)[i] = s[(Len(s) - i) + 1]
<1>1. Len(s) \in Nat /\ \A i \in 1 .. Len(s) : (Len(s) - i) + 1 \in 1 .. Len(s)
  BY LenProperties
<1>2. Reverse(s) \in [1 .. Len(s) -> T]
  <2>1. \A i \in 1 .. Len(s) : s[(Len(s) - i) + 1] \in T
    BY <1>1, ElementOfSeq
  <2> QED  BY <2>1 DEF Reverse
<1>3. Reverse(s) \in Seq(T)
  BY <1>1, <1>2, SeqDef
<1>4. Len(Reverse(s)) = Len(s)
  BY <1>1, <1>2, <1>3, LenProperties
<1> QED  BY <1>3, <1>4 DEF Reverse

\* The same of every action: what it selects are items of the menu.
LEMMA SelectsIs ==
  ASSUME NEW T, NEW c \in Seq(T), NEW a \in Actions
  PROVE  Selects(a, c) \in Seq(T)
<1>1. CASE a.do = "digest"
  <2>1. a.n \in Int
    BY <1>1 DEF Actions, Selectors, FilterLetters, Words
  <2> QED  BY <1>1, <2>1, BetweenIs DEF Selects
<1>2. CASE a.do = "range"
  <2>1. a.l \in Int /\ a.r \in Int
    BY <1>2 DEF Actions, Selectors, FilterLetters, Words
  <2>2. InRange(a.l, a.r, c) \in Seq(T)
    BY <2>1, BetweenIs, ReverseIs DEF InRange
  <2> QED  BY <1>2, <2>2 DEF Selects
<1>3. CASE a.do \notin {"digest", "range"}
  BY <1>3, EmptySeq DEF Selects
<1> QED  BY <1>1, <1>2, <1>3

\* A line selects what its first action does, and then what the others do.
LEMMA SelectionCons ==
  ASSUME NEW T, NEW c \in Seq(T), NEW l \in Seq(Actions), l # <<>>
  PROVE  /\ Selection(l, c) \in Seq(T) /\ Selection(Tail(l), c) \in Seq(T)
         /\ Selects(Head(l), c) \in Seq(T)
         /\ Selection(l, c) = Selects(Head(l), c) \o Selection(Tail(l), c)
<1> DEFINE Parts(k) == [i \in DOMAIN k |-> Selects(k[i], c)]
<1>1. /\ Len(l) \in Nat \ {0} /\ Head(l) = l[1] /\ Tail(l) \in Seq(Actions)
      /\ Len(Tail(l)) = Len(l) - 1 /\ \A i \in 1 .. Len(l) - 1 : Tail(l)[i] = l[i + 1]
  BY EmptySeq, HeadTailProperties
<1>2. ASSUME NEW k \in Seq(Actions)
      PROVE  Parts(k) \in Seq(Seq(T)) /\ Len(Parts(k)) = Len(k)
             /\ \A i \in 1 .. Len(k) : Parts(k)[i] = Selects(k[i], c)
  <2>1. Len(k) \in Nat /\ DOMAIN k = 1 .. Len(k) /\ \A i \in 1 .. Len(k) : Selects(k[i], c) \in Seq(T)
    BY ElementOfSeq, LenProperties, SelectsIs
  <2>2. Parts(k) \in [1 .. Len(k) -> Seq(T)] /\ \A i \in 1 .. Len(k) : Parts(k)[i] = Selects(k[i], c)
    BY <2>1
  <2> HIDE DEF Parts
  <2>3. Parts(k) \in Seq(Seq(T))
    BY <2>1, <2>2, SeqDef
  <2>4. Len(Parts(k)) = Len(k)
    BY <2>1, <2>2, <2>3, LenProperties
  <2> QED  BY <2>2, <2>3, <2>4
<1>3. Selection(l, c) = FlattenSeq(Parts(l)) /\ Selection(Tail(l), c) = FlattenSeq(Parts(Tail(l)))
  BY DEF Selection
<1> HIDE DEF Parts
<1>4. Parts(l) \in Seq(Seq(T)) /\ Parts(l) # <<>> /\ Parts(l)[1] = Selects(Head(l), c)
  BY <1>1, <1>2, EmptySeq
<1>5. Tail(Parts(l)) = Parts(Tail(l))
  <2> DEFINE s == Tail(Parts(l))
             t == Parts(Tail(l))
  <2>1. /\ s \in Seq(Seq(T)) /\ Len(s) = Len(l) - 1
        /\ \A i \in 1 .. Len(l) - 1 : s[i] = Parts(l)[i + 1]
    BY <1>1, <1>2, <1>4, HeadTailProperties, SMTT(30)
  <2>2. t \in Seq(Seq(T)) /\ Len(t) = Len(l) - 1 /\ \A i \in 1 .. Len(l) - 1 : t[i] = Selects(Tail(l)[i], c)
    BY <1>1, <1>2
  <2>3. ASSUME NEW i \in 1 .. Len(l) - 1 PROVE s[i] = t[i]
    <3>1. i + 1 \in 1 .. Len(l) /\ Tail(l)[i] = l[i + 1]
      BY <1>1
    <3>2. Parts(l)[i + 1] = Selects(l[i + 1], c)
      BY <1>2, <3>1
    <3> QED  BY <2>1, <2>2, <3>1, <3>2
  <2> HIDE DEF s, t
  <2>4. s = t
    BY <2>1, <2>2, <2>3, SeqEqual
  <2> QED  BY <2>4 DEF s, t
<1>6. /\ FlattenSeq(Parts(l)) \in Seq(T) /\ FlattenSeq(Tail(Parts(l))) \in Seq(T)
      /\ FlattenSeq(Parts(l)) = Parts(l)[1] \o FlattenSeq(Tail(Parts(l)))
  BY <1>4, FlattenCons
<1>7. Head(l) \in Actions
  BY HeadTailProperties
<1>8. Selects(Head(l), c) \in Seq(T)
  BY <1>7, SelectsIs
<1> QED  BY <1>3, <1>4, <1>5, <1>6, <1>8, Zenon

\* An empty line selects nothing.
LEMMA SelectionNone == ASSUME NEW c PROVE Selection(<<>>, c) = <<>>
BY DEF Selection, FlattenSeq

\* One number is one item, or none.
LEMMA BetweenOne ==
  ASSUME NEW T, NEW c \in Seq(T), NEW a \in Nat
  PROVE  /\ a \in 1 .. Len(c) => Between(a, a, c) = <<c[a]>> /\ c[a] \in T
         /\ a \notin 1 .. Len(c) => Between(a, a, c) = <<>>
<1>0. Len(c) \in Nat
  BY LenProperties
<1> DEFINE len == Len(c)
<1>1. Between(a, a, c) = SubSeq(c, IF a < 1 THEN 1 ELSE a, IF a > len THEN len ELSE a)
  BY DEF Between
<1>2. len \in Nat
  BY <1>0
<1>3. ASSUME a \in 1 .. len PROVE SubSeq(c, a, a) = <<c[a]>> /\ c[a] \in T
  <2>1. SubSeq(c, a, a) = <<c[a]>> \o SubSeq(c, a + 1, a)
    <3>1. a \in 1 .. Len(c) /\ a \in a .. Len(c)
      BY <1>2, <1>3
    <3> QED  BY <3>1, SubSeqRecursiveFirst
  <2>2. SubSeq(c, a + 1, a) = <<>>
    BY SubSeqEmpty
  <2>3. c[a] \in T
    BY <1>3, ElementOfSeq
  <2>4. <<c[a]>> \in Seq(T)
    BY <2>3
  <2>5. <<c[a]>> \o <<>> = <<c[a]>>
    BY <2>4, ConcatEmptySeq
  <2> QED  BY <2>1, <2>2, <2>3, <2>5
<1>4. ASSUME a \notin 1 .. len
      PROVE  SubSeq(c, IF a < 1 THEN 1 ELSE a, IF a > len THEN len ELSE a) = <<>>
  <2> DEFINE m == IF a < 1 THEN 1 ELSE a
             n == IF a > len THEN len ELSE a
  <2> HIDE DEF len
  <2>1. m \in Int /\ n \in Int /\ n < m
    BY <1>2, <1>4
  <2> HIDE DEF m, n
  <2>2. SubSeq(c, m, n) = <<>>
    BY <2>1, SubSeqEmpty
  <2> QED  BY <2>2 DEF m, n
<1>5. ASSUME a \in 1 .. len
      PROVE  (IF a < 1 THEN 1 ELSE a) = a /\ (IF a > len THEN len ELSE a) = a
  <2> HIDE DEF len
  <2> QED  BY <1>2, <1>5
<1> HIDE DEF len
<1>6. a \in 1 .. len => Between(a, a, c) = <<c[a]>> /\ c[a] \in T
  BY <1>1, <1>3, <1>5
<1>7. a \notin 1 .. len => Between(a, a, c) = <<>>
  BY <1>1, <1>4
<1> QED  BY <1>6, <1>7 DEF len

\* A range upwards is its first number and the others.
LEMMA BetweenFirst ==
  ASSUME NEW T, NEW c \in Seq(T), NEW a \in Nat, NEW b \in Nat, a <= b
  PROVE  Between(a, b, c) = Between(a, a, c) \o Between(a + 1, b, c)
<1> DEFINE len == Len(c)
<1>1. len \in Nat
  BY LenProperties
<1>2. /\ Between(a, b, c) = SubSeq(c, IF a < 1 THEN 1 ELSE a, IF b > len THEN len ELSE b)
      /\ Between(a + 1, b, c) = SubSeq(c, IF a + 1 < 1 THEN 1 ELSE a + 1, IF b > len THEN len ELSE b)
  BY DEF Between
<1> DEFINE n == IF b > len THEN len ELSE b
<1> HIDE DEF len
<1>3. Between(a, b, c) = SubSeq(c, IF a < 1 THEN 1 ELSE a, n) /\ Between(a + 1, b, c) = SubSeq(c, a + 1, n)
  <2>1. (IF a + 1 < 1 THEN 1 ELSE a + 1) = a + 1
    OBVIOUS
  <2> QED  BY <1>2, <2>1
<1>4. n \in Nat /\ n <= len /\ (a <= len => a <= n)
  BY <1>1
<1>5. Between(a + 1, b, c) \in Seq(T)
  BY BetweenIs
<1> HIDE DEF n
<1>6. <<>> \o Between(a + 1, b, c) = Between(a + 1, b, c)
  BY <1>5, ConcatEmptySeq
<1>7. CASE a \in 1 .. len
  <2>1. a \in 1 .. Len(c) /\ n \in a .. Len(c)
    BY <1>1, <1>4, <1>7 DEF len
  <2>2. SubSeq(c, a, n) = <<c[a]>> \o SubSeq(c, a + 1, n)
    BY <2>1, SubSeqRecursiveFirst
  <2>3. Between(a, a, c) = <<c[a]>>
    BY <1>7, BetweenOne DEF len
  <2>4. (IF a < 1 THEN 1 ELSE a) = a
    BY <1>7
  <2> QED  BY <1>3, <2>2, <2>3, <2>4, Zenon
<1>8. CASE a \notin 1 .. len
  <2>1. Between(a, a, c) = <<>>
    BY <1>8, BetweenOne DEF len
  <2>2. CASE a = 0
    <3>1. (IF a < 1 THEN 1 ELSE a) = a + 1
      BY <2>2
    <3>2. Between(a, b, c) = Between(a + 1, b, c)
      BY <1>3, <3>1, Zenon
    <3> QED  BY <1>6, <2>1, <3>2, Zenon
  <2>3. CASE a # 0
    <3>1. n < a /\ n < a + 1 /\ (IF a < 1 THEN 1 ELSE a) = a
      BY <1>1, <1>4, <1>8, <2>3
    <3>2. SubSeq(c, a, n) = <<>> /\ SubSeq(c, a + 1, n) = <<>>
      BY <1>4, <3>1, SubSeqEmpty
    <3>3. Between(a, b, c) = <<>> /\ Between(a + 1, b, c) = <<>>
      BY <1>3, <3>1, <3>2
    <3> QED  BY <1>6, <2>1, <3>3, Zenon
  <2> QED  BY <2>2, <2>3
<1> QED  BY <1>7, <1>8

\* And its last number after the others.
LEMMA BetweenLast ==
  ASSUME NEW T, NEW c \in Seq(T), NEW a \in Nat, NEW b \in Nat, a <= b
  PROVE  Between(a, b, c) = Between(a, b - 1, c) \o Between(b, b, c)
<1> DEFINE len == Len(c)
           m == IF a < 1 THEN 1 ELSE a
<1>1. len \in Nat
  BY LenProperties
<1>2. /\ Between(a, b, c) = SubSeq(c, m, IF b > len THEN len ELSE b)
      /\ Between(a, b - 1, c) = SubSeq(c, m, IF b - 1 > len THEN len ELSE b - 1)
  BY DEF Between
<1> HIDE DEF len
<1>3. m \in Nat \ {0} /\ (b # 0 => m <= b) /\ (b = 0 => m = 1)
  OBVIOUS
<1> HIDE DEF m
<1>4. Between(a, b - 1, c) \in Seq(T)
  BY BetweenIs
<1>5. Between(a, b - 1, c) \o <<>> = Between(a, b - 1, c)
  BY <1>4, ConcatEmptySeq
<1>6. CASE b \in 1 .. len
  <2>1. b # 0 /\ (IF b > len THEN len ELSE b) = b /\ (IF b - 1 > len THEN len ELSE b - 1) = b - 1
    BY <1>1, <1>6
  <2>2. m \in 1 .. Len(c) /\ b \in m .. Len(c)
    BY <1>1, <1>3, <1>6, <2>1 DEF len
  <2>3. SubSeq(c, m, b) = SubSeq(c, m, b - 1) \o <<c[b]>>
    BY <2>2, SubSeqRecursiveSecond
  <2>4. Between(b, b, c) = <<c[b]>>
    BY <1>6, BetweenOne DEF len
  <2> QED  BY <1>2, <2>1, <2>3, <2>4, Zenon
<1>7. CASE b \notin 1 .. len
  <2>1. Between(b, b, c) = <<>>
    BY <1>7, BetweenOne DEF len
  <2>2. CASE b = 0
    <3>1. /\ (IF b > len THEN len ELSE b) = 0 /\ (IF b - 1 > len THEN len ELSE b - 1) = -1
          /\ m = 1
      BY <1>1, <1>3, <2>2
    <3>2. SubSeq(c, 1, 0) = <<>> /\ SubSeq(c, 1, -1) = <<>>
      BY SubSeqEmpty
    <3>3. Between(a, b, c) = <<>> /\ Between(a, b - 1, c) = <<>>
      BY <1>2, <3>1, <3>2, Zenon
    <3> QED  BY <1>5, <2>1, <3>3, Zenon
  <2>3. CASE b # 0
    <3>1. (IF b > len THEN len ELSE b) = len /\ (IF b - 1 > len THEN len ELSE b - 1) = len
      BY <1>1, <1>7, <2>3
    <3> QED  BY <1>2, <1>5, <2>1, <3>1, Zenon
  <2> QED  BY <2>2, <2>3
<1> QED  BY <1>6, <1>7

\* Backwards, what comes last is first.
LEMMA ReverseLast ==
  ASSUME NEW T, NEW s \in Seq(T), NEW x \in T
  PROVE  Reverse(s \o <<x>>) = <<x>> \o Reverse(s)
<1> DEFINE u == <<x>>
           p == s \o u
           q == u \o Reverse(s)
           len == Len(s)
<1>1. u \in Seq(T) /\ Len(u) = 1 /\ u[1] = x
  OBVIOUS
<1>2. len \in Nat
  BY LenProperties
<1> HIDE DEF u
<1>3. /\ p \in Seq(T) /\ Len(p) = len + 1
      /\ \A i \in 1 .. len + 1 : p[i] = IF i <= len THEN s[i] ELSE u[i - len]
  BY <1>1, ConcatProperties
<1>4. /\ Reverse(s) \in Seq(T) /\ Len(Reverse(s)) = len
      /\ \A i \in 1 .. len : Reverse(s)[i] = s[(len - i) + 1]
  BY ReverseIs
<1>5. /\ q \in Seq(T) /\ Len(q) = 1 + len
      /\ \A i \in 1 .. 1 + len : q[i] = IF i <= 1 THEN u[i] ELSE Reverse(s)[i - 1]
  <2> DEFINE w == Reverse(s)
  <2>1. w \in Seq(T) /\ Len(w) = len
    BY <1>4
  <2> HIDE DEF w, len
  <2>2. /\ u \o w \in Seq(T) /\ Len(u \o w) = Len(u) + Len(w)
        /\ \A i \in 1 .. Len(u) + Len(w) : (u \o w)[i] = IF i <= Len(u) THEN u[i] ELSE w[i - Len(u)]
    <3>1. u \in Seq(T) /\ w \in Seq(T)
      BY <1>1, <2>1
    <3> QED  BY <3>1, ConcatProperties
  <2>3. /\ u \o w \in Seq(T) /\ Len(u \o w) = 1 + len
        /\ \A i \in 1 .. 1 + len : (u \o w)[i] = IF i <= 1 THEN u[i] ELSE w[i - 1]
    BY <1>1, <2>1, <2>2
  <2> QED  BY <2>3 DEF w
<1> HIDE DEF p, q, len
<1>6. /\ Reverse(p) \in Seq(T) /\ Len(Reverse(p)) = len + 1
      /\ \A i \in 1 .. len + 1 : Reverse(p)[i] = p[((len + 1) - i) + 1]
  BY <1>3, ReverseIs
<1> DEFINE rp == Reverse(p)
           rs == Reverse(s)
<1>7. /\ \A i \in 1 .. len + 1 : rp[i] = p[((len + 1) - i) + 1]
      /\ \A i \in 1 .. len : rs[i] = s[(len - i) + 1]
      /\ \A i \in 1 .. 1 + len : q[i] = IF i <= 1 THEN u[i] ELSE rs[i - 1]
      /\ \A i \in 1 .. len + 1 : p[i] = IF i <= len THEN s[i] ELSE u[i - len]
  BY <1>3, <1>4, <1>5, <1>6
<1> HIDE DEF rp, rs
<1>8. ASSUME NEW i \in 1 .. len + 1 PROVE rp[i] = q[i]
  <2>1. CASE i = 1
    <3>1. ((len + 1) - i) + 1 = len + 1 /\ len + 1 \in 1 .. len + 1 /\ ~ len + 1 <= len /\ (len + 1) - len = 1
          /\ i \in 1 .. 1 + len /\ i <= 1
      BY <1>2, <2>1
    <3>2. rp[i] = p[len + 1] /\ p[len + 1] = u[1] /\ q[i] = u[1]
      BY <1>7, <2>1, <3>1
    <3> QED  BY <3>2
  <2>2. CASE i # 1
    <3>1. /\ i - 1 \in 1 .. len /\ ~ i <= 1 /\ i \in 1 .. 1 + len
          /\ ((len + 1) - i) + 1 \in 1 .. len + 1 /\ ((len + 1) - i) + 1 <= len
          /\ (len - (i - 1)) + 1 = ((len + 1) - i) + 1
      BY <1>2, <2>2
    <3>2. rp[i] = s[((len + 1) - i) + 1]
      BY <1>7, <3>1
    <3>3. q[i] = s[(len - (i - 1)) + 1]
      BY <1>7, <3>1
    <3> QED  BY <3>1, <3>2, <3>3
  <2> QED  BY <2>1, <2>2
<1>9. rp \in Seq(T) /\ Len(rp) = Len(q) /\ \A i \in 1 .. Len(rp) : rp[i] = q[i]
  <2>1. Len(rp) = len + 1 /\ rp \in Seq(T) /\ Len(q) = 1 + len
    BY <1>5, <1>6 DEF rp
  <2> QED  BY <1>2, <1>8, <2>1
<1>10. rp = q
  BY <1>5, <1>9, SeqEqual
<1> QED  BY <1>10 DEF rp, p, q, u

\* The actions e are the actions d without the first.
FirstOffIs(d, e) == d # <<>> /\ Len(e) = Len(d) - 1 /\ \A i \in 1 .. Len(d) - 1 : e[i] = d[i + 1]

\* A line that starts with d, without its first action, starts with e.
LEMMA FirstOff ==
  ASSUME NEW d \in Seq(Actions), NEW e \in Seq(Actions), NEW t \in Seq(Actions), FirstOffIs(d, e)
  PROVE  /\ d \o t \in Seq(Actions) /\ d \o t # <<>> /\ Head(d \o t) = d[1]
         /\ Tail(d \o t) = e \o t
<1> DEFINE p == d \o t
           q == e \o t
           m == Len(d)
           n == Len(t)
<1>1. m \in Nat \ {0} /\ n \in Nat /\ Len(e) = m - 1
  BY EmptySeq, LenProperties DEF FirstOffIs
<1>2. \A i \in 1 .. m - 1 : e[i] = d[i + 1]
  BY DEF FirstOffIs
<1>3. /\ p \in Seq(Actions) /\ Len(p) = m + n
      /\ \A i \in 1 .. m + n : p[i] = IF i <= m THEN d[i] ELSE t[i - m]
  BY ConcatProperties
<1>4. /\ q \in Seq(Actions) /\ Len(q) = (m - 1) + n
      /\ \A i \in 1 .. (m - 1) + n : q[i] = IF i <= m - 1 THEN e[i] ELSE t[i - (m - 1)]
  <2>1. /\ q \in Seq(Actions) /\ Len(q) = Len(e) + n
        /\ \A i \in 1 .. Len(e) + n : q[i] = IF i <= Len(e) THEN e[i] ELSE t[i - Len(e)]
    BY ConcatProperties
  <2> HIDE DEF q, n
  <2> QED  BY <1>1, <2>1
<1> HIDE DEF p, q, m, n
<1>5. p # <<>> /\ 1 \in 1 .. m + n /\ 1 <= m
  BY <1>1, <1>3, EmptySeq
<1>6. Head(p) = d[1]
  <2>1. Head(p) = p[1]
    BY <1>3, <1>5
  <2>2. p[1] = d[1]
    BY <1>3, <1>5
  <2> QED  BY <2>1, <2>2
<1>7. Tail(p) \in Seq(Actions) /\ Len(Tail(p)) = (m + n) - 1 /\ \A i \in 1 .. (m + n) - 1 : Tail(p)[i] = p[i + 1]
  BY <1>3, <1>5, HeadTailProperties
<1> DEFINE r == Tail(p)
<1>8. /\ r \in Seq(Actions) /\ Len(r) = Len(q) /\ Len(r) = (m + n) - 1
      /\ \A i \in 1 .. (m + n) - 1 : r[i] = p[i + 1]
  <2>1. (m + n) - 1 = (m - 1) + n
    BY <1>1
  <2> QED  BY <1>4, <1>7, <2>1
<1> HIDE DEF r
<1>9. ASSUME NEW i \in 1 .. (m + n) - 1 PROVE r[i] = q[i]
  <2>1. r[i] = IF i + 1 <= m THEN d[i + 1] ELSE t[(i + 1) - m]
    BY <1>1, <1>3, <1>8, SMTT(30)
  <2>2. q[i] = IF i <= m - 1 THEN e[i] ELSE t[i - (m - 1)]
    BY <1>1, <1>4
  <2>3. (i + 1 <= m <=> i <= m - 1) /\ (i + 1) - m = i - (m - 1)
    BY <1>1
  <2>4. i <= m - 1 => e[i] = d[i + 1]
    BY <1>1, <1>2
  <2> QED  BY <2>1, <2>2, <2>3, <2>4
<1>10. r = q
  BY <1>4, <1>8, <1>9, SeqEqual
<1> QED  BY <1>3, <1>5, <1>6, <1>10 DEF p, q, r

\* m numbers from a, upwards and downwards.
Up(a, m) == [k \in 1 .. m |-> Digest(a + k - 1)]
Down(a, m) == [k \in 1 .. m |-> Digest(a - k + 1)]

\* A number is a selector.
LEMMA DigestIs ==
  ASSUME NEW n \in Nat
  PROVE  Digest(n) \in Selectors /\ Digest(n).do = "digest" /\ Digest(n).n = n
BY DEF Digest, Actions, Selectors

\* What it selects.
LEMMA DigestSelects ==
  ASSUME NEW n \in Nat, NEW c
  PROVE  Selects(Digest(n), c) = Between(n, n, c)
BY DigestIs DEF Selects

\* Both are selectors, one for each number.
LEMMA UpIs ==
  ASSUME NEW a \in Nat, NEW m \in Nat
  PROVE  /\ Up(a, m) \in Seq(Selectors) /\ Up(a, m) \in Seq(Actions) /\ Len(Up(a, m)) = m
         /\ \A k \in 1 .. m : Up(a, m)[k] = Digest(a + k - 1)
<1>1. \A k \in 1 .. m : a + k - 1 \in Nat
  OBVIOUS
<1>2. Up(a, m) \in [1 .. m -> Selectors] /\ \A k \in 1 .. m : Up(a, m)[k] = Digest(a + k - 1)
  BY <1>1, DigestIs DEF Up
<1>3. Up(a, m) \in Seq(Selectors)
  BY <1>2, SeqDef
<1>4. Selectors \subseteq Actions
  BY DEF Actions
<1>5. Up(a, m) \in Seq(Actions)
  BY <1>3, <1>4, SeqMonotonic
<1> QED  BY <1>2, <1>3, <1>5, LenProperties

\* Downwards there are numbers as far as zero.
LEMMA DownIs ==
  ASSUME NEW a \in Nat, NEW m \in Nat, m <= a + 1
  PROVE  /\ Down(a, m) \in Seq(Selectors) /\ Down(a, m) \in Seq(Actions) /\ Len(Down(a, m)) = m
         /\ \A k \in 1 .. m : Down(a, m)[k] = Digest(a - k + 1)
<1>1. \A k \in 1 .. m : a - k + 1 \in Nat
  OBVIOUS
<1>2. Down(a, m) \in [1 .. m -> Selectors] /\ \A k \in 1 .. m : Down(a, m)[k] = Digest(a - k + 1)
  BY <1>1, DigestIs DEF Down
<1>3. Down(a, m) \in Seq(Selectors)
  BY <1>2, SeqDef
<1>4. Selectors \subseteq Actions
  BY DEF Actions
<1>5. Down(a, m) \in Seq(Actions)
  BY <1>3, <1>4, SeqMonotonic
<1> QED  BY <1>2, <1>3, <1>5, LenProperties

\* What the numbers before the line t select.
UpRight(a, m, t, c) == Selection(Up(a, m) \o t, c) = Between(a, a + m - 1, c) \o Selection(t, c)

\* One more number, below the others.
LEMMA UpOneMore ==
  ASSUME NEW T, NEW c \in Seq(T), NEW t \in Seq(Actions), NEW m \in Nat \ {0}, NEW a \in Nat,
         UpRight(a + 1, m - 1, t, c), Selection(t, c) \in Seq(T)
  PROVE  UpRight(a, m, t, c)
<1> DEFINE d == Up(a, m)
           e == Up(a + 1, m - 1)
           b == a + m - 1
           s == Selection(t, c)
<1>1. m - 1 \in Nat /\ a + 1 \in Nat /\ b \in Nat /\ a <= b /\ (a + 1) + (m - 1) - 1 = b
  OBVIOUS
<1>2. d \in Seq(Actions) /\ Len(d) = m /\ \A k \in 1 .. m : d[k] = Digest(a + k - 1)
  BY UpIs
<1>3. e \in Seq(Actions) /\ Len(e) = m - 1 /\ \A k \in 1 .. m - 1 : e[k] = Digest((a + 1) + k - 1)
  BY <1>1, UpIs
<1>4. s \in Seq(T) /\ Selection(e \o t, c) = Between(a + 1, b, c) \o s
  BY <1>1 DEF UpRight
<1> HIDE DEF d, e, b, s
<1>5. d # <<>> /\ d[1] = Digest(a)
  <2>1. 1 \in 1 .. m /\ a + 1 - 1 = a
    OBVIOUS
  <2>2. d[1] = Digest(a)
    BY <1>2, <2>1
  <2> QED  BY <1>2, <2>2, EmptySeq
<1>6. \A k \in 1 .. m - 1 : e[k] = d[k + 1]
  <2> SUFFICES ASSUME NEW k \in 1 .. m - 1 PROVE e[k] = d[k + 1]
    OBVIOUS
  <2>1. k + 1 \in 1 .. m /\ a + (k + 1) - 1 = (a + 1) + k - 1
    OBVIOUS
  <2> QED  BY <1>2, <1>3, <2>1
<1>7. d \o t \in Seq(Actions) /\ d \o t # <<>> /\ Head(d \o t) = Digest(a) /\ Tail(d \o t) = e \o t
  <2>1. FirstOffIs(d, e)
    BY <1>2, <1>3, <1>5, <1>6 DEF FirstOffIs
  <2>2. /\ d \o t \in Seq(Actions) /\ d \o t # <<>> /\ Head(d \o t) = d[1]
        /\ Tail(d \o t) = e \o t
    <3>1. d \in Seq(Actions) /\ e \in Seq(Actions)
      BY <1>2, <1>3
    <3> QED  BY <2>1, <3>1, FirstOff
  <2> QED  BY <1>5, <2>2, Zenon
<1>8. Selection(d \o t, c) = Selects(Digest(a), c) \o Selection(e \o t, c)
  BY <1>7, SelectionCons
<1>9. Selection(d \o t, c) = Between(a, a, c) \o (Between(a + 1, b, c) \o s)
  BY <1>4, <1>8, DigestSelects
<1>10. Between(a, b, c) = Between(a, a, c) \o Between(a + 1, b, c)
  BY <1>1, BetweenFirst
<1>11. Between(a, a, c) \in Seq(T) /\ Between(a + 1, b, c) \in Seq(T)
  BY <1>1, BetweenIs
<1>12. Selection(d \o t, c) = Between(a, b, c) \o s
  <2> DEFINE u == Between(a, a, c)
             v == Between(a + 1, b, c)
  <2>1. u \in Seq(T) /\ v \in Seq(T) /\ s \in Seq(T)
    BY <1>4, <1>11
  <2> HIDE DEF u, v
  <2>2. (u \o v) \o s = u \o (v \o s)
    BY <2>1, ConcatAssociative, SMTT(30)
  <2> QED  BY <1>9, <1>10, <2>2 DEF u, v
<1> QED  BY <1>12 DEF UpRight, d, b, s

\* Numbers typed one by one, upwards, select what the range of them does.
LEMMA UpSelects ==
  ASSUME NEW T, NEW c \in Seq(T), NEW t \in Seq(Actions), Selection(t, c) \in Seq(T)
  PROVE  \A m \in Nat : \A a \in Nat : UpRight(a, m, t, c)
<1> DEFINE Bad == {m \in Nat : \E a \in Nat : ~ UpRight(a, m, t, c)}
<1>1. ASSUME NEW a \in Nat PROVE UpRight(a, 0, t, c)
  <2>1. Up(a, 0) = <<>>
    BY DEF Up
  <2>2. Between(a, a + 0 - 1, c) = <<>>
    <3> DEFINE len == Len(c)
               m == IF a < 1 THEN 1 ELSE a
               n == IF a + 0 - 1 > len THEN len ELSE a + 0 - 1
    <3>1. len \in Nat
      BY LenProperties
    <3>2. Between(a, a + 0 - 1, c) = SubSeq(c, m, n)
      BY DEF Between
    <3> HIDE DEF len
    <3>3. m \in Int /\ n \in Int /\ n < m
      BY <3>1
    <3> HIDE DEF m, n
    <3> QED  BY <3>2, <3>3, SubSeqEmpty
  <2>3. <<>> \o t = t /\ <<>> \o Selection(t, c) = Selection(t, c)
    BY ConcatEmptySeq
  <2> QED  BY <2>1, <2>2, <2>3, Zenon DEF UpRight
<1>2. ASSUME NEW m \in Bad, \A k \in Bad : m <= k PROVE FALSE
  <2>1. m \in Nat /\ \E a \in Nat : ~ UpRight(a, m, t, c)
    OBVIOUS
  <2>2. m # 0
    BY <1>1, <2>1
  <2>3. m - 1 \in Nat /\ ~ m <= m - 1 /\ m \in Nat \ {0}
    BY <2>1, <2>2
  <2>4. m - 1 \notin Bad
    BY <1>2, <2>3
  <2>5. \A a \in Nat : UpRight(a, m - 1, t, c)
    BY <2>3, <2>4
  <2>6. \A a \in Nat : a + 1 \in Nat
    OBVIOUS
  <2> HIDE DEF Bad
  <2> QED  BY <2>1, <2>3, <2>5, <2>6, UpOneMore, Zenon
<1>3. Bad \in SUBSET Nat
  OBVIOUS
<1>4. Bad = {}
  <2> HIDE DEF Bad
  <2> QED  BY <1>2, <1>3, Least, Zenon
<1> QED  BY <1>4

\* The same downwards.
DownRight(a, m, t, c) ==
    Selection(Down(a, m) \o t, c) = Reverse(Between((a - m) + 1, a, c)) \o Selection(t, c)

\* One more number, above the others.
LEMMA DownOneMore ==
  ASSUME NEW T, NEW c \in Seq(T), NEW t \in Seq(Actions), NEW m \in Nat \ {0}, NEW a \in Nat, m <= a + 1,
         m = 1 \/ DownRight(a - 1, m - 1, t, c), Selection(t, c) \in Seq(T)
  PROVE  DownRight(a, m, t, c)
<1> DEFINE d == Down(a, m)
           e == IF m = 1 THEN <<>> ELSE Down(a - 1, m - 1)
           l == (a - m) + 1
           low == Between(l, a - 1, c)
           s == Selection(t, c)
<1>1. l \in Nat /\ l <= a
  OBVIOUS
<1>2. d \in Seq(Actions) /\ Len(d) = m /\ \A k \in 1 .. m : d[k] = Digest(a - k + 1)
  BY DownIs
<1>3. e \in Seq(Actions) /\ Len(e) = m - 1 /\ \A k \in 1 .. m - 1 : e[k] = Digest((a - 1) - k + 1)
  <2>1. CASE m = 1
    BY <2>1, EmptySeq
  <2>2. CASE m # 1
    <3>1. a - 1 \in Nat /\ m - 1 \in Nat /\ m - 1 <= (a - 1) + 1
      BY <2>2
    <3> QED  BY <2>2, <3>1, DownIs
  <2> QED  BY <2>1, <2>2
<1>4. low \in Seq(T) /\ Reverse(low) \in Seq(T) /\ Selection(e \o t, c) = Reverse(low) \o s
  <2>1. low \in Seq(T)
    <3>1. a - 1 \in Int /\ l \in Int
      OBVIOUS
    <3> QED  BY <3>1, BetweenIs
  <2>2. CASE m = 1
    <3>1. l = a
      BY <2>2
    <3>2. low = <<>>
      <4> DEFINE len == Len(c)
                 p == IF a < 1 THEN 1 ELSE a
                 n == IF a - 1 > len THEN len ELSE a - 1
      <4>1. len \in Nat
        BY LenProperties
      <4>2. low = SubSeq(c, p, n)
        BY <3>1 DEF Between
      <4> HIDE DEF len
      <4>3. p \in Int /\ n \in Int /\ n < p
        BY <4>1
      <4> HIDE DEF p, n, low
      <4> QED  BY <4>2, <4>3, SubSeqEmpty
    <3>3. Reverse(<<>>) = <<>>
      BY DEF Reverse
    <3>4. <<>> \o t = t /\ <<>> \o s = s
      BY ConcatEmptySeq
    <3>5. e = <<>>
      BY <2>2
    <3> HIDE DEF low, e
    <3>6. Reverse(low) \in Seq(T)
      BY <2>1, ReverseIs
    <3> QED  BY <2>1, <3>2, <3>3, <3>4, <3>5, <3>6, Zenon DEF s
  <2>3. CASE m # 1
    <3>1. ((a - 1) - (m - 1)) + 1 = l
      OBVIOUS
    <3>2. e = Down(a - 1, m - 1)
      BY <2>3
    <3> HIDE DEF e
    <3>3. Selection(e \o t, c) = Reverse(low) \o s
      BY <2>3, <3>1, <3>2 DEF DownRight
    <3> HIDE DEF low
    <3>4. Reverse(low) \in Seq(T)
      BY <2>1, ReverseIs
    <3> QED  BY <2>1, <3>3, <3>4, Zenon
  <2> QED  BY <2>2, <2>3
<1> HIDE DEF d, e, s
<1>5. d # <<>> /\ d[1] = Digest(a)
  <2>1. 1 \in 1 .. m /\ a - 1 + 1 = a
    OBVIOUS
  <2>2. d[1] = Digest(a)
    BY <1>2, <2>1
  <2> QED  BY <1>2, <2>2, EmptySeq
<1>6. \A k \in 1 .. m - 1 : e[k] = d[k + 1]
  <2> SUFFICES ASSUME NEW k \in 1 .. m - 1 PROVE e[k] = d[k + 1]
    OBVIOUS
  <2>1. k + 1 \in 1 .. m /\ a - (k + 1) + 1 = (a - 1) - k + 1
    OBVIOUS
  <2> QED  BY <1>2, <1>3, <2>1
<1> HIDE DEF low, l
<1>7. d \o t \in Seq(Actions) /\ d \o t # <<>> /\ Head(d \o t) = Digest(a) /\ Tail(d \o t) = e \o t
  <2>1. FirstOffIs(d, e)
    BY <1>2, <1>3, <1>5, <1>6 DEF FirstOffIs
  <2>2. /\ d \o t \in Seq(Actions) /\ d \o t # <<>> /\ Head(d \o t) = d[1]
        /\ Tail(d \o t) = e \o t
    <3>1. d \in Seq(Actions) /\ e \in Seq(Actions)
      BY <1>2, <1>3
    <3> QED  BY <2>1, <3>1, FirstOff
  <2> QED  BY <1>5, <2>2, Zenon
<1>8. Selection(d \o t, c) = Selects(Digest(a), c) \o Selection(e \o t, c)
  BY <1>7, SelectionCons
<1>9. Selection(d \o t, c) = Between(a, a, c) \o (Reverse(low) \o s)
  BY <1>4, <1>8, DigestSelects
<1>10. Between(l, a, c) = low \o Between(a, a, c)
  BY <1>1, BetweenLast DEF low
<1>11. Reverse(Between(l, a, c)) = Between(a, a, c) \o Reverse(low)
  <2>1. CASE a \in 1 .. Len(c)
    <3>1. Between(a, a, c) = <<c[a]>> /\ c[a] \in T
      BY <2>1, BetweenOne
    <3>2. Reverse(low \o <<c[a]>>) = <<c[a]>> \o Reverse(low)
      BY <1>4, <3>1, ReverseLast
    <3> QED  BY <1>10, <3>1, <3>2, Zenon
  <2>2. CASE a \notin 1 .. Len(c)
    <3>1. Between(a, a, c) = <<>>
      BY <2>2, BetweenOne
    <3>2. low \o <<>> = low /\ <<>> \o Reverse(low) = Reverse(low)
      BY <1>4, ConcatEmptySeq
    <3> QED  BY <1>10, <3>1, <3>2, Zenon
  <2> QED  BY <2>1, <2>2
<1>12. Selection(d \o t, c) = Reverse(Between(l, a, c)) \o s
  <2> DEFINE u == Between(a, a, c)
             v == Reverse(low)
  <2>1. u \in Seq(T) /\ v \in Seq(T) /\ s \in Seq(T)
    BY <1>4, BetweenIs DEF s
  <2> HIDE DEF u, v
  <2>2. (u \o v) \o s = u \o (v \o s)
    BY <2>1, ConcatAssociative, SMTT(30)
  <2> QED  BY <1>9, <1>11, <2>2 DEF u, v
<1> QED  BY <1>12 DEF DownRight, d, l, s

\* Numbers typed one by one, downwards, select what the range of them does, backwards.
LEMMA DownSelects ==
  ASSUME NEW T, NEW c \in Seq(T), NEW t \in Seq(Actions), Selection(t, c) \in Seq(T)
  PROVE  \A m \in Nat \ {0} : \A a \in Nat : m <= a + 1 => DownRight(a, m, t, c)
<1> DEFINE Bad == {m \in Nat \ {0} : \E a \in Nat : m <= a + 1 /\ ~ DownRight(a, m, t, c)}
<1>1. ASSUME NEW m \in Bad, \A k \in Bad : m <= k PROVE FALSE
  <2>1. PICK a \in Nat : m <= a + 1 /\ ~ DownRight(a, m, t, c)
    OBVIOUS
  <2>2. m \in Nat \ {0}
    OBVIOUS
  <2>3. ASSUME m # 1 PROVE DownRight(a - 1, m - 1, t, c)
    <3>1. m - 1 \in Nat \ {0} /\ ~ m <= m - 1 /\ a - 1 \in Nat /\ m - 1 <= (a - 1) + 1
      BY <2>1, <2>2, <2>3
    <3>2. m - 1 \notin Bad
      BY <1>1, <3>1
    <3> QED  BY <3>1, <3>2
  <2> HIDE DEF Bad
  <2>4. m = 1 \/ DownRight(a - 1, m - 1, t, c)
    BY <2>3
  <2> QED  BY <2>1, <2>2, <2>4, DownOneMore, Zenon
<1>2. Bad \in SUBSET Nat
  OBVIOUS
<1>3. Bad = {}
  <2> HIDE DEF Bad
  <2> QED  BY <1>1, <1>2, Least, Zenon
<1> QED  BY <1>3

\* The ends of a range are clamped for nothing: beyond the last item there is none.
LEMMA BetweenClamped ==
  ASSUME NEW T, NEW c \in Seq(T), NEW l \in Nat, NEW r \in Nat, l <= r
  PROVE  Between(IF l > Len(c) + 1 THEN Len(c) + 1 ELSE l, IF r > Len(c) + 1 THEN Len(c) + 1 ELSE r, c)
           = Between(l, r, c)
<1> DEFINE len == Len(c)
           p == IF l > len + 1 THEN len + 1 ELSE l
           q == IF r > len + 1 THEN len + 1 ELSE r
           m == IF l < 1 THEN 1 ELSE l
           n == IF r > len THEN len ELSE r
           mp == IF p < 1 THEN 1 ELSE p
           nq == IF q > len THEN len ELSE q
<1>1. len \in Nat
  BY LenProperties
<1>2. Between(l, r, c) = SubSeq(c, m, n) /\ Between(p, q, c) = SubSeq(c, mp, nq)
  BY DEF Between
<1> HIDE DEF len
<1>3. /\ m \in Int /\ n \in Int /\ nq = n
      /\ l <= len + 1 => mp = m
      /\ l > len + 1 => n < m /\ n < mp /\ mp \in Int
  BY <1>1
<1> HIDE DEF m, n, mp, nq, p, q
<1>4. l > len + 1 => SubSeq(c, m, n) = <<>> /\ SubSeq(c, mp, n) = <<>>
  BY <1>3, SubSeqEmpty
<1>5. l <= len + 1 \/ l > len + 1
  BY <1>1
<1>6. Between(p, q, c) = Between(l, r, c)
  BY <1>2, <1>3, <1>4, <1>5, Zenon
<1> QED  BY <1>6 DEF p, q, len

\* A range written out in numbers selects what the range does.
LEMMA PositionsSelect ==
  ASSUME NEW T, NEW c \in Seq(T), NEW t \in Seq(Selectors), Selection(t, c) \in Seq(T),
         NEW l \in Nat, NEW r \in Nat
  PROVE  /\ Digits(Positions(l, r, Len(c))) \in Seq(Selectors)
         /\ Selection(Digits(Positions(l, r, Len(c))) \o t, c) = InRange(l, r, c) \o Selection(t, c)
<1> DEFINE ps == Positions(l, r, Len(c))
           d == Digits(ps)
           clamp(n) == IF n > Len(c) + 1 THEN Len(c) + 1 ELSE n
           p == clamp(l)
           q == clamp(r)
<1>0. t \in Seq(Actions)
  <2>1. Selectors \subseteq Actions
    BY DEF Actions
  <2> QED  BY <2>1, SeqMonotonic
<1>1. p \in Nat /\ q \in Nat /\ (l <= r => p <= q) /\ (~ l <= r => q <= p /\ r <= l)
  <2>1. Len(c) \in Nat
    BY LenProperties
  <2> QED  BY <2>1
<1>2. ps = IF l <= r THEN [k \in 1 .. q - p + 1 |-> p + k - 1] ELSE [k \in 1 .. p - q + 1 |-> p - k + 1]
  BY DEF Positions
<1>3. (l <= r => Between(p, q, c) = Between(l, r, c)) /\ (~ l <= r => Between(q, p, c) = Between(r, l, c))
  BY <1>1, BetweenClamped
<1> SUFFICES d \in Seq(Selectors) /\ Selection(d \o t, c) = InRange(l, r, c) \o Selection(t, c)
  OBVIOUS
<1> HIDE DEF p, q, ps, d
<1>4. CASE l <= r
  <2> DEFINE m == q - p + 1
  <2>1. m \in Nat /\ p + m - 1 = q
    BY <1>1, <1>4
  <2>2. ps = [k \in 1 .. m |-> p + k - 1]
    BY <1>2, <1>4
  <2> HIDE DEF m
  <2>3. d = Up(p, m)
    BY <2>2 DEF Up, d, Digits
  <2>4. UpRight(p, m, t, c)
    BY <1>0, <1>1, <2>1, UpSelects
  <2>5. d \in Seq(Selectors)
    BY <1>1, <2>1, <2>3, UpIs
  <2>6. InRange(l, r, c) = Between(p, q, c)
    BY <1>3, <1>4 DEF InRange
  <2> QED  BY <2>1, <2>3, <2>4, <2>5, <2>6, Zenon DEF UpRight
<1>5. CASE ~ l <= r
  <2> DEFINE m == p - q + 1
  <2>1. m \in Nat \ {0} /\ m \in Nat /\ (p - m) + 1 = q /\ m <= p + 1
    BY <1>1, <1>5
  <2>2. ps = [k \in 1 .. m |-> p - k + 1]
    BY <1>2, <1>5
  <2> HIDE DEF m
  <2>3. d = Down(p, m)
    BY <2>2 DEF Down, d, Digits
  <2>4. DownRight(p, m, t, c)
    BY <1>0, <1>1, <2>1, DownSelects
  <2>5. d \in Seq(Selectors)
    BY <1>1, <2>1, <2>3, DownIs
  <2>6. InRange(l, r, c) = Reverse(Between(q, p, c))
    BY <1>3, <1>5 DEF InRange
  <2> QED  BY <2>1, <2>3, <2>4, <2>5, <2>6, Zenon DEF DownRight
<1> QED  BY <1>4, <1>5

\* The range of all items is all of them.
LEMMA AllInRange ==
  ASSUME NEW T, NEW c \in Seq(T)
  PROVE  InRange(1, Len(c), c) = c
<1> DEFINE len == Len(c)
<1>1. len \in Nat
  BY LenProperties
<1>2. SubSeq(c, 1, len) = c
  BY SubSeqFull
<1>3. ASSUME len = 0 PROVE InRange(1, len, c) = c
  <2>1. c = <<>>
    BY <1>3, EmptySeq
  <2>2. Between(0, 1, c) = SubSeq(c, 1, 0)
    BY <1>3 DEF Between
  <2>3. SubSeq(c, 1, 0) = <<>> /\ Reverse(<<>>) = <<>>
    BY SubSeqEmpty DEF Reverse
  <2>4. InRange(1, len, c) = Reverse(Between(0, 1, c))
    BY <1>3 DEF InRange
  <2> QED  BY <2>1, <2>2, <2>3, <2>4, Zenon
<1>4. ASSUME len # 0 PROVE InRange(1, len, c) = c
  <2>1. InRange(1, len, c) = Between(1, len, c)
    <3> HIDE DEF len
    <3>1. 1 <= len
      BY <1>1, <1>4
    <3> QED  BY <3>1, Zenon DEF InRange
  <2>2. Between(1, len, c) = SubSeq(c, IF 1 < 1 THEN 1 ELSE 1, IF len > len THEN len ELSE len)
    BY DEF Between
  <2> HIDE DEF len
  <2>3. (IF 1 < 1 THEN 1 ELSE 1) = 1 /\ (IF len > len THEN len ELSE len) = len
    OBVIOUS
  <2> QED  BY <1>2, <2>1, <2>2, <2>3, Zenon
<1> HIDE DEF len
<1>5. InRange(1, len, c) = c
  BY <1>3, <1>4
<1> QED  BY <1>5 DEF len

\* Selectors one by one.
LEMMA SelectingTail ==
  ASSUME NEW l, Selecting(l), l # <<>>
  PROVE  /\ l \in Seq(Selectors) /\ l \in Seq(Actions) /\ Head(l) \in Selectors
         /\ Tail(l) \in Seq(Selectors) /\ Tail(l) \in Seq(Actions) /\ Selecting(Tail(l))
<1>1. l \in Seq(Selectors) /\ Selectors \subseteq Actions
  BY DEF Selecting, Actions
<1>2. Head(l) \in Selectors /\ Tail(l) \in Seq(Selectors)
  BY <1>1, HeadTailProperties
<1>3. l \in Seq(Actions) /\ Tail(l) \in Seq(Actions)
  BY <1>1, <1>2, SeqMonotonic
<1> QED  BY <1>1, <1>2, <1>3 DEF Selecting

\* A range written out is the same line.
LEMMA WrittenOut ==
  ASSUME NEW T, NEW c \in Seq(T), NEW l, Selecting(l), l # <<>>, Head(l).do \in {"range", "all"},
         NEW k, k = Written(l, c)
  PROVE  Selecting(k) /\ Selection(k, c) = Selection(l, c)
<1> DEFINE a == Head(l)
           t == Tail(l)
           ps == Numbers(a, c)
           d == Digits(ps)
<1>1. a \in Selectors /\ t \in Seq(Selectors) /\ l \in Seq(Actions)
  BY SelectingTail
<1>2. Selection(t, c) \in Seq(T) /\ Selection(l, c) = Selects(a, c) \o Selection(t, c)
  BY <1>1, SelectionCons
<1>3. k = d \o t
  BY DEF Written
<1>4. a.do \in {"range", "all"}
  OBVIOUS
<1> HIDE DEF a, t
<1>5. Len(c) \in Nat
  BY LenProperties
<1>6. d \in Seq(Selectors) /\ Selection(d \o t, c) = Selects(a, c) \o Selection(t, c)
  <2>1. CASE a.do = "range"
    <3>1. a.l \in Nat /\ a.r \in Nat
      BY <1>1, <2>1 DEF Selectors
    <3>2. d = Digits(Positions(a.l, a.r, Len(c))) /\ Selects(a, c) = InRange(a.l, a.r, c)
      BY <2>1 DEF Numbers, Selects
    <3> HIDE DEF d
    <3>3. /\ Digits(Positions(a.l, a.r, Len(c))) \in Seq(Selectors)
          /\ Selection(Digits(Positions(a.l, a.r, Len(c))) \o t, c) = InRange(a.l, a.r, c) \o Selection(t, c)
      BY <1>1, <1>2, <3>1, PositionsSelect
    <3> QED  BY <3>2, <3>3, Zenon
  <2>2. CASE a.do = "all"
    <3>1. d = Digits(Positions(1, Len(c), Len(c))) /\ Selects(a, c) = c
      BY <2>2 DEF Numbers, Selects
    <3>2. InRange(1, Len(c), c) = c
      BY AllInRange
    <3> HIDE DEF d
    <3>3. /\ Digits(Positions(1, Len(c), Len(c))) \in Seq(Selectors)
          /\ Selection(Digits(Positions(1, Len(c), Len(c))) \o t, c) = InRange(1, Len(c), c) \o Selection(t, c)
      BY <1>1, <1>2, <1>5, PositionsSelect
    <3> QED  BY <3>1, <3>2, <3>3, Zenon
  <2> QED  BY <1>4, <2>1, <2>2
<1> HIDE DEF d
<1>7. k \in Seq(Selectors)
  BY <1>1, <1>3, <1>6, ConcatProperties
<1> QED  BY <1>2, <1>3, <1>6, <1>7, Zenon DEF Selecting

\* An item in front of others: how many there are, and whether there are folders.
LEMMA OneThenOthers ==
  ASSUME NEW T, NEW x \in T, NEW s \in Seq(T)
  PROVE  /\ <<x>> \o s \in Seq(T) /\ Len(<<x>> \o s) = 1 + Len(s) /\ <<x>> \o s # <<>>
         /\ NoFolders(<<x>> \o s) <=> ~ IsFolder(x) /\ NoFolders(s)
<1> DEFINE p == <<x>> \o s
           n == Len(s)
<1>1. /\ p \in Seq(T) /\ Len(p) = 1 + n
      /\ \A i \in 1 .. 1 + n : p[i] = IF i <= 1 THEN x ELSE s[i - 1]
  <2> DEFINE u == <<x>>
  <2>1. u \in Seq(T) /\ Len(u) = 1 /\ u[1] = x
    OBVIOUS
  <2> HIDE DEF u
  <2>2. /\ u \o s \in Seq(T) /\ Len(u \o s) = Len(u) + Len(s)
        /\ \A i \in 1 .. Len(u) + Len(s) : (u \o s)[i] = IF i <= Len(u) THEN u[i] ELSE s[i - Len(u)]
    BY <2>1, ConcatProperties
  <2>3. n \in Nat
    BY LenProperties
  <2> HIDE DEF n, p
  <2>4. p = u \o s /\ Len(s) = n
    BY DEF p, n, u
  <2>5. Len(p) = 1 + n /\ p \in Seq(T)
    BY <2>1, <2>2, <2>4, Zenon
  <2>6. ASSUME NEW i \in 1 .. 1 + n PROVE p[i] = IF i <= 1 THEN x ELSE s[i - 1]
    <3>1. i <= 1 => i = 1
      BY <2>3
    <3>2. p[i] = IF i <= 1 THEN u[i] ELSE s[i - 1]
      BY <2>1, <2>2, <2>4, Zenon
    <3> QED  BY <2>1, <3>1, <3>2, Zenon
  <2> QED  BY <2>5, <2>6
<1>2. n \in Nat
  BY LenProperties
<1> HIDE DEF p, n
<1>3. NoFolders(p) <=> \A i \in 1 .. 1 + n : ~ IsFolder(p[i])
  BY <1>1, Zenon DEF NoFolders
<1>4. NoFolders(s) <=> \A i \in 1 .. n : ~ IsFolder(s[i])
  BY DEF NoFolders, n
<1>5. ASSUME NoFolders(p) PROVE ~ IsFolder(x) /\ NoFolders(s)
  <2>1. 1 \in 1 .. 1 + n /\ p[1] = x
    BY <1>1, <1>2
  <2>2. ASSUME NEW i \in 1 .. n PROVE i + 1 \in 1 .. 1 + n /\ p[i + 1] = s[i]
    <3>1. i + 1 \in 1 .. 1 + n /\ ~ i + 1 <= 1 /\ (i + 1) - 1 = i
      BY <1>2
    <3> QED  BY <1>1, <3>1
  <2> QED  BY <1>3, <1>4, <1>5, <2>1, <2>2, Zenon
<1>6. ASSUME ~ IsFolder(x), NoFolders(s) PROVE NoFolders(p)
  <2>1. ASSUME NEW i \in 1 .. 1 + n PROVE ~ IsFolder(p[i])
    <3>1. CASE i = 1
      BY <1>1, <1>2, <1>6, <3>1
    <3>2. CASE i # 1
      <4>1. ~ i <= 1 /\ i - 1 \in 1 .. n
        BY <1>2, <3>2
      <4>2. p[i] = s[i - 1]
        BY <1>1, <4>1
      <4> QED  BY <1>4, <1>6, <4>1, <4>2
    <3> QED  BY <3>1, <3>2
  <2> QED  BY <1>3, <2>1
<1>7. p # <<>>
  BY <1>1, <1>2, EmptySeq
<1> QED  BY <1>1, <1>5, <1>6, <1>7 DEF p, n

\* What is known of a line whose first action selects nothing, or one item.
LEMMA TailTells ==
  ASSUME NEW T, NEW c \in Seq(T), NEW l, Selecting(l), l # <<>>, Head(l).do = "digest"
  PROVE  /\ Selection(Tail(l), c) \in Seq(T)
         /\ Head(l).n \notin DOMAIN c => Selection(l, c) = Selection(Tail(l), c)
         /\ Head(l).n \in DOMAIN c =>
              LET x == c[Head(l).n] IN
              /\ x \in T /\ Selection(l, c) = <<x>> \o Selection(Tail(l), c)
              /\ Nothing(Tail(l), c) => OneItem(l, c)
              /\ OneItem(l, c) => Nothing(Tail(l), c)
              /\ NoFolder(l, c) <=> ~ IsFolder(x) /\ NoFolder(Tail(l), c)
<1> DEFINE n == Head(l).n
           s == Selection(Tail(l), c)
           x == c[n]
<1>1. n \in Nat /\ l \in Seq(Actions) /\ Selects(Head(l), c) = Between(n, n, c)
  <2>1. Head(l) \in Selectors /\ l \in Seq(Actions)
    BY SelectingTail
  <2> QED  BY <2>1 DEF Selects, Selectors
<1>2. s \in Seq(T) /\ Selection(l, c) = Between(n, n, c) \o s
  BY <1>1, SelectionCons
<1>3. DOMAIN c = 1 .. Len(c)
  BY LenProperties
<1> HIDE DEF s, n
<1>4. ASSUME n \notin DOMAIN c PROVE Selection(l, c) = s
  <2>1. Between(n, n, c) = <<>>
    BY <1>1, <1>3, <1>4, BetweenOne
  <2> QED  BY <1>2, <2>1, ConcatEmptySeq
<1>5. ASSUME n \in DOMAIN c
      PROVE  /\ x \in T /\ Selection(l, c) = <<x>> \o s
             /\ s = <<>> => OneItem(l, c)
             /\ OneItem(l, c) => s = <<>>
             /\ NoFolder(l, c) <=> ~ IsFolder(x) /\ NoFolders(s)
  <2>1. Between(n, n, c) = <<x>> /\ x \in T
    BY <1>1, <1>3, <1>5, BetweenOne
  <2> HIDE DEF x
  <2>2. /\ Len(<<x>> \o s) = 1 + Len(s)
        /\ NoFolders(<<x>> \o s) <=> ~ IsFolder(x) /\ NoFolders(s)
    BY <1>2, <2>1, OneThenOthers
  <2>3. Len(s) \in Nat /\ (s = <<>> <=> Len(s) = 0)
    BY <1>2, EmptySeq, LenProperties
  <2>4. Selection(l, c) = <<x>> \o s
    BY <1>2, <2>1
  <2>5. Len(Selection(l, c)) = 1 + Len(s)
    BY <2>2, <2>4
  <2>6. OneItem(l, c) <=> s = <<>>
    <3> DEFINE k == Len(s)
    <3>1. OneItem(l, c) <=> 1 + k = 1
      BY <2>5 DEF OneItem
    <3>2. k \in Nat /\ (s = <<>> <=> k = 0)
      BY <2>3
    <3> HIDE DEF k
    <3>3. 1 + k = 1 <=> k = 0
      BY <3>2
    <3> QED  BY <3>1, <3>2, <3>3, Zenon
  <2> QED  BY <2>1, <2>2, <2>4, <2>6, Zenon DEF NoFolder
<1> QED  BY <1>2, <1>4, <1>5, Zenon DEF Nothing, NoFolder, s, n

\* A line of other actions selects nothing.
LEMMA OthersSelectNothing ==
  ASSUME NEW T, NEW c \in Seq(T)
  PROVE  \A l \in Seq({a \in Actions : Selects(a, c) = <<>>}) : Selection(l, c) = <<>>
<1> DEFINE S == {a \in Actions : Selects(a, c) = <<>>}
           Bad == {n \in Nat : \E l \in Seq(S) : Len(l) = n /\ Selection(l, c) # <<>>}
<1>1. ASSUME NEW n \in Bad, \A k \in Bad : n <= k PROVE FALSE
  <2>1. PICK l \in Seq(S) : Len(l) = n /\ Selection(l, c) # <<>>
    OBVIOUS
  <2>2. l # <<>>
    BY <2>1, SelectionNone
  <2>3. /\ Tail(l) \in Seq(S) /\ Len(Tail(l)) = n - 1 /\ n \in Nat \ {0} /\ Head(l) \in S
    <3> HIDE DEF S
    <3> QED  BY <2>1, <2>2, EmptySeq, HeadTailProperties
  <2>4. n - 1 \in Nat /\ ~ n <= n - 1
    BY <2>3
  <2>5. n - 1 \notin Bad
    BY <1>1, <2>4
  <2>6. Selection(Tail(l), c) = <<>>
    BY <2>3, <2>4, <2>5
  <2>7. l \in Seq(Actions) /\ Selects(Head(l), c) = <<>>
    <3>1. S \subseteq Actions
      OBVIOUS
    <3> QED  BY <2>3, <3>1, SeqMonotonic
  <2>8. Selection(l, c) = <<>> \o <<>>
    BY <2>2, <2>6, <2>7, SelectionCons
  <2>9. <<>> \o <<>> = <<>>
    OBVIOUS
  <2> QED  BY <2>1, <2>8, <2>9, Zenon
<1>2. Bad \in SUBSET Nat
  OBVIOUS
<1>3. Bad = {}
  <2> HIDE DEF Bad
  <2> QED  BY <1>1, <1>2, Least, Zenon
<1>4. ASSUME NEW l \in Seq(S) PROVE Selection(l, c) = <<>>
  <2>1. Len(l) \in Nat
    BY LenProperties
  <2> HIDE DEF S
  <2> QED  BY <1>3, <2>1, Zenon
<1> QED  BY <1>4

\* So do the filter command and the words.
LEMMA NoSelectors ==
  ASSUME NEW T, NEW c \in Seq(T), NEW l, Filtering(l) \/ OneWord(l)
  PROVE  Selection(l, c) = <<>>
<1> DEFINE S == {a \in Actions : Selects(a, c) = <<>>}
           heads == [do : {"filters"}] \cup Words
<1>1. FilterLetters \subseteq S /\ heads \subseteq S
  <2>1. \A a \in FilterLetters \cup heads : a \in Actions /\ a.do \notin {"digest", "range", "all"}
    BY DEF Actions, FilterLetters, Words
  <2>2. \A a : a.do \notin {"digest", "range", "all"} => Selects(a, c) = <<>>
    BY DEF Selects
  <2> QED  BY <2>1, <2>2
<1>2. l \in Seq(Actions) /\ l # <<>> /\ Head(l) \in heads /\ Tail(l) \in Seq(FilterLetters)
  BY EmptySeq DEF Filtering, OneWord, Starts
<1>3. Selects(Head(l), c) = <<>>
  BY <1>1, <1>2
<1> HIDE DEF S, heads
<1>4. Tail(l) \in Seq(S)
  BY <1>1, <1>2, SeqMonotonic
<1>5. Selection(Tail(l), c) = <<>>
  BY <1>4, OthersSelectNothing DEF S
<1>6. Selection(l, c) = <<>> \o <<>>
  BY <1>2, <1>3, <1>5, SelectionCons
<1>7. <<>> \o <<>> = <<>>
  OBVIOUS
<1> QED  BY <1>6, <1>7, Zenon

\* Any selectors select items of the menu.
LEMMA SelectionIs ==
  ASSUME NEW T, NEW c \in Seq(T), NEW l, Selecting(l)
  PROVE  Selection(l, c) \in Seq(T)
<1>1. CASE l = <<>>
  BY <1>1, SelectionNone, EmptySeq
<1>2. CASE l # <<>>
  BY <1>2, SelectingTail, SelectionCons
<1> QED  BY <1>1, <1>2

\* A folder among what is let through is alone.
LEMMA FolderAlone ==
  ASSUME NEW T, NEW p \in Seq(T), NEW x \in T, NEW s \in Seq(T), NEW all, all = p \o (<<x>> \o s),
         IsFolder(x), NoFolders(all) \/ Len(all) = 1
  PROVE  p = <<>> /\ s = <<>>
<1> DEFINE q == <<x>> \o s
           k == Len(p)
           n == Len(s)
<1>1. q \in Seq(T) /\ Len(q) = 1 + n
  BY OneThenOthers
<1>2. q[1] = x
  OBVIOUS
<1>3. k \in Nat /\ n \in Nat /\ (k = 0 => p = <<>>) /\ (n = 0 => s = <<>>)
  BY EmptySeq, LenProperties
<1> HIDE DEF q, k, n
<1>4. all = p \o q
  BY DEF q
<1>5. Len(all) = k + (1 + n) /\ all[k + 1] = x
  <2>1. /\ Len(all) = k + Len(q)
        /\ \A i \in 1 .. k + Len(q) : all[i] = IF i <= k THEN p[i] ELSE q[i - k]
    BY <1>1, <1>4, ConcatProperties DEF k
  <2>2. k + 1 \in 1 .. k + (1 + n) /\ ~ k + 1 <= k /\ (k + 1) - k = 1
    BY <1>3
  <2>3. all[k + 1] = q[1]
    BY <1>1, <2>1, <2>2
  <2> QED  BY <1>1, <1>2, <2>1, <2>3, Zenon
<1>6. Len(all) = 1
  <2>1. k + 1 \in 1 .. k + (1 + n)
    BY <1>3
  <2> QED  BY <1>5, <2>1, Zenon DEF NoFolders
<1>7. k = 0 /\ n = 0
  BY <1>3, <1>5, <1>6
<1> QED  BY <1>3, <1>7

\* One more item done is one less to do.
LEMMA OneMoreBehind ==
  ASSUME NEW T, NEW p \in Seq(T), NEW x \in T, NEW s \in Seq(T)
  PROVE  Append(p, x) \in Seq(T) /\ Append(p, x) \o s = p \o (<<x>> \o s)
<1>1. Append(p, x) = p \o <<x>> /\ Append(p, x) \in Seq(T)
  BY AppendIsConcat, AppendProperties
<1>2. <<x>> \in Seq(T)
  OBVIOUS
<1>3. (p \o <<x>>) \o s = p \o (<<x>> \o s)
  BY <1>2, ConcatAssociative
<1> QED  BY <1>1, <1>3

-----------------------------------------------------------------------------
(* Steps                                                                   *)

\* What is known of a line being parsed, by the action it has come to.
LEMMA AtAction ==
  ASSUME IInv, at = "parse", todo # <<>>
  PROVE  /\ Head(todo).do \in {"digest", "range", "all"} =>
              Selecting(todo) /\ (Validated \/ Dispatched \/ cmd \in Marks)
         /\ Head(todo).do \in {"dotdot", "help", "home", "search", "quit"} =>
              OneWord(todo) /\ cmd = "VALIDATE_START" /\ Idle
         /\ Head(todo).do = "mark" => Marking(todo) /\ cmd = "VALIDATE_START" /\ Idle
         /\ Head(todo).do = "filters" =>
              /\ cmd \in {"VALIDATE_START", "VALIDATE_OK"}
              /\ Filtering(todo) /\ Filtering(line) /\ Idle
         /\ Head(todo).do = "filter" =>
              /\ todo \in Seq(FilterLetters)
              /\ \/ cmd = "VALIDATE_FILTERS" /\ Filtering(line) /\ Idle
                 \/ cmd = "SPECIAL" /\ Untouched
                 \/ cmd = "FAIL_SPECIAL" /\ Idle
<1> USE HeadTells
<1>1. CASE Validated \/ Dispatched \/ (cmd \in Marks /\ Selecting(todo))
  <2>1. Selecting(todo)
    BY <1>1 DEF Validated, Dispatched
  <2> QED  BY <1>1, <2>1
<1>2. CASE cmd = "VALIDATE_START" /\ (Marking(todo) \/ OneWord(todo)) /\ Idle
  BY <1>2
<1>3. CASE cmd \in {"VALIDATE_START", "VALIDATE_OK"} /\ Filtering(todo) /\ Filtering(line) /\ Idle
  BY <1>3
<1>4. CASE \/ cmd = "VALIDATE_FILTERS" /\ todo \in Seq(FilterLetters) /\ Filtering(line) /\ Idle
           \/ cmd = "SPECIAL" /\ todo \in Seq(FilterLetters) /\ Untouched
           \/ cmd = "FAIL_SPECIAL" /\ todo \in Seq(FilterLetters) /\ Idle
  BY <1>4
<1> QED  BY <1>1, <1>2, <1>3, <1>4 DEF IInv, ParseInv

\* Most of the invariant is out of reach of the grammar's actions.
LEMMA ParseStep ==
  ASSUME IInv, at = "parse", at' = "parse", UNCHANGED <<context, request>>,
         stack' \in Seq(Folders), IsPath(stack'),
         filters_cmd' \subseteq FilterKinds, ~ Contradictory(filters_cmd'), ParseInv'
  PROVE  IInv'
<1>1. context \in Folders /\ UNCHANGED <<context, filters, query, asked>>
  BY DEF IInv, Types, request
<1>2. Types'
  BY <1>1 DEF IInv, Types, Folders, IsPath, Contradictory
<1>3. AskedInv'
  BY <1>1 DEF IInv, AskedInv, Shown
<1> QED  BY <1>2, <1>3 DEF IInv, PrintInv, PromptInv

\* A word: dotdot, help, home, search, quit.
LEMMA WordStep ==
  ASSUME IInv, Dotdot \/ Help \/ Home \/ SearchFor \/ Quit
  PROVE  IInv'
<1>1. /\ at = "parse" /\ at' = "parse" /\ todo # <<>> /\ todo' = Tail(todo) /\ cmd' = "SPECIAL"
      /\ Head(todo).do \in {"dotdot", "help", "home", "search", "quit"}
      /\ UNCHANGED <<context, request, filters_cmd>>
  BY DEF Dotdot, Help, Home, SearchFor, Quit, Runs, Special, run, menu
<1>2. OneWord(todo) /\ Idle /\ stack \in Seq(Folders) /\ IsPath(stack) /\ stack # <<>>
  BY <1>1, AtAction DEF IInv, Types, Idle, Untouched
<1>3. todo' = <<>> /\ ParseInv'
  BY <1>1, <1>2 DEF OneWord, Starts, ParseInv
<1>4. <<>> \in Seq(Folders) /\ IsPath(<<>>)
  BY DEF IsPath
<1>5. Append(stack, Search) \in Seq(Folders) /\ IsPath(Append(stack, Search))
  <2>1. Search \in Folders /\ Follows(stack, Search)
    BY TreeAssumption DEF Folders, Follows
  <2> QED  BY <1>2, <2>1, PathPush
<1>6. stack' \in Seq(Folders) /\ IsPath(stack')
  <2>1. stack' \in {stack, Front(stack), <<>>, Append(stack, Search)}
    BY DEF Dotdot, Help, Home, SearchFor, Quit, menu
  <2> QED  BY <1>2, <1>4, <1>5, <2>1, PathPop
<1>7. filters_cmd' \subseteq FilterKinds /\ ~ Contradictory(filters_cmd')
  BY <1>1 DEF IInv, Types
<1> QED  BY <1>1, <1>3, <1>6, <1>7, ParseStep

\* The filter command in either pass.
LEMMA FiltersStartStep ==
  ASSUME IInv, FiltersStart
  PROVE  IInv'
<1>1. /\ at = "parse" /\ at' = "parse" /\ todo # <<>> /\ todo' = Tail(todo) /\ Head(todo).do = "filters"
      /\ UNCHANGED <<context, stack, playlist, line, filters, request>>
  BY DEF FiltersStart, Runs, run, menu, request
<1>2. /\ cmd \in {"VALIDATE_START", "VALIDATE_OK"}
      /\ Filtering(todo) /\ Filtering(line) /\ Idle
  BY <1>1, AtAction
<1>3. todo' \in Seq(FilterLetters) /\ Filtering(line')
  BY <1>1, <1>2 DEF Filtering
<1>4. CASE cmd = "VALIDATE_START"
  <2>1. cmd' = "VALIDATE_FILTERS" /\ filters_cmd' = filters_cmd
    BY <1>4 DEF FiltersStart
  <2>2. Idle'
    BY <1>1, <1>2, <2>1 DEF Idle, Untouched
  <2>3. ParseInv'
    BY <1>3, <2>1, <2>2 DEF ParseInv
  <2> QED  BY <1>1, <2>1, <2>3, ParseStep DEF IInv, Types
<1>5. CASE cmd # "VALIDATE_START"
  <2>1. cmd' = "SPECIAL" /\ filters_cmd' = {}
    BY <1>5 DEF FiltersStart
  <2>2. Untouched'
    BY <1>1, <1>2 DEF Idle, Untouched
  <2>3. ParseInv'
    BY <1>3, <2>1, <2>2 DEF ParseInv
  <2>4. ~ Contradictory(filters_cmd')
    BY <2>1 DEF Contradictory
  <2> QED  BY <1>1, <2>1, <2>3, <2>4, ParseStep DEF IInv, Types
<1> QED  BY <1>4, <1>5

\* One filter of it; two that contradict each other restore what there was.
LEMMA FilterStep ==
  ASSUME IInv, Filter
  PROVE  IInv'
<1> DEFINE fs == filters_cmd \cup {Head(todo).filter}
<1>1. /\ at = "parse" /\ at' = "parse" /\ todo # <<>> /\ todo' = Tail(todo) /\ Head(todo).do = "filter"
      /\ UNCHANGED <<context, stack, playlist, line, filters, request>>
  BY DEF Filter, Runs, run, menu, request
<1>2. IF cmd # "SPECIAL" THEN UNCHANGED <<cmd, filters_cmd>>
      ELSE IF Contradictory(fs) THEN cmd' = "FAIL_SPECIAL" /\ filters_cmd' = filters
      ELSE filters_cmd' = fs /\ UNCHANGED cmd
  BY DEF Filter
<1>3. /\ todo \in Seq(FilterLetters)
      /\ \/ cmd = "VALIDATE_FILTERS" /\ Filtering(line) /\ Idle
         \/ cmd = "SPECIAL" /\ Untouched
         \/ cmd = "FAIL_SPECIAL" /\ Idle
  BY <1>1, AtAction
<1>4. todo' \in Seq(FilterLetters) /\ fs \subseteq FilterKinds
  BY <1>1, <1>3, HeadTells DEF IInv, Types
<1> HIDE DEF fs
<1>5. CASE cmd # "SPECIAL"
  <2>1. Idle' /\ cmd' = cmd /\ filters_cmd' = filters_cmd /\ (Filtering(line) => Filtering(line'))
    BY <1>1, <1>2, <1>3, <1>5 DEF Idle, Untouched
  <2>2. ParseInv'
    BY <1>3, <1>4, <1>5, <2>1 DEF ParseInv
  <2> QED  BY <1>1, <2>1, <2>2, ParseStep DEF IInv, Types
<1>6. CASE cmd = "SPECIAL" /\ Contradictory(fs)
  <2>1. cmd' = "FAIL_SPECIAL" /\ filters_cmd' = filters
    BY <1>2, <1>6
  <2>2. Idle'
    BY <1>1, <1>3, <1>6, <2>1 DEF Idle, Untouched
  <2>3. ParseInv'
    BY <1>4, <2>1, <2>2 DEF ParseInv
  <2> QED  BY <1>1, <2>1, <2>3, ParseStep DEF IInv, Types
<1>7. CASE cmd = "SPECIAL" /\ ~ Contradictory(fs)
  <2>1. cmd' = "SPECIAL" /\ filters_cmd' = fs
    BY <1>2, <1>7
  <2>2. Untouched'
    BY <1>1, <1>3, <1>7 DEF Idle, Untouched
  <2>3. ParseInv'
    BY <1>4, <2>1, <2>2 DEF ParseInv
  <2> QED  BY <1>1, <1>4, <1>7, <2>1, <2>3, ParseStep DEF IInv, Types
<1> QED  BY <1>5, <1>6, <1>7

\* The mark command, in its only pass.
LEMMA MarkStep ==
  ASSUME IInv, Mark
  PROVE  IInv'
<1>1. /\ at = "parse" /\ at' = "parse" /\ todo # <<>> /\ todo' = Tail(todo) /\ Head(todo).do = "mark"
      /\ cmd' = Head(todo).flag
      /\ UNCHANGED <<context, stack, request, filters_cmd>>
  BY DEF Mark, Runs, run, menu
<1>2. Marking(todo)
  BY <1>1, AtAction
<1>3. cmd' \in Marks /\ Selecting(todo')
  BY <1>1, <1>2 DEF Marking, Starts
<1>4. ParseInv'
  BY <1>3 DEF ParseInv
<1> QED  BY <1>1, <1>4, ParseStep DEF IInv, Types

\* What is left of a line in the first pass, in the second, and when marking.
LEMMA SelectorsLeft ==
  ASSUME IInv, at = "parse", at' = "parse", UNCHANGED <<run, menu, filters_cmd, cmd, playlist>>,
         Selecting(todo) => Selecting(todo'),
         Validated \/ Dispatched \/ (cmd \in Marks /\ Selecting(todo)),
         Selection(todo', Contents) = Selection(todo, Contents)
  PROVE  IInv'
<1>0. /\ Nothing(todo', Contents) => Nothing(todo, Contents)
      /\ NoFolder(todo, Contents) <=> NoFolder(todo', Contents)
      /\ OneItem(todo, Contents) <=> OneItem(todo', Contents)
  BY DEF Nothing, NoFolder, OneItem
<1>1. /\ Contents' = Contents /\ line' = line /\ cmd' = cmd
      /\ UNCHANGED <<context, stack, playlist, filters, filters_cmd, request>>
  BY DEF Contents, run, menu, request
<1>2. CASE Validated
  <2>1. Idle' /\ Selecting(line') /\ Selecting(todo')
    BY <1>1, <1>2 DEF Validated, Idle, Untouched
  <2>2. /\ NoFolder(line, Contents)' = NoFolder(line, Contents)
        /\ OneItem(line, Contents)' = OneItem(line, Contents)
        /\ Nothing(todo, Contents)' = Nothing(todo', Contents)
        /\ NoFolder(todo, Contents)' = NoFolder(todo', Contents)
        /\ OneItem(todo, Contents)' = OneItem(todo', Contents)
    BY <1>1
  <2>3. Validated'
    BY <1>0, <1>1, <1>2, <2>1, <2>2 DEF Validated
  <2> QED  BY <1>1, <2>3, ParseStep DEF IInv, Types, ParseInv
<1>3. CASE Dispatched
  <2>1. /\ NoFolder(todo, Contents)' = NoFolder(todo', Contents)
        /\ OneItem(todo, Contents)' = OneItem(todo', Contents)
    BY <1>1
  <2>2. Dispatched'
    BY <1>0, <1>1, <1>3, <2>1 DEF Dispatched
  <2> QED  BY <1>1, <2>2, ParseStep DEF IInv, Types, ParseInv
<1>4. CASE cmd \in Marks /\ Selecting(todo)
  <2>1. ParseInv'
    BY <1>1, <1>4 DEF ParseInv
  <2> QED  BY <1>1, <2>1, ParseStep DEF IInv, Types
<1> QED  BY <1>2, <1>3, <1>4

\* The menu at hand lists a sequence.
LEMMA ContentsAre ==
  ASSUME IInv, at # "menu"
  PROVE  Contents \in Seq(Listed)
<1>1. context \in DOMAIN Children
  BY DEF IInv, Types, Folders
<1> QED  BY <1>1, TreeAssumption DEF Contents, Listed

\* A range, or all, in any pass.
LEMMA RangeStep ==
  ASSUME IInv, DigestRange \/ DigestAll
  PROVE  IInv'
<1>1. /\ at = "parse" /\ at' = "parse" /\ todo # <<>> /\ Head(todo).do \in {"range", "all"}
      /\ UNCHANGED <<run, menu, filters_cmd, cmd, playlist>>
  BY DEF DigestRange, DigestAll, Runs, run
<1>2. Selecting(todo) /\ (Validated \/ Dispatched \/ cmd \in Marks)
  BY <1>1, AtAction
<1>3. Contents \in Seq(Listed)
  <2>1. at = "parse"
    BY Zenon DEF DigestRange, DigestAll, Runs
  <2> QED  BY <2>1, ContentsAre
<1>4. todo' = Written(todo, Contents)
  BY Zenon DEF DigestRange, DigestAll, Runs, Numbers, Written, Digits
<1>5. Selecting(todo') /\ Selection(todo', Contents) = Selection(todo, Contents)
  BY <1>1, <1>2, <1>3, <1>4, WrittenOut
<1>6. Validated \/ Dispatched \/ (cmd \in Marks /\ Selecting(todo))
  BY <1>2
<1>7. IInv /\ at = "parse" /\ at' = "parse" /\ UNCHANGED <<run, menu, filters_cmd, cmd, playlist>>
  BY <1>1
<1> QED  BY <1>5, <1>6, <1>7, SelectorsLeft

\* A number without an item, or after a failure.
LEMMA DigestNothingStep ==
  ASSUME IInv, DigestNothing
  PROVE  IInv'
<1>1. /\ at = "parse" /\ at' = "parse" /\ todo # <<>> /\ todo' = Tail(todo) /\ Head(todo).do = "digest"
      /\ UNCHANGED <<run, menu, filters_cmd, cmd, playlist>>
      /\ cmd \in Failures \/ Head(todo).n \notin DOMAIN Contents
  BY DEF DigestNothing, Runs, run, Exists
<1>2. Selecting(todo) /\ (Validated \/ Dispatched \/ cmd \in Marks)
  BY <1>1, AtAction
<1>3. todo' \in Seq(Selectors) /\ Selecting(todo')
  BY <1>1, <1>2 DEF Selecting
<1>4. CASE Head(todo).n \notin DOMAIN Contents
  <2>1. Contents \in Seq(Listed)
    BY <1>1, ContentsAre
  <2>2. Selection(todo', Contents) = Selection(todo, Contents)
    BY <1>1, <1>2, <1>4, <2>1, TailTells
  <2> QED  BY <1>1, <1>2, <1>3, <2>2, SelectorsLeft
<1>5. CASE cmd \in Failures
  <2>1. Validated /\ cmd = "FAIL_FOLDER" /\ cmd' = "FAIL_FOLDER"
    BY <1>1, <1>2, <1>5 DEF Failures, Marks, Dispatched, Validated
  <2>2. Idle' /\ Selecting(line')
    BY <1>1, <2>1 DEF Validated, Idle, Untouched, run, menu, request
  <2>3. Validated'
    BY <1>3, <2>1, <2>2 DEF Validated
  <2> QED  BY <1>1, <2>3, ParseStep DEF IInv, Types, ParseInv, run, menu
<1> QED  BY <1>1, <1>4, <1>5

\* A number with an item stands for just that item.
LEMMA ItemHit ==
  ASSUME IInv, at = "parse", Runs("digest"), Exists
  PROVE  /\ todo # <<>> /\ Selecting(todo) /\ (Validated \/ Dispatched \/ cmd \in Marks)
         /\ Selecting(Tail(todo)) /\ Contents \in Seq(Listed) /\ Item \in Listed
         /\ Selection(Tail(todo), Contents) \in Seq(Listed)
         /\ Selection(todo, Contents) = <<Item>> \o Selection(Tail(todo), Contents)
         /\ Nothing(Tail(todo), Contents) <=> OneItem(todo, Contents)
         /\ NoFolder(todo, Contents) <=> ~ IsFolder(Item) /\ NoFolder(Tail(todo), Contents)
<1>1. todo # <<>> /\ Head(todo).do = "digest" /\ Head(todo).n \in DOMAIN Contents
  BY DEF Runs, Exists
<1>2. Selecting(todo) /\ (Validated \/ Dispatched \/ cmd \in Marks) /\ Contents \in Seq(Listed)
  BY <1>1, AtAction, ContentsAre
<1>3. Selecting(Tail(todo))
  BY <1>1, <1>2, SelectingTail
<1> QED  BY <1>1, <1>2, <1>3, TailTells DEF Item

\* The first pass over an item.
LEMMA ValidateStep ==
  ASSUME IInv, Validate
  PROVE  IInv'
<1>1. /\ at = "parse" /\ at' = "parse" /\ Runs("digest") /\ Exists /\ todo' = Tail(todo)
      /\ UNCHANGED <<context, stack, playlist, line, filters, request, filters_cmd>>
      /\ Contents' = Contents
  BY DEF Validate, Runs, run, menu, request, Contents
<1>2. /\ Selecting(todo) /\ Selecting(todo')
      /\ Validated \/ Dispatched \/ cmd \in Marks
  BY <1>1, ItemHit
<1>3. cmd \in {"VALIDATE_START", "VALIDATE_ATOMS", "VALIDATE_FOLDER"} /\ Validated
  BY <1>2 DEF Validate, Dispatched, Marks
<1>4. /\ Nothing(todo', Contents) => OneItem(todo, Contents)
      /\ ~ IsFolder(Item) => (NoFolder(todo', Contents) => NoFolder(todo, Contents))
  BY <1>1, ItemHit
<1>5. /\ cmd' \in {"VALIDATE_ATOMS", "VALIDATE_FOLDER", "FAIL_FOLDER"}
      /\ cmd' = "VALIDATE_ATOMS" => (NoFolder(todo', Contents) => NoFolder(line, Contents))
      /\ cmd' = "VALIDATE_FOLDER" => (Nothing(todo', Contents) => OneItem(line, Contents))
  <2>1. CASE cmd = "VALIDATE_START"
    BY <1>3, <1>4, <2>1 DEF Validate, Validated
  <2>2. CASE cmd = "VALIDATE_ATOMS"
    BY <1>3, <1>4, <2>2 DEF Validate, Validated
  <2>3. CASE cmd = "VALIDATE_FOLDER"
    BY <2>3 DEF Validate
  <2> QED  BY <1>3, <2>1, <2>2, <2>3
<1>6. Idle' /\ Selecting(line')
  BY <1>1, <1>3 DEF Validated, Idle, Untouched
<1>7. /\ NoFolder(line, Contents)' = NoFolder(line, Contents)
      /\ OneItem(line, Contents)' = OneItem(line, Contents)
      /\ Nothing(todo, Contents)' = Nothing(todo', Contents)
      /\ NoFolder(todo, Contents)' = NoFolder(todo', Contents)
  BY <1>1
<1>8. Validated'
  BY <1>2, <1>5, <1>6, <1>7 DEF Validated
<1> QED  BY <1>1, <1>8, ParseStep DEF IInv, Types, ParseInv

\* The second: a folder is opened only when it is all that the line selects, so the one
\* that it goes on top of is the menu that lists it.
LEMMA DispatchStep ==
  ASSUME IInv, Dispatch
  PROVE  IInv'
<1>1. /\ at = "parse" /\ at' = "parse" /\ Runs("digest") /\ Exists /\ todo' = Tail(todo)
      /\ cmd = "VALIDATE_OK" /\ cmd' = "VALIDATE_OK"
      /\ UNCHANGED <<context, request, filters_cmd>> /\ Contents' = Contents
  BY DEF Dispatch, Runs, run, Contents
<1>2. /\ Selecting(todo) /\ Selecting(todo')
      /\ Dispatched
  BY <1>1, ItemHit DEF Validated, Marks
<1>3. stack \in Seq(Folders) /\ IsPath(stack) /\ stack # <<>>
  BY <1>2 DEF IInv, Types, Dispatched
<1>4. NoFolder(todo', Contents)
  <2>1. CASE NoFolder(todo, Contents)
    BY <1>1, <2>1, ItemHit
  <2>2. CASE OneItem(todo, Contents)
    <3>1. Nothing(todo', Contents)
      BY <1>1, <2>2, ItemHit
    <3> QED  BY <3>1 DEF Nothing, NoFolder, NoFolders
  <2> QED  BY <1>2, <2>1, <2>2 DEF Dispatched
<1>5. stack' \in Seq(Folders) /\ IsPath(stack') /\ stack' # <<>>
  <2>1. CASE IsFolder(Item)
    <3>1. ~ NoFolder(todo, Contents)
      BY <1>1, <2>1, ItemHit
    <3>2. Last(stack) = context
      BY <1>2, <3>1 DEF Dispatched
    <3>3. Item \in Folders /\ Follows(stack, Item)
      BY <1>1, <2>1, <3>2 DEF Follows, Item, Exists, Contents, IsFolder, Folders
    <3>4. stack' = Append(stack, Item)
      BY <2>1 DEF Dispatch
    <3> QED  BY <1>3, <3>3, <3>4, PathPush
  <2>2. CASE ~ IsFolder(Item)
    BY <1>3, <2>2 DEF Dispatch
  <2> QED  BY <2>1, <2>2
<1>6. NoFolder(todo, Contents)' = NoFolder(todo', Contents)
  BY <1>1
<1>7. Dispatched'
  BY <1>1, <1>2, <1>4, <1>5, <1>6 DEF Dispatched
<1> QED  BY <1>1, <1>5, <1>7, ParseStep DEF IInv, Types, ParseInv

\* Marking an item.
LEMMA SetFlagStep ==
  ASSUME IInv, SetFlag
  PROVE  IInv'
<1>1. /\ at = "parse" /\ at' = "parse" /\ Runs("digest") /\ Exists /\ todo' = Tail(todo)
      /\ cmd \in Marks /\ cmd' = cmd
      /\ UNCHANGED <<context, stack, request, filters_cmd>>
  BY DEF SetFlag, Runs, run
<1>2. Selecting(todo')
  BY <1>1, ItemHit
<1>3. ParseInv'
  BY <1>1, <1>2 DEF ParseInv
<1> QED  BY <1>1, <1>3, ParseStep DEF IInv, Types

\* The end of either pass.
LEMMA FinalizeStep ==
  ASSUME IInv, Finalize
  PROVE  IInv'
<1>1. /\ at = "parse" /\ at' = "prompt" /\ todo = <<>>
      /\ cmd' = CASE cmd \in {"VALIDATE_ATOMS", "VALIDATE_FOLDER", "VALIDATE_FILTERS"} -> "VALIDATE_OK"
                [] cmd \in Marks \cup {"VALIDATE_OK", "SPECIAL", "VALIDATE_START"} -> "SUCCESS"
                [] OTHER -> cmd
      /\ UNCHANGED <<line, stack, context, filters, query, asked, filters_cmd, playlist>>
      /\ Contents' = Contents
  BY DEF Finalize, menu, request, Contents
<1>2. Types' /\ AskedInv' /\ PrintInv'
  BY <1>1 DEF IInv, Types, AskedInv, PrintInv, Folders, IsPath, Contradictory, Shown
<1>3. Nothing(todo, Contents) /\ NoFolder(todo, Contents)
  BY <1>1, SelectionNone DEF Nothing, NoFolder, NoFolders
<1>4. /\ cmd' \in {"VALIDATE_OK", "SUCCESS"} \cup Failures
      /\ cmd' # "SUCCESS" => Idle
      /\ cmd' = "VALIDATE_OK" =>
           Filtering(line) \/ (Selecting(line) /\ (NoFolder(line, Contents) \/ OneItem(line, Contents)))
  <2>1. CASE Validated
    BY <1>1, <1>3, <2>1 DEF Validated, Failures, Marks
  <2>2. CASE Dispatched \/ cmd \in Marks \/ cmd = "SPECIAL"
    BY <1>1, <2>2 DEF Dispatched, Marks
  <2>3. CASE cmd = "VALIDATE_FILTERS" /\ Filtering(line) /\ Idle
    BY <1>1, <2>3
  <2>4. CASE cmd = "FAIL_SPECIAL" /\ Idle
    BY <1>1, <2>4 DEF Failures, Marks
  <2>5. ~ Marking(todo) /\ ~ OneWord(todo) /\ ~ Filtering(todo)
    BY <1>1 DEF Marking, OneWord, Filtering, Starts
  <2> QED  BY <1>1, <2>1, <2>2, <2>3, <2>4, <2>5 DEF IInv, ParseInv
<1>5. Idle => Idle'
  BY <1>1 DEF Idle, Untouched
<1>6. /\ NoFolder(line, Contents)' = NoFolder(line, Contents)
      /\ OneItem(line, Contents)' = OneItem(line, Contents)
  BY <1>1
<1>7. PromptInv'
  BY <1>1, <1>4, <1>5, <1>6 DEF PromptInv
<1>8. ParseInv'
  BY <1>1 DEF ParseInv
<1> QED  BY <1>2, <1>7, <1>8 DEF IInv

\* Going to the menu on top of the stack.
LEMMA EnterMenuStep ==
  ASSUME IInv, EnterMenu
  PROVE  IInv'
<1>1. /\ at' = "print" /\ playlist' = <<>>
      /\ filters' = filters_cmd /\ filters_cmd' = filters_cmd
      /\ query' = QueryOf(TypeOf[context'], filters_cmd)
      /\ context' = IF stack = <<>> THEN Root ELSE Last(stack)
      /\ stack' = IF stack = <<>> THEN stack ELSE Front(stack)
  BY DEF EnterMenu
<1>2. stack \in Seq(Folders) /\ IsPath(stack) /\ filters_cmd \subseteq FilterKinds /\ ~ Contradictory(filters_cmd)
  BY DEF IInv, Types
<1>3. /\ stack' \in Seq(Folders) /\ IsPath(stack') /\ context' \in Folders
      /\ IF stack' = <<>> THEN context' = Root ELSE Follows(stack', context')
  <2>1. CASE stack = <<>>
    BY <1>1, <1>2, <2>1, TreeAssumption DEF Folders
  <2>2. CASE stack # <<>>
    BY <1>1, <1>2, <2>2, PathPop
  <2> QED  BY <2>1, <2>2
<1>4. Types'
  BY <1>1, <1>2, <1>3 DEF Types, Folders, IsPath, Contradictory
<1>5. PrintInv'
  BY <1>1, <1>3 DEF PrintInv, Follows
<1>6. PromptInv' /\ ParseInv' /\ AskedInv'
  BY <1>1 DEF PromptInv, ParseInv, AskedInv
<1> QED  BY <1>4, <1>5, <1>6 DEF IInv

\* What the server is asked for is what the title shows.
LEMMA AskedIsShown ==
  ASSUME ~ Contradictory(filters), TypeOf[context] # "PLAYLIST",
         query = QueryOf(TypeOf[context], filters)
  PROVE  UrlFilters(TypeOf[context]) = Shown
<1> DEFINE type == TypeOf[context]
<1>1. Shown = {f \in filters : Allows(type, f)}
  BY DEF Shown
<1>2. type # "PLAYLIST" /\ query = QueryOf(type, filters)
  OBVIOUS
<1> HIDE DEF type
<1>3. CASE type \in {"MENU_ROOT", "MENU_CONTINUE", "MENU_NEXT_UP", "MENU_LIBRARIES"}
  <2>1. \A f \in filters : ~ Allows(type, f)
    BY <1>3 DEF Allows
  <2>2. UrlFilters(type) = {}
    BY <1>3 DEF UrlFilters
  <2> QED  BY <1>1, <2>1, <2>2 DEF type
<1>4. CASE type = "MENU_LATEST_ADDED"
  <2>1. \A f \in filters : Allows(type, f) <=> f \in {"played", "unplayed"}
    BY <1>4 DEF Allows
  <2>2. UrlFilters(type) = IF "played" \in filters THEN {"played"} ELSE filters \cap {"unplayed"}
    BY <1>4 DEF UrlFilters
  <2>3. ~ ("played" \in filters /\ "unplayed" \in filters)
    BY DEF Contradictory
  <2> QED  BY <1>1, <2>1, <2>2, <2>3 DEF type
<1>5. CASE type \notin {"PLAYLIST", "MENU_ROOT", "MENU_CONTINUE", "MENU_NEXT_UP", "MENU_LIBRARIES",
                        "MENU_LATEST_ADDED"}
  <2>1. UrlFilters(type) = query
    BY <1>5 DEF UrlFilters
  <2>2. query = {f \in filters : Allows(type, f)}
    BY <1>2, <1>5 DEF QueryOf
  <2> QED  BY <1>1, <2>1, <2>2 DEF type
<1> QED  BY <1>2, <1>3, <1>4, <1>5

\* The menu is on the screen.
LEMMA PrintContextStep ==
  ASSUME IInv, PrintContext
  PROVE  IInv'
<1>1. /\ at = "print" /\ at' = "prompt" /\ cmd' = "VALIDATE_START"
      /\ asked' = UrlFilters(TypeOf[context]) /\ stack' = Append(stack, context)
      /\ UNCHANGED <<context, filters, query, filters_cmd, playlist>>
  BY DEF PrintContext
<1>2. /\ stack \in Seq(Folders) /\ IsPath(stack) /\ context \in Folders
      /\ ~ Contradictory(filters) /\ filters_cmd = filters /\ playlist = <<>>
      /\ query = QueryOf(TypeOf[context], filters)
      /\ IF stack = <<>> THEN context = Root ELSE Follows(stack, context)
  BY <1>1 DEF IInv, Types, PrintInv
<1>3. /\ stack' \in Seq(Folders) /\ IsPath(stack') /\ stack' # <<>> /\ Last(stack') = context
  BY <1>1, <1>2, PathPush
<1>4. Types'
  BY <1>1, <1>2, <1>3 DEF IInv, Types, Folders, IsPath, Contradictory
<1>5. Idle'
  BY <1>1, <1>2, <1>3 DEF Idle, Untouched
<1>6. PromptInv'
  BY <1>1, <1>5 DEF PromptInv
<1>7. AskedInv'
  <2>1. TypeOf[context] # "PLAYLIST" => asked' = Shown
    BY <1>1, <1>2, AskedIsShown
  <2>2. Shown' = Shown
    BY <1>1 DEF Shown
  <2> QED  BY <1>1, <2>1, <2>2 DEF AskedInv
<1>8. PrintInv' /\ ParseInv'
  BY <1>1 DEF PrintInv, ParseInv
<1> QED  BY <1>4, <1>6, <1>7, <1>8 DEF IInv

\* Steps out of the menu and in it.
LEMMA OutStep ==
  ASSUME IInv, PrintFails \/ Succeed \/ PlaybackOver
  PROVE  IInv'
<1>1. /\ at' = "menu" /\ UNCHANGED <<stack, filters, filters_cmd>> /\ context' \in {context, NULL}
  BY DEF PrintFails, Succeed, PlaybackOver, menu, request
<1>2. Types'
  BY <1>1 DEF IInv, Types, Folders, IsPath, Contradictory
<1> QED  BY <1>1, <1>2 DEF IInv, PrintInv, PromptInv, ParseInv, AskedInv

\* At a prompt the menu stays what it is.
LEMMA PromptStep ==
  ASSUME IInv, at = "prompt", at' \in {"prompt", "parse"},
         UNCHANGED <<menu, filters_cmd, playlist>>, PromptInv', ParseInv'
  PROVE  IInv'
<1>1. UNCHANGED <<context, stack, filters, query, asked, filters_cmd>>
  BY DEF menu, request
<1>2. Types'
  BY <1>1 DEF IInv, Types, Folders, IsPath, Contradictory
<1>3. AskedInv'
  BY <1>1 DEF IInv, AskedInv, Shown
<1> QED  BY <1>2, <1>3 DEF IInv, PrintInv

\* A new line: of the grammar, or not.
LEMMA ReadLineStep ==
  ASSUME IInv, NEW l \in Lines \cup {Malformed}, ReadLine(l)
  PROVE  IInv'
<1>1. /\ at = "prompt" /\ cmd = "VALIDATE_START" /\ line' = l
      /\ IF l = Malformed THEN cmd' = "FAIL_SYNTAX" /\ at' = at
         ELSE at' = "parse" /\ todo' = l /\ cmd' = cmd
      /\ UNCHANGED <<menu, filters_cmd, playlist>>
  BY DEF ReadLine
<1>2. Idle /\ Idle'
  BY <1>1 DEF IInv, PromptInv, Idle, Untouched, menu, request
<1>3. CASE l = Malformed
  <2>1. PromptInv' /\ ParseInv'
    BY <1>1, <1>2, <1>3 DEF PromptInv, ParseInv, Failures
  <2> QED  BY <1>1, <1>3, <2>1, PromptStep
<1>4. CASE l # Malformed
  <2>1. Selecting(l) \/ Marking(l) \/ Filtering(l) \/ OneWord(l)
    BY <1>4, LinesAssumption
  <2>2. Selecting(l) => Validated'
    BY <1>1, <1>2, <1>4 DEF Validated
  <2>3. Filtering(l) => Filtering(todo') /\ Filtering(line')
    BY <1>1, <1>4
  <2>4. ParseInv'
    BY <1>1, <1>2, <1>4, <2>1, <2>2, <2>3 DEF ParseInv
  <2>5. PromptInv'
    BY <1>1, <1>4 DEF PromptInv
  <2> QED  BY <1>1, <1>4, <2>4, <2>5, PromptStep
<1> QED  BY <1>3, <1>4

\* The second pass over a line, and a line refused.
LEMMA AgainStep ==
  ASSUME IInv, SecondPass \/ Reject
  PROVE  IInv'
<1>1. at = "prompt" /\ cmd # "SUCCESS" /\ UNCHANGED <<menu, filters_cmd, playlist>>
  BY DEF SecondPass, Reject, Failures
<1>2. Idle /\ Idle' /\ Contents' = Contents
  BY <1>1 DEF IInv, PromptInv, Idle, Untouched, menu, request, Contents
<1>3. CASE Reject
  <2>1. at' = "prompt" /\ cmd' = "VALIDATE_START"
    BY <1>1, <1>3 DEF Reject, run
  <2>2. PromptInv' /\ ParseInv'
    BY <1>2, <2>1 DEF PromptInv, ParseInv
  <2> QED  BY <1>1, <2>1, <2>2, PromptStep
<1>4. CASE SecondPass
  <2>1. at' = "parse" /\ todo' = line /\ line' = line /\ cmd = "VALIDATE_OK" /\ cmd' = cmd
    BY <1>4 DEF SecondPass
  <2>2. Filtering(line) \/ (Selecting(line) /\ (NoFolder(line, Contents) \/ OneItem(line, Contents)))
    BY <1>1, <2>1 DEF IInv, PromptInv
  <2>3. /\ NoFolder(todo, Contents)' = NoFolder(line, Contents)
        /\ OneItem(todo, Contents)' = OneItem(line, Contents)
    BY <1>2, <2>1
  <2>4. ParseInv'
    <3>1. CASE Filtering(line)
      BY <1>2, <2>1, <3>1 DEF ParseInv
    <3>2. CASE Selecting(line) /\ (NoFolder(line, Contents) \/ OneItem(line, Contents))
      <4>1. Dispatched'
        BY <1>2, <2>1, <2>3, <3>2 DEF Dispatched, Idle, Untouched
      <4> QED  BY <4>1 DEF ParseInv
    <3> QED  BY <2>2, <3>1, <3>2
  <2>5. PromptInv'
    BY <2>1 DEF PromptInv
  <2> QED  BY <1>1, <2>1, <2>4, <2>5, PromptStep
<1> QED  BY <1>3, <1>4

-----------------------------------------------------------------------------
(* The invariant                                                           *)

\* It holds at the start.
LEMMA InitIInv == Init => IInv
<1> SUFFICES ASSUME Init PROVE IInv
  OBVIOUS
<1>1. /\ at = "menu" /\ stack = <<>> /\ context = NULL /\ filters = {} /\ filters_cmd = {}
  BY DEF Init
<1>2. Types
  BY <1>1 DEF Types, IsPath, Contradictory
<1> QED  BY <1>1, <1>2 DEF IInv, PrintInv, PromptInv, ParseInv, AskedInv

\* Every step of the menu keeps it.
LEMMA NextIInv == IInv /\ [Next]_vars => IInv'
<1> SUFFICES ASSUME IInv, [Next]_vars PROVE IInv'
  OBVIOUS
<1>1. CASE Loop
  BY <1>1, EnterMenuStep, PrintContextStep, OutStep, ReadLineStep, AgainStep DEF Loop
<1>2. CASE Parse
  BY <1>2, WordStep, FiltersStartStep, FilterStep, MarkStep, RangeStep, DigestNothingStep,
     ValidateStep, DispatchStep, SetFlagStep, FinalizeStep DEF Parse
<1>3. CASE PlaybackOver
  BY <1>3, OutStep
<1>4. CASE UNCHANGED vars
  <2>1. UNCHANGED <<at, stack, context, filters, filters_cmd, query, asked, cmd, line, todo, playlist>>
    BY <1>4 DEF vars
  <2> QED  BY <2>1 DEF IInv, Types, PrintInv, PromptInv, ParseInv, AskedInv, Validated, Dispatched,
                       Idle, Untouched, Contents, Shown, Folders, IsPath, Follows, Contradictory
<1> QED  BY <1>1, <1>2, <1>3, <1>4 DEF Next

\* So it always holds.
LEMMA Always == Spec => []IInv
BY InitIInv, NextIInv, PTL DEF Spec

\* In any library, whatever is typed, the menu stack is a way down from the root menu: two
\* folders of one menu never come to be on it (FAIL_FOLDER in yy_cmd_digest).
THEOREM AlwaysPath == Spec => []StackIsPath
<1>1. IInv => StackIsPath
  <2> SUFFICES ASSUME IInv PROVE StackIsPath
    OBVIOUS
  <2>1. IsPath(stack)
    BY DEF IInv, Types
  <2> QED  BY <2>1 DEF IsPath, StackIsPath, Range
<1> QED  BY <1>1, Always, PTL

\* A line that is refused, in the first pass or in the second, has left the menu, the
\* playlist and the filters as they were.
THEOREM RefusalsIdle == Spec => []RefusedLinesDoNothing
<1>1. IInv => RefusedLinesDoNothing
  <2> SUFFICES ASSUME IInv, at = "prompt", cmd \in Failures \cup {"VALIDATE_START"}
               PROVE  /\ stack # <<>> /\ Last(stack) = context
                      /\ playlist = <<>> /\ filters_cmd = filters
    BY DEF RefusedLinesDoNothing
  <2>1. cmd # "SUCCESS"
    BY DEF Failures
  <2> QED  BY <2>1 DEF IInv, PromptInv, Idle, Untouched
<1> QED  BY <1>1, Always, PTL

\* Every menu but a playlist is asked for with just the filters that its title shows.
THEOREM AskedAsShown == Spec => []FiltersAsShown
<1>1. IInv => FiltersAsShown
  BY DEF IInv, AskedInv, FiltersAsShown
<1> QED  BY <1>1, Always, PTL

-----------------------------------------------------------------------------
(* What a line has done                                                    *)

\* As long as the line and the menu stay, so does what the one selects of the other.
LEMMA SelectedStays ==
  ASSUME UNCHANGED <<context, line>>
  PROVE  Contents' = Contents /\ Selected' = Selected /\ Listed' = Listed
         /\ Selection(todo, Contents)' = Selection(todo', Contents)
BY DEF Contents, Selected, Listed

\* A step over a range or a number without an item.
LEMMA SameSelection ==
  ASSUME Honouring, at = "parse", UNCHANGED <<at, cmd, context, line, stack, playlist, marked>>,
         todo # <<>>, Head(todo).do \in {"digest", "range", "all"},
         cmd = "VALIDATE_START" => Selecting(line), Selecting(todo'),
         Selection(todo', Contents) = Selection(todo, Contents)
  PROVE  Honouring'
<1>1. /\ Contents' = Contents /\ Selected' = Selected /\ Listed' = Listed
      /\ Selection(todo, Contents)' = Selection(todo, Contents)
  BY SelectedStays
<1>2. ~ Filtering(todo)
  BY HeadTells
<1>3. cmd = "VALIDATE_START" => Unread'
  BY <1>1 DEF Honouring, Unread
<1>4. cmd = "VALIDATE_OK" => Playing' \/ Opened'
  BY <1>1, <1>2 DEF Honouring, Playing, Opened
<1>5. cmd \in Marks => MarkedSoFar'
  BY <1>1 DEF Honouring, MarkedSoFar, Untouched
<1>6. SelectionHonoured'
  BY DEF SelectionHonoured
<1> QED  BY <1>1, <1>3, <1>4, <1>5, <1>6 DEF Honouring

\* The words and the filter command.
LEMMA WordHonours ==
  ASSUME IInv, Honouring, Dotdot \/ Help \/ Home \/ SearchFor \/ Quit
  PROVE  Honouring'
<1>1. /\ at = "parse" /\ at' = "parse" /\ todo # <<>> /\ cmd' = "SPECIAL"
      /\ Head(todo).do \in {"dotdot", "help", "home", "search", "quit"}
      /\ UNCHANGED <<context, line>>
  BY DEF Dotdot, Help, Home, SearchFor, Quit, Runs, Special, run, menu
<1>2. OneWord(todo) /\ cmd = "VALIDATE_START" /\ Contents \in Seq(Listed)
  BY <1>1, AtAction, ContentsAre
<1>3. Selected = <<>>
  <2>1. Selection(todo, Contents) = <<>>
    BY <1>2, NoSelectors
  <2> QED  BY <1>1, <1>2, <2>1 DEF Honouring, Unread
<1>4. Selected' = <<>>
  BY <1>1, <1>3, SelectedStays
<1> QED  BY <1>1, <1>4 DEF Honouring, SelectionHonoured, Marks

\* A filter command selects nothing either.
LEMMA FiltersHonour ==
  ASSUME IInv, Honouring, FiltersStart \/ Filter
  PROVE  Honouring'
<1>1. /\ at = "parse" /\ at' = "parse" /\ todo # <<>> /\ UNCHANGED <<context, line>>
  BY DEF FiltersStart, Filter, Runs, run, menu
<1>2. Selected' = Selected
  BY <1>1, SelectedStays
<1>3. CASE FiltersStart
  <2>1. Head(todo).do = "filters" /\ cmd' \in {"VALIDATE_FILTERS", "SPECIAL"}
    BY <1>3 DEF FiltersStart, Runs
  <2>2. Filtering(line) /\ Contents \in Seq(Listed)
    BY <1>1, <2>1, AtAction, ContentsAre
  <2>3. Selected = <<>>
    BY <2>2, NoSelectors DEF Selected
  <2> QED  BY <1>1, <1>2, <2>1, <2>3 DEF Honouring, SelectionHonoured, Marks
<1>4. CASE Filter
  <2>1. Head(todo).do = "filter" /\ cmd' \in {cmd, "FAIL_SPECIAL"}
    BY <1>4 DEF Filter, Runs
  <2>2. cmd \in {"VALIDATE_FILTERS", "SPECIAL", "FAIL_SPECIAL"}
    BY <1>1, <2>1, AtAction
  <2> QED  BY <1>1, <1>2, <2>1, <2>2 DEF Honouring, SelectionHonoured, Marks
<1> QED  BY <1>3, <1>4

\* From a mark on, the line marks what the rest of it selects.
LEMMA MarkHonours ==
  ASSUME IInv, Honouring, Mark
  PROVE  Honouring'
<1>1. /\ at = "parse" /\ at' = "parse" /\ todo # <<>> /\ todo' = Tail(todo) /\ Head(todo).do = "mark"
      /\ cmd' = Head(todo).flag
      /\ UNCHANGED <<context, line, stack, playlist, marked>>
  BY DEF Mark, Runs, run, menu
<1>2. Marking(todo) /\ cmd = "VALIDATE_START" /\ Idle /\ Contents \in Seq(Listed)
  BY <1>1, AtAction, ContentsAre
<1>3. /\ todo \in Seq(Actions) /\ Selects(Head(todo), Contents) = <<>>
      /\ cmd' \in Marks
  BY <1>1, <1>2 DEF Marking, Starts, Selects
<1>4. /\ Selection(todo', Contents) \in Seq(Listed)
      /\ Selection(todo, Contents) = <<>> \o Selection(todo', Contents)
  BY <1>1, <1>2, <1>3, SelectionCons
<1>5. marked = <<>> /\ Selection(todo, Contents) = Selected /\ (todo = line \/ Selecting(todo))
  BY <1>1, <1>2 DEF Honouring, Unread
<1>6. Marking(line)
  <2>1. ~ Selecting(todo)
    BY <1>1, HeadTells
  <2> QED  BY <1>2, <1>5, <2>1
<1>7. MarkedSoFar'
  <2>1. marked' \in Seq(Listed) /\ marked' \o Selection(todo', Contents) = Selected
    BY <1>1, <1>4, <1>5, EmptySeq
  <2>2. Untouched' /\ Marking(line')
    BY <1>1, <1>2, <1>6 DEF Idle, Untouched
  <2> QED  BY <1>1, <2>1, <2>2, SelectedStays DEF MarkedSoFar
<1> QED  BY <1>1, <1>3, <1>7 DEF Honouring, SelectionHonoured, Marks

\* A range is written out, a number without an item is skipped.
LEMMA RangeHonours ==
  ASSUME IInv, Honouring, DigestRange \/ DigestAll \/ DigestNothing
  PROVE  Honouring'
<1>1. /\ at = "parse" /\ todo # <<>> /\ Head(todo).do \in {"digest", "range", "all"}
      /\ UNCHANGED <<at, cmd, context, line, stack, playlist, marked>>
  BY DEF DigestRange, DigestAll, DigestNothing, Runs, run, menu
<1>2. /\ Selecting(todo) /\ (Validated \/ Dispatched \/ cmd \in Marks)
      /\ Contents \in Seq(Listed)
  BY <1>1, AtAction, ContentsAre
<1>3. cmd = "VALIDATE_START" => Selecting(line)
  BY <1>2 DEF Validated, Dispatched, Marks
<1>4. CASE DigestRange \/ DigestAll
  <2>1. todo' = Written(todo, Contents) /\ Head(todo).do \in {"range", "all"}
    BY <1>4, Zenon DEF DigestRange, DigestAll, Runs, Numbers, Written, Digits
  <2>2. Selecting(todo') /\ Selection(todo', Contents) = Selection(todo, Contents)
    BY <1>1, <1>2, <2>1, WrittenOut
  <2> QED  BY <1>1, <1>3, <2>2, SameSelection
<1>5. CASE DigestNothing /\ ~ Exists
  <2>1. Head(todo).do = "digest" /\ Head(todo).n \notin DOMAIN Contents /\ todo' = Tail(todo)
    BY <1>5 DEF DigestNothing, Runs, Exists
  <2>2. Selection(todo', Contents) = Selection(todo, Contents)
    BY <1>1, <1>2, <2>1, TailTells
  <2>3. Selecting(todo')
    BY <1>1, <1>2, <2>1, SelectingTail
  <2> QED  BY <1>1, <1>3, <2>2, <2>3, SameSelection
<1>6. CASE DigestNothing /\ cmd \in Failures
  BY <1>1, <1>6 DEF Honouring, SelectionHonoured, Failures, Marks
<1> QED  BY <1>4, <1>5, <1>6, Zenon DEF DigestNothing

\* An item seen in the first pass.
LEMMA ValidateHonours ==
  ASSUME IInv, Honouring, Validate
  PROVE  Honouring'
<1>1. /\ at = "parse" /\ at' = "parse"
      /\ cmd' \in {"VALIDATE_FOLDER", "VALIDATE_ATOMS", "FAIL_FOLDER"}
  BY DEF Validate, Runs, run
<1> QED  BY <1>1 DEF Honouring, SelectionHonoured, Marks

\* The item goes where the line says.
LEMMA DispatchHonours ==
  ASSUME IInv, Honouring, Dispatch
  PROVE  Honouring'
<1> DEFINE rest == Selection(Tail(todo), Contents)
<1>1. /\ at = "parse" /\ at' = "parse" /\ Runs("digest") /\ Exists /\ todo' = Tail(todo)
      /\ cmd = "VALIDATE_OK" /\ cmd' = "VALIDATE_OK"
      /\ UNCHANGED <<context, line>>
  BY DEF Dispatch, Runs, run
<1>2. /\ todo # <<>> /\ Selecting(todo) /\ Item \in Listed /\ rest \in Seq(Listed)
      /\ Selection(todo, Contents) = <<Item>> \o rest
  BY <1>1, ItemHit
<1>3. /\ Selected' = Selected /\ Listed' = Listed
      /\ Selection(todo, Contents)' = rest
  BY <1>1, SelectedStays
<1> HIDE DEF rest
<1>4. <<Item>> \o rest # <<>> /\ Len(<<Item>> \o rest) = 1 + Len(rest) /\ Len(rest) \in Nat
  BY <1>2, OneThenOthers, LenProperties
<1>5. Playing
  <2>1. ~ Filtering(todo)
    BY <1>2, HeadTells
  <2>2. ~ Opened
    BY <1>2, <1>4 DEF Opened
  <2> QED  BY <1>1, <2>1, <2>2 DEF Honouring
<1>6. playlist \in Seq(Listed) /\ Selected = playlist \o (<<Item>> \o rest)
  BY <1>2, <1>5 DEF Playing
<1>7. CASE IsFolder(Item)
  <2>1. stack' = Append(stack, Item) /\ playlist' = playlist
    BY <1>7 DEF Dispatch
  <2>2. playlist = <<>> /\ rest = <<>>
    BY <1>2, <1>5, <1>6, <1>7, FolderAlone DEF Playing
  <2>3. Selected = <<Item>>
    BY <1>6, <2>2
  <2>4. Last(stack') = Item
    <3>1. stack \in Seq(Folders) /\ Item \in Folders
      BY <1>7 DEF IInv, Types, IsFolder, Folders
    <3> QED  BY <2>1, <3>1, AppendProperties, LenProperties DEF Last
  <2>5. Opened'
    BY <1>1, <1>3, <1>5, <2>1, <2>2, <2>3, <2>4 DEF Opened, Playing
  <2> QED  BY <1>1, <2>5 DEF Honouring, SelectionHonoured, Marks
<1>8. CASE ~ IsFolder(Item)
  <2>1. stack' = stack /\ playlist' = Append(playlist, Item)
    BY <1>8 DEF Dispatch
  <2>2. playlist' \in Seq(Listed) /\ playlist' \o rest = Selected
    BY <1>2, <1>6, <2>1, OneMoreBehind
  <2>3. Playing'
    BY <1>1, <1>3, <1>5, <2>1, <2>2 DEF Playing
  <2> QED  BY <1>1, <2>3 DEF Honouring, SelectionHonoured, Marks
<1> QED  BY <1>7, <1>8

\* The item is marked.
LEMMA SetFlagHonours ==
  ASSUME IInv, Honouring, SetFlag
  PROVE  Honouring'
<1> DEFINE rest == Selection(Tail(todo), Contents)
<1>1. /\ at = "parse" /\ at' = "parse" /\ Runs("digest") /\ Exists /\ todo' = Tail(todo)
      /\ cmd \in Marks /\ cmd' = cmd /\ marked' = Append(marked, Item)
      /\ UNCHANGED <<context, line, stack, playlist>>
  BY DEF SetFlag, Runs, run
<1>2. /\ Item \in Listed /\ rest \in Seq(Listed)
      /\ Selection(todo, Contents) = <<Item>> \o rest
  BY <1>1, ItemHit
<1>3. /\ Selected' = Selected /\ Listed' = Listed
      /\ Selection(todo, Contents)' = rest
  BY <1>1, SelectedStays
<1> HIDE DEF rest
<1>4. MarkedSoFar
  BY <1>1 DEF Honouring
<1>5. marked' \in Seq(Listed) /\ marked' \o rest = Selected
  <2>1. marked \in Seq(Listed) /\ Selected = marked \o (<<Item>> \o rest)
    BY <1>2, <1>4 DEF MarkedSoFar
  <2> QED  BY <1>1, <1>2, <2>1, OneMoreBehind
<1>6. MarkedSoFar'
  BY <1>1, <1>3, <1>4, <1>5 DEF MarkedSoFar, Untouched
<1> QED  BY <1>1, <1>6 DEF Honouring, SelectionHonoured, Marks

\* At the end all of it is done.
LEMMA FinalizeHonours ==
  ASSUME IInv, Honouring, Finalize
  PROVE  Honouring'
<1>1. /\ at = "parse" /\ at' = "prompt" /\ todo = <<>>
      /\ cmd' = CASE cmd \in {"VALIDATE_ATOMS", "VALIDATE_FOLDER", "VALIDATE_FILTERS"} -> "VALIDATE_OK"
                [] cmd \in Marks \cup {"VALIDATE_OK", "SPECIAL", "VALIDATE_START"} -> "SUCCESS"
                [] OTHER -> cmd
      /\ UNCHANGED <<line, context, stack, playlist, marked>>
  BY DEF Finalize, menu
<1>2. Selection(todo, Contents) = <<>>
  BY <1>1, SelectionNone
<1>3. Selected' = Selected
  BY <1>1, SelectedStays
<1>4. ASSUME cmd' = "SUCCESS", Selected # <<>>
      PROVE  IF line[1].do = "mark"
             THEN marked = Selected /\ playlist = <<>> /\ Last(stack) = context
             ELSE \/ playlist = Selected /\ Last(stack) = context
                  \/ playlist = <<>> /\ Selected = <<Last(stack)>>
  <2>1. cmd \in Marks \cup {"VALIDATE_OK", "SPECIAL", "VALIDATE_START"}
    <3>1. cmd # "SUCCESS"
      BY <1>1 DEF IInv, ParseInv, Validated, Dispatched, Marks
    <3> QED  BY <1>1, <1>4, <3>1
  <2>2. cmd # "SPECIAL" /\ cmd # "VALIDATE_START"
    BY <1>1, <1>2, <1>4 DEF Honouring, Unread
  <2>3. ASSUME Selecting(line) PROVE line[1].do # "mark"
    <3>1. line # <<>>
      BY <1>4, SelectionNone DEF Selected
    <3>2. Head(line).do \in {"digest", "range", "all"} /\ Head(line) = line[1]
      BY <2>3, <3>1, HeadTells, TailKind DEF Selecting
    <3> QED  BY <3>2
  <2>4. CASE cmd \in Marks
    <3>1. MarkedSoFar
      BY <1>1, <2>4 DEF Honouring
    <3>2. marked = Selected
      BY <1>2, <3>1, ConcatEmptySeq DEF MarkedSoFar
    <3>3. line[1].do = "mark"
      <4>1. line # <<>> /\ line \in Seq(Actions) /\ Head(line).do = "mark"
        BY <3>1, HeadTells DEF MarkedSoFar, Marking, Starts
      <4>2. Head(line) = line[1]
        BY <4>1, TailKind
      <4> QED  BY <4>1, <4>2
    <3> QED  BY <3>1, <3>2, <3>3 DEF MarkedSoFar, Untouched
  <2>5. CASE cmd = "VALIDATE_OK"
    <3>1. ~ Filtering(todo)
      BY <1>1 DEF Filtering, Starts
    <3>2. CASE Playing
      <4>1. playlist = Selected
        BY <1>2, <3>2, ConcatEmptySeq DEF Playing
      <4> QED  BY <2>3, <3>2, <4>1 DEF Playing
    <3>3. CASE Opened
      BY <2>3, <3>3 DEF Opened
    <3> QED  BY <1>1, <2>5, <3>1, <3>2, <3>3 DEF Honouring
  <2> QED  BY <2>1, <2>2, <2>4, <2>5
<1>5. SelectionHonoured'
  BY <1>1, <1>3, <1>4 DEF SelectionHonoured
<1> QED  BY <1>1, <1>5 DEF Honouring

\* Either pass starts with nothing done.
LEMMA PassHonours ==
  ASSUME IInv, Honouring, SecondPass \/ Reject \/ \E l \in Lines \cup {Malformed} : ReadLine(l)
  PROVE  Honouring'
<1>1. at = "prompt" /\ UNCHANGED <<context, stack, playlist>> /\ Contents' = Contents /\ Listed' = Listed
  BY DEF SecondPass, Reject, ReadLine, menu, Contents, Listed
<1>2. CASE Reject
  <2>1. at' = "prompt" /\ cmd' = "VALIDATE_START"
    BY <1>1, <1>2 DEF Reject, run
  <2> QED  BY <2>1 DEF Honouring, SelectionHonoured
<1>3. CASE \E l \in Lines \cup {Malformed} : ReadLine(l)
  <2>1. PICK l \in Lines \cup {Malformed} : ReadLine(l)
    BY <1>3
  <2>2. CASE l = Malformed
    BY <1>1, <2>1, <2>2 DEF ReadLine, Honouring, SelectionHonoured
  <2>3. CASE l # Malformed
    <3>1. /\ at' = "parse" /\ cmd' = "VALIDATE_START" /\ todo' = l /\ line' = l /\ marked' = <<>>
      BY <2>1, <2>3 DEF ReadLine
    <3>2. Unread'
      BY <3>1 DEF Unread, Selected
    <3> QED  BY <3>1, <3>2 DEF Honouring, SelectionHonoured, Marks
  <2> QED  BY <2>2, <2>3
<1>4. CASE SecondPass
  <2>1. at' = "parse" /\ todo' = line /\ line' = line /\ cmd = "VALIDATE_OK" /\ cmd' = cmd
    BY <1>4 DEF SecondPass
  <2>2. /\ Filtering(line) \/ (Selecting(line) /\ (NoFolder(line, Contents) \/ OneItem(line, Contents)))
        /\ Idle /\ Contents \in Seq(Listed)
    BY <1>1, <2>1, ContentsAre DEF IInv, PromptInv
  <2>3. Selected' = Selected /\ Selection(todo, Contents)' = Selected
    BY <1>1, <2>1 DEF Selected
  <2>4. CASE Filtering(line)
    BY <2>1, <2>4 DEF Honouring, SelectionHonoured, Marks
  <2>5. CASE Selecting(line) /\ (NoFolder(line, Contents) \/ OneItem(line, Contents))
    <3>1. Selected \in Seq(Listed)
      BY <2>2, <2>5, SelectionIs DEF Selected
    <3>2. playlist' = <<>> /\ <<>> \in Seq(Listed) /\ <<>> \o Selected = Selected
      BY <1>1, <2>2, <3>1, ConcatEmptySeq, EmptySeq DEF Idle, Untouched
    <3>3. NoFolders(Selected) \/ Len(Selected) = 1
      BY <2>5 DEF NoFolder, OneItem, Selected
    <3>4. Playing'
      BY <1>1, <2>1, <2>2, <2>3, <2>5, <3>2, <3>3 DEF Playing, Idle, Untouched
    <3> QED  BY <2>1, <3>4 DEF Honouring, SelectionHonoured, Marks
  <2> QED  BY <2>2, <2>4, <2>5
<1> QED  BY <1>2, <1>3, <1>4

\* All steps together.
LEMMA NextHonouring == IInv /\ Honouring /\ [Next]_vars => Honouring'
<1> SUFFICES ASSUME IInv, Honouring, [Next]_vars PROVE Honouring'
  OBVIOUS
<1>1. CASE Loop
  <2>1. CASE EnterMenu \/ PrintFails \/ Succeed
    BY <2>1 DEF EnterMenu, PrintFails, Succeed, Honouring, SelectionHonoured
  <2>2. CASE PrintContext
    BY <2>2 DEF PrintContext, Honouring, SelectionHonoured
  <2> QED  BY <1>1, <2>1, <2>2, PassHonours DEF Loop
<1>2. CASE Parse
  BY <1>2, WordHonours, FiltersHonour, MarkHonours, RangeHonours,
     ValidateHonours, DispatchHonours, SetFlagHonours, FinalizeHonours DEF Parse
<1>3. CASE PlaybackOver
  BY <1>3 DEF PlaybackOver, Honouring, SelectionHonoured
<1>4. CASE UNCHANGED vars
  <2>1. UNCHANGED <<at, stack, context, cmd, line, todo, playlist, marked>>
    BY <1>4 DEF vars
  <2>2. /\ Selected' = Selected /\ Listed' = Listed
        /\ Selection(todo, Contents)' = Selection(todo, Contents)
    BY <2>1, SelectedStays
  <2> QED  BY <2>1, <2>2 DEF Honouring, SelectionHonoured, Unread, Playing, Opened, MarkedSoFar, Untouched
<1> QED  BY <1>1, <1>2, <1>3, <1>4 DEF Next

\* A command that goes through has marked, played or opened exactly what its line selects,
\* in the order typed: whatever clamping, the two passes and numbers without an item do.
THEOREM SelectionAlwaysHonoured == Spec => []SelectionHonoured
<1>1. Init => Honouring
  BY DEF Init, Honouring, SelectionHonoured
<1>2. Honouring => SelectionHonoured
  BY DEF Honouring
<1> QED  BY <1>1, <1>2, Always, NextHonouring, PTL DEF Spec
=============================================================================
