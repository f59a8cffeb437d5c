-------------------------- MODULE ThreadBufferProofs --------------------------
(***************************************************************************)
(* Theorems about ThreadBuffer for all responses, also those that are not  *)
(* JSON, and with failures and exits at any time: chunks are parsed in     *)
(* order; and as long as the documents that reached the parser were whole, *)
(* none is lost and a success means that the response was parsed.          *)
(***************************************************************************)
EXTENDS ThreadBuffer, Integers, SequenceTheorems, TLAPS

-----------------------------------------------------------------------------
(***************************************************************************)
(* The inductive invariant.                                                *)
(***************************************************************************)

Chunks == [req : Nat, kind : Kinds, first : BOOLEAN, n : Nat]

Labels ==
    {"idle", "curl", "lock", "callback", "asleep", "after", "wait", "returned", "clear", "check", "restart"}

Types ==
    /\ tb_state \in TbStates
    /\ used \in BOOLEAN
    /\ pc \in [{"main", "parser"} -> Labels]
    /\ cv_no_data \subseteq {"main", "parser"}
    /\ cv_has_data \subseteq {"main", "parser"}
    /\ cv_no_data \cap cv_has_data = {}
    /\ \A t \in cv_no_data \cup cv_has_data : pc[t] = "asleep"
    /\ pieces \in Seq(Seq(Kinds)) /\ chunks \in Seq(Kinds)
    /\ req \in Nat
    /\ sent \in Seq(Chunks) /\ parsed \in Seq(Chunks)

Pending == tb_state = "PENDING_DATA"

\* How many of the chunks sent the parser has been through.
Past == IF Pending THEN Len(sent) - 1 ELSE Len(sent)

\* The chunk in the buffer is the last one sent, and of this request.
PendInv == Pending => Len(sent) > 0 /\ data = sent[Len(sent)] /\ data.req = req

\* A chunk bears its place and whether it begins a response.
SentInv ==
    \A n \in 1 .. Len(sent) :
        /\ sent[n].n = n /\ sent[n].req <= req
        /\ sent[n].first <=> (n = 1 \/ sent[n - 1].req # sent[n].req)

ParsedInv == ParsedInOrder /\ \A i \in 1 .. Len(parsed) : parsed[i].n <= Past

\* Where the main thread is in a request, and what it knows there.
MainInv ==
    /\ pc["main"] = "idle" => ~ Pending
    /\ pc["main"] = "returned" /\ reply = "SUCCESS" => tb_state \notin {"PENDING_DATA", "AWAITING_DATA"}
    /\ pc["main"] = "returned" /\ reply = "SUCCESS" => result = "OK"
    /\ pc["main"] \in {"curl", "callback", "wait", "lock", "asleep", "after"} => reply # "SUCCESS"
    /\ pc["main"] \in {"curl", "callback"} => result = "TRANSFERRING"
    /\ pc["main"] \in {"wait", "lock", "asleep"} => result \in {"TRANSFERRING", "OK"}
    /\ pc["main"] = "wait" => result = "OK"
    /\ result = "OK" => pieces = <<>>

\* The documents the parser has been through were JSON and whole.
CleanPast ==
    \A n \in 1 .. Past :
        /\ sent[n].kind # "bad"
        /\ (IF n = Len(sent) THEN req ELSE sent[n + 1].req) # sent[n].req => sent[n].kind = "end"

\* While that is so, the parser has had each chunk and is where the last one left it.
CleanInv ==
    CleanPast =>
        /\ used <=> Pending
        /\ tb_state # "PARSER_ERROR" /\ pc["parser"] # "restart"
        /\ Len(parsed) = Past /\ \A n \in 1 .. Past : parsed[n] = sent[n]
        /\ ctx = IF Past = 0 THEN "idle" ELSE IF sent[Past].kind = "end" THEN "idle" ELSE "mid"
        /\ tb_state = "CLEAR" /\ pc["main"] # "idle" => ctx = "idle"

IInv == Types /\ PendInv /\ SentInv /\ ParsedInv /\ MainInv /\ CleanInv

-----------------------------------------------------------------------------
(***************************************************************************)
(* The invariant is inductive.                                             *)
(***************************************************************************)

\* Nothing has been sent, and main is not in a request.
LEMMA InitInv == Init => IInv
<1> SUFFICES ASSUME Init PROVE IInv
  OBVIOUS
<1>1. Types
  <2>1. \A S : <<>> \in Seq(S)
    BY EmptySeq
  <2>2. pieces \in Seq(Seq(Kinds)) /\ chunks \in Seq(Kinds) /\ sent \in Seq(Chunks) /\ parsed \in Seq(Chunks)
    BY <2>1 DEF Init
  <2>3. pc \in [{"main", "parser"} -> Labels]
    BY DEF Init, Labels
  <2> QED  BY <2>2, <2>3 DEF Init, Types, TbStates
<1>2. Len(sent) = 0 /\ Len(parsed) = 0 /\ ~ Pending
  BY DEF Init, Pending
<1>3. PendInv /\ SentInv /\ ParsedInv /\ CleanInv
  BY <1>2 DEF Init, PendInv, SentInv, ParsedInv, ParsedInOrder, CleanInv, Past
<1>4. MainInv
  BY <1>2 DEF Init, MainInv
<1> QED  BY <1>1, <1>3, <1>4 DEF IInv

\* Steps that leave the buffer and the histories alone.
LEMMA QuietBuffer ==
  ASSUME PendInv, SentInv, ParsedInv, UNCHANGED <<tb_state, data, sent, parsed, req>>
  PROVE  /\ PendInv' /\ SentInv' /\ ParsedInv'
         /\ Pending' = Pending /\ Past' = Past /\ CleanPast' = CleanPast
  BY DEF PendInv, SentInv, ParsedInv, ParsedInOrder, Pending, Past, CleanPast

\* So does what is known of the parser, if main stays in a request and the parser
\* does not begin a restart.
LEMMA QuietParser ==
  ASSUME Types, PendInv, SentInv, ParsedInv, CleanInv,
         UNCHANGED <<buffer, sent, parsed, req, ctx>>,
         pc'["parser"] # "restart" \/ pc'["parser"] = pc["parser"],
         pc["main"] # "idle" \/ pc'["main"] = pc["main"]
  PROVE  CleanInv'
<1>1. Pending' = Pending /\ Past' = Past /\ CleanPast' = CleanPast
  BY QuietBuffer DEF buffer
<1> QED  BY <1>1 DEF CleanInv, buffer

\* What main does without looking into the buffer.
LEMMA MainQuietly ==
  ASSUME IInv, UNCHANGED <<buffer, sent, parsed, req, ctx>>, Types', MainInv',
         pc["main"] # "idle", pc'["parser"] = pc["parser"]
  PROVE  IInv'
  BY QuietBuffer, QuietParser DEF IInv, buffer

\* The history of what is sent after a chunk more.
LEMMA Sends ==
  ASSUME IInv, NEW c \in Chunks, sent' = Append(sent, c)
  PROVE  /\ sent' \in Seq(Chunks) /\ Len(sent') = Len(sent) + 1 /\ Len(sent) \in Nat
         /\ \A n \in 1 .. Len(sent) : sent'[n] = sent[n]
         /\ sent'[Len(sent) + 1] = c
<1>1. sent \in Seq(Chunks)
  BY DEF IInv, Types
<1> QED  BY <1>1, AppendProperties, LenProperties

\* The same after a chunk is taken back.
LEMMA TakesBack ==
  ASSUME IInv, Pending, sent' = SubSeq(sent, 1, Len(sent) - 1)
  PROVE  /\ sent' \in Seq(Chunks) /\ Len(sent') = Len(sent) - 1 /\ Len(sent) \in Nat \ {0}
         /\ \A n \in 1 .. Len(sent) - 1 : sent'[n] = sent[n]
<1>1. sent \in Seq(Chunks) /\ Len(sent) \in Nat \ {0}
  <2>1. sent \in Seq(Chunks) /\ Len(sent) > 0
    BY DEF IInv, Types, PendInv
  <2> QED  BY <2>1, LenProperties
<1>2. \A i \in 1 .. Len(sent) - 1 : sent[i] \in Chunks
  BY <1>1, ElementOfSeq
<1>3. 1 \in Int /\ Len(sent) - 1 \in Int
  BY <1>1
<1>4. /\ SubSeq(sent, 1, Len(sent) - 1) \in Seq(Chunks)
      /\ Len(SubSeq(sent, 1, Len(sent) - 1)) =
            IF 1 <= Len(sent) - 1 THEN (Len(sent) - 1) - 1 + 1 ELSE 0
      /\ \A i \in 1 .. (Len(sent) - 1) - 1 + 1 :
            SubSeq(sent, 1, Len(sent) - 1)[i] = sent[1 + i - 1]
  BY <1>2, <1>3, SubSeqProperties
<1>5. \A i \in 1 .. Len(sent) - 1 : 1 + i - 1 = i /\ i \in 1 .. (Len(sent) - 1) - 1 + 1
  BY <1>1
<1>6. ASSUME NEW i \in 1 .. Len(sent) - 1 PROVE sent'[i] = sent[i]
  <2>1. i \in 1 .. (Len(sent) - 1) - 1 + 1 /\ 1 + i - 1 = i
    BY <1>5
  <2>2. SubSeq(sent, 1, Len(sent) - 1)[i] = sent[1 + i - 1]
    BY <1>4, <2>1
  <2> QED  BY <2>1, <2>2
<1>7. Len(sent') = Len(sent) - 1
  <2>1. Len(sent') = Len(SubSeq(sent, 1, Len(sent) - 1))
    OBVIOUS
  <2>2. Len(SubSeq(sent, 1, Len(sent) - 1)) = Len(sent) - 1
    <3>1. (IF 1 <= Len(sent) - 1 THEN (Len(sent) - 1) - 1 + 1 ELSE 0) = Len(sent) - 1
      <4>1. \A k \in Nat \ {0} : (IF 1 <= k - 1 THEN (k - 1) - 1 + 1 ELSE 0) = k - 1
        OBVIOUS
      <4> QED  BY <1>1, <4>1
    <3> QED  BY <1>4, <3>1
  <2> QED  BY <2>1, <2>2
<1> QED  BY <1>1, <1>4, <1>6, <1>7

\* The history of what is parsed after a chunk more.
LEMMA Feeds ==
  ASSUME IInv, Pending, Feed
  PROVE  /\ data \in Chunks /\ Len(sent) \in Nat \ {0} /\ data = sent[Len(sent)]
         /\ parsed' \in Seq(Chunks) /\ Len(parsed) \in Nat
         /\ Len(parsed') = IF used THEN Len(parsed) + 1 ELSE Len(parsed)
         /\ \A n \in 1 .. Len(parsed) : parsed'[n] = parsed[n]
         /\ used => parsed'[Len(parsed) + 1] = data
<1>1. sent \in Seq(Chunks) /\ parsed \in Seq(Chunks) /\ Len(sent) > 0 /\ data = sent[Len(sent)]
  BY DEF IInv, Types, PendInv
<1>2. Len(sent) \in Nat \ {0} /\ Len(parsed) \in Nat
  BY <1>1, LenProperties
<1>3. data \in Chunks
  BY <1>1, <1>2, ElementOfSeq
<1>4. CASE used
  BY <1>1, <1>2, <1>3, <1>4, AppendProperties DEF Feed
<1>5. CASE ~ used
  BY <1>1, <1>2, <1>3, <1>5 DEF Feed
<1> QED  BY <1>4, <1>5

\* What a signal by t may do to the threads.
Woken(t, label) ==
    /\ pc' \in [{"main", "parser"} -> Labels]
    /\ cv_no_data' \subseteq cv_no_data /\ cv_has_data' \subseteq cv_has_data
    /\ \A s \in cv_no_data' \cup cv_has_data' : pc'[s] = "asleep"
    /\ pc'[t] = label
    /\ \A s \in {"main", "parser"} \ {t} :
         pc'[s] = pc[s] \/ (pc[s] = "asleep" /\ pc'[s] = "lock")

\* A signal wakes a sleeper, if there is one, and moves on the thread that sends it.
LEMMA Signals ==
  ASSUME Types, NEW t \in {"main", "parser"}, NEW label \in Labels,
         pc[t] # "asleep", label # "asleep",
         \/ Signal(cv_no_data, t, label) /\ cv_has_data' = cv_has_data
         \/ Signal(cv_has_data, t, label) /\ cv_no_data' = cv_no_data
  PROVE  Woken(t, label)
<1>1. CASE Signal(cv_no_data, t, label) /\ cv_has_data' = cv_has_data
  <2>1. CASE cv_no_data = {} /\ cv_no_data' = cv_no_data /\ pc' = [pc EXCEPT ![t] = label]
    BY <1>1, <2>1 DEF Types, Woken
  <2>2. ASSUME NEW s \in cv_no_data, cv_no_data' = cv_no_data \ {s},
               pc' = [pc EXCEPT ![s] = "lock", ![t] = label]
        PROVE  Woken(t, label)
    <3>1. pc[s] = "asleep" /\ s # t /\ s \in {"main", "parser"}
      BY <2>2 DEF Types
    <3>2. /\ pc' \in [{"main", "parser"} -> Labels]
          /\ pc'[t] = label /\ pc'[s] = "lock"
          /\ \A r \in {"main", "parser"} \ {s, t} : pc'[r] = pc[r]
      BY <2>2, <3>1 DEF Types, Labels
    <3> QED  BY <1>1, <2>2, <3>1, <3>2 DEF Types, Woken
  <2> QED  BY <1>1, <2>1, <2>2 DEF Signal, Goto
<1>2. CASE Signal(cv_has_data, t, label) /\ cv_no_data' = cv_no_data
  <2>1. CASE cv_has_data = {} /\ cv_has_data' = cv_has_data /\ pc' = [pc EXCEPT ![t] = label]
    BY <1>2, <2>1 DEF Types, Woken
  <2>2. ASSUME NEW s \in cv_has_data, cv_has_data' = cv_has_data \ {s},
               pc' = [pc EXCEPT ![s] = "lock", ![t] = label]
        PROVE  Woken(t, label)
    <3>1. pc[s] = "asleep" /\ s # t /\ s \in {"main", "parser"}
      BY <2>2 DEF Types
    <3>2. /\ pc' \in [{"main", "parser"} -> Labels]
          /\ pc'[t] = label /\ pc'[s] = "lock"
          /\ \A r \in {"main", "parser"} \ {s, t} : pc'[r] = pc[r]
      BY <2>2, <3>1 DEF Types, Labels
    <3> QED  BY <1>2, <2>2, <3>1, <3>2 DEF Types, Woken
  <2> QED  BY <1>2, <2>1, <2>2 DEF Signal, Goto
<1> QED  BY <1>1, <1>2

-----------------------------------------------------------------------------
(***************************************************************************)
(* One lemma for what main does apart from the buffer, one for each action *)
(* that changes the buffer.                                                *)
(***************************************************************************)

\* Main's way through a request.
LEMMA MainKeepsInv ==
  ASSUME IInv,
         \/ CurlDeliver \/ CurlReturn \/ MainLock \/ CallbackWait
         \/ CallbackFail \/ CallbackReturn \/ AfterPerform \/ WaitParsing
         \/ WaitDone \/ Returned
  PROVE  IInv'
<1>1. CASE CurlDeliver
  <2>1. Head(pieces) \in Seq(Kinds) /\ Tail(pieces) \in Seq(Seq(Kinds))
    BY <1>1, HeadTailProperties DEF CurlDeliver, IInv, Types
  <2>2. Types'
    BY <2>1, <1>1 DEF CurlDeliver, Goto, IInv, Types, Labels, buffer, transfer, history
  <2>3. MainInv'
    BY <1>1 DEF CurlDeliver, Goto, InCallback, IInv, Types, Labels, MainInv, Pending, TbStates, buffer, transfer, history
  <2>4. pc["main"] # "idle" /\ pc'["parser"] = pc["parser"]
    BY <1>1 DEF CurlDeliver, Goto, IInv, Types
  <2> QED  BY <1>1, <2>2, <2>3, <2>4, MainQuietly DEF CurlDeliver, buffer, transfer, history
<1>2. CASE CurlReturn
  <2>1. Types'
    BY <1>2 DEF CurlReturn, Goto, IInv, Types, Labels, buffer, transfer, history
  <2>2. MainInv'
    BY <1>2 DEF CurlReturn, Goto, InCallback, IInv, Types, Labels, MainInv, Pending, TbStates, buffer, transfer, history
  <2>3. pc["main"] # "idle" /\ pc'["parser"] = pc["parser"]
    BY <1>2 DEF CurlReturn, Goto, IInv, Types
  <2> QED  BY <1>2, <2>1, <2>2, <2>3, MainQuietly DEF CurlReturn, buffer, transfer, history
<1>3. CASE MainLock
  <2>1. Types'
    BY <1>3 DEF MainLock, Goto, IInv, Types, Labels, buffer, transfer, history
  <2>2. MainInv'
    BY <1>3 DEF MainLock, Goto, InCallback, IInv, Types, Labels, MainInv, Pending, TbStates, buffer, transfer, history
  <2>3. pc["main"] # "idle" /\ pc'["parser"] = pc["parser"]
    BY <1>3 DEF MainLock, Goto, IInv, Types
  <2> QED  BY <1>3, <2>1, <2>2, <2>3, MainQuietly DEF MainLock, buffer, transfer, history
<1>4. CASE CallbackWait
  <2>1. Types'
    BY <1>4 DEF CallbackWait, Goto, IInv, Types, Labels, buffer, transfer, history
  <2>2. MainInv'
    BY <1>4 DEF CallbackWait, Goto, InCallback, IInv, Types, Labels, MainInv, Pending, TbStates, buffer, transfer, history
  <2>3. pc["main"] # "idle" /\ pc'["parser"] = pc["parser"]
    BY <1>4 DEF CallbackWait, Goto, IInv, Types
  <2> QED  BY <1>4, <2>1, <2>2, <2>3, MainQuietly DEF CallbackWait, buffer, transfer, history
<1>5. CASE CallbackFail
  <2>1. <<>> \in Seq(Kinds)
    BY EmptySeq
  <2>2. Types'
    BY <2>1, <1>5 DEF CallbackFail, Goto, IInv, Types, Labels, buffer, transfer, history
  <2>3. MainInv'
    BY <1>5 DEF CallbackFail, Goto, InCallback, IInv, Types, Labels, MainInv, Pending, TbStates, buffer, transfer, history
  <2>4. pc["main"] # "idle" /\ pc'["parser"] = pc["parser"]
    BY <1>5 DEF CallbackFail, Goto, IInv, Types
  <2> QED  BY <1>5, <2>2, <2>3, <2>4, MainQuietly DEF CallbackFail, buffer, transfer, history
<1>6. CASE CallbackReturn
  <2>1. Types'
    BY <1>6 DEF CallbackReturn, Goto, IInv, Types, Labels, buffer, transfer, history
  <2>2. MainInv'
    BY <1>6 DEF CallbackReturn, Goto, InCallback, IInv, Types, Labels, MainInv, Pending, TbStates, buffer, transfer, history
  <2>3. pc["main"] # "idle" /\ pc'["parser"] = pc["parser"]
    BY <1>6 DEF CallbackReturn, Goto, IInv, Types
  <2> QED  BY <1>6, <2>1, <2>2, <2>3, MainQuietly DEF CallbackReturn, buffer, transfer, history
<1>7. CASE AfterPerform
  <2>1. Types'
    BY <1>7 DEF AfterPerform, Goto, IInv, Types, Labels, buffer, transfer, history
  <2>2. MainInv'
    BY <1>7 DEF AfterPerform, Goto, InCallback, IInv, Types, Labels, MainInv, Pending, TbStates, buffer, transfer, history
  <2>3. pc["main"] # "idle" /\ pc'["parser"] = pc["parser"]
    BY <1>7 DEF AfterPerform, Goto, IInv, Types
  <2> QED  BY <1>7, <2>1, <2>2, <2>3, MainQuietly DEF AfterPerform, buffer, transfer, history
<1>8. CASE WaitParsing
  <2>1. Types'
    BY <1>8 DEF WaitParsing, Goto, IInv, Types, Labels, buffer, transfer, history
  <2>2. MainInv'
    BY <1>8 DEF WaitParsing, Goto, InCallback, IInv, Types, Labels, MainInv, Pending, TbStates, buffer, transfer, history
  <2>3. pc["main"] # "idle" /\ pc'["parser"] = pc["parser"]
    BY <1>8 DEF WaitParsing, Goto, IInv, Types
  <2> QED  BY <1>8, <2>1, <2>2, <2>3, MainQuietly DEF WaitParsing, buffer, transfer, history
<1>9. CASE WaitDone
  <2>1. Types'
    BY <1>9 DEF WaitDone, Goto, IInv, Types, Labels, buffer, transfer, history
  <2>2. MainInv'
    BY <1>9 DEF WaitDone, Goto, InCallback, IInv, Types, Labels, MainInv, Pending, TbStates, buffer, transfer, history
  <2>3. pc["main"] # "idle" /\ pc'["parser"] = pc["parser"]
    BY <1>9 DEF WaitDone, Goto, IInv, Types
  <2> QED  BY <1>9, <2>1, <2>2, <2>3, MainQuietly DEF WaitDone, buffer, transfer, history
<1>10. CASE Returned
  <2>1. Types'
    BY <1>10 DEF Returned, Goto, IInv, Types, Labels, buffer, transfer, history
  <2>2. MainInv'
    BY <1>10 DEF Returned, Goto, InCallback, IInv, Types, Labels, MainInv, Pending, TbStates, buffer, transfer, history
  <2>3. pc["main"] # "idle" /\ pc'["parser"] = pc["parser"]
    BY <1>10 DEF Returned, Goto, IInv, Types
  <2> QED  BY <1>10, <2>1, <2>2, <2>3, MainQuietly DEF Returned, buffer, transfer, history
<1> QED  BY <1>1, <1>2, <1>3, <1>4, <1>5, <1>6, <1>7, <1>8, <1>9, <1>10

\* The parser's way round its loop, and what happens to either thread.
LEMMA ParserKeepsInv ==
  ASSUME IInv,
         \/ ParserLock \/ ParserWait \/ ParserRestart
         \/ \E t \in {"main", "parser"} : SpuriousWakeup(t)
         \/ StartExit \/ UNCHANGED vars
  PROVE  IInv'
<1> USE DEF IInv
<1>1. CASE ParserLock
  <2>1. Types' /\ MainInv'
    BY <1>1 DEF ParserLock, Goto, Types, Labels, MainInv, Pending, buffer, transfer, history
  <2>2. pc'["parser"] = "check" /\ pc'["main"] = pc["main"]
    BY <1>1 DEF ParserLock, Goto, Types
  <2> QED  BY <1>1, <2>1, <2>2, QuietBuffer, QuietParser DEF ParserLock, buffer, transfer, history
<1>2. CASE ParserWait
  <2>1. Types' /\ MainInv'
    BY <1>2 DEF ParserWait, Goto, Types, Labels, MainInv, Pending, buffer, transfer, history
  <2>2. pc'["parser"] = "asleep" /\ pc'["main"] = pc["main"]
    BY <1>2 DEF ParserWait, Goto, Types
  <2> QED  BY <1>2, <2>1, <2>2, QuietBuffer, QuietParser DEF ParserWait, buffer, transfer, history
<1>3. CASE ParserRestart
  <2>1. Woken("parser", "check")
    BY <1>3, Signals DEF ParserRestart, Labels
  <2>2. Types' /\ MainInv'
    BY <1>3, <2>1 DEF ParserRestart, Woken, Types, MainInv, Pending, transfer, history
  <2>3. CleanPast' = CleanPast
    BY <1>3, QuietBuffer DEF ParserRestart, transfer, history
  <2>4. ~ CleanPast
    BY <1>3 DEF ParserRestart, CleanInv
  <2>5. CleanInv'
    BY <2>3, <2>4 DEF CleanInv
  <2> QED  BY <1>3, <2>2, <2>5, QuietBuffer DEF ParserRestart, transfer, history
<1>4. ASSUME NEW t \in {"main", "parser"}, SpuriousWakeup(t) PROVE IInv'
  <2>1. pc[t] = "asleep" /\ pc' = [pc EXCEPT ![t] = "lock"]
    BY <1>4 DEF SpuriousWakeup, Goto, Types
  <2>2. Types' /\ MainInv'
    BY <1>4, <2>1 DEF SpuriousWakeup, Types, Labels, MainInv, Pending, buffer, transfer, history
  <2>3. /\ pc'["parser"] # "restart" \/ pc'["parser"] = pc["parser"]
        /\ pc["main"] # "idle" \/ pc'["main"] = pc["main"]
    BY <2>1 DEF Types
  <2> QED  BY <1>4, <2>2, <2>3, QuietBuffer, QuietParser DEF SpuriousWakeup, buffer, transfer, history
<1>5. CASE StartExit \/ UNCHANGED vars
  <2>1. UNCHANGED <<buffer, cv_no_data, cv_has_data, pc, transfer, reply, ctx, history>>
    BY <1>5 DEF StartExit, vars
  <2>2. Types' /\ MainInv'
    BY <2>1 DEF Types, MainInv, Pending, buffer, transfer, history
  <2> QED  BY <2>1, <2>2, QuietBuffer, QuietParser DEF buffer, transfer, history
<1> QED  BY <1>1, <1>2, <1>3, <1>4, <1>5

\* A new request.  The documents before it must have been whole for it to be clean.
LEMMA RequestKeepsInv == ASSUME IInv, Request PROVE IInv'
<1> USE DEF IInv
<1>1. Types'
  <2>1. \A r \in Responses : r.pieces \in Seq(Seq(Kinds))
    BY ResponsesAssumption
  <2>2. <<>> \in Seq(Kinds)
    BY EmptySeq
  <2> QED  BY <2>1, <2>2 DEF Request, Goto, Types, Labels, buffer
<1>2. MainInv'
  BY DEF Request, Goto, Types, MainInv, Pending, buffer
<1>3. ~ Pending /\ Pending' = Pending /\ Past' = Past /\ Past = Len(sent) /\ req' = req + 1
  BY DEF Request, MainInv, Pending, Past, buffer
<1>4. \A n \in 1 .. Len(sent) : sent[n].req \in Nat /\ sent[n].req <= req
  <2>1. \A n \in 1 .. Len(sent) : sent[n] \in Chunks
    BY ElementOfSeq DEF Types
  <2> QED  BY <2>1 DEF Chunks, SentInv
<1>5. Len(sent) \in Nat /\ req \in Nat
  BY LenProperties DEF Types
<1>6. PendInv' /\ SentInv' /\ ParsedInv'
  BY <1>3, <1>4, <1>5 DEF Request, PendInv, SentInv, ParsedInv, ParsedInOrder, buffer
<1>7. ASSUME CleanPast' PROVE CleanPast /\ (Len(sent) # 0 => sent[Len(sent)].kind = "end")
  BY <1>3, <1>4, <1>5, <1>7 DEF Request, CleanPast
<1>8. CleanInv'
  <2> SUFFICES ASSUME CleanPast'
               PROVE  /\ (used <=> Pending)' /\ tb_state' # "PARSER_ERROR" /\ pc'["parser"] # "restart"
                      /\ Len(parsed') = Past' /\ \A n \in 1 .. Past' : parsed'[n] = sent'[n]
                      /\ ctx' = IF Past' = 0 THEN "idle" ELSE IF sent'[Past'].kind = "end" THEN "idle" ELSE "mid"
                      /\ tb_state' = "CLEAR" /\ pc'["main"] # "idle" => ctx' = "idle"
    BY DEF CleanInv
  <2>1. CleanPast /\ (Len(sent) # 0 => sent[Len(sent)].kind = "end")
    BY <1>7
  <2>2. pc'["parser"] = pc["parser"]
    BY DEF Request, Goto, Types
  <2> QED  BY <1>3, <2>1, <2>2 DEF Request, CleanInv, buffer
<1> QED  BY <1>1, <1>2, <1>6, <1>8

\* A chunk goes into the buffer.
LEMMA WriteKeepsInv == ASSUME IInv, CallbackWrite PROVE IInv'
<1> USE DEF IInv
<1>1. sent \in Seq(Chunks) /\ Len(sent) \in Nat /\ req \in Nat /\ ~ Pending /\ Pending'
  BY LenProperties DEF CallbackWrite, Types, Pending
<1>2. Chunk \in Chunks
  <2>1. Head(chunks) \in Kinds
    BY HeadTailProperties DEF CallbackWrite, Types
  <2> QED  BY <1>1, <2>1 DEF Chunk, Chunks
<1>3. /\ sent' \in Seq(Chunks) /\ Len(sent') = Len(sent) + 1
      /\ \A n \in 1 .. Len(sent) : sent'[n] = sent[n]
      /\ sent'[Len(sent) + 1] = Chunk
  BY <1>2, Sends DEF CallbackWrite
<1>4. Woken("main", "callback")
  BY Signals DEF CallbackWrite, Types, Labels
<1>5. Types'
  <2>1. Tail(chunks) \in Seq(Kinds)
    BY HeadTailProperties DEF CallbackWrite, Types
  <2> QED  BY <1>3, <1>4, <2>1 DEF CallbackWrite, Woken, Types, TbStates
<1>6. MainInv'
  BY <1>4 DEF CallbackWrite, Woken, MainInv
<1>7. Past' = Past /\ Past = Len(sent)
  BY <1>1, <1>3 DEF Past
<1>8. PendInv'
  BY <1>1, <1>3 DEF CallbackWrite, PendInv, Chunk
<1>9. SentInv'
  <2>1. Chunk.n = Len(sent) + 1 /\ Chunk.req = req
        /\ (Chunk.first <=> (Len(sent) = 0 \/ sent[Len(sent)].req # req))
    BY <1>1, EmptySeq DEF Chunk
  <2> SUFFICES ASSUME NEW n \in 1 .. Len(sent) + 1
               PROVE  /\ sent'[n].n = n /\ sent'[n].req <= req
                      /\ sent'[n].first <=> (n = 1 \/ sent'[n - 1].req # sent'[n].req)
    BY <1>3 DEF CallbackWrite, SentInv
  <2>2. CASE n = Len(sent) + 1
    <3>1. n # 1 => n - 1 \in 1 .. Len(sent) /\ sent'[n - 1] = sent[Len(sent)]
      BY <1>1, <1>3, <2>2
    <3> QED  BY <1>1, <1>3, <2>1, <2>2, <3>1
  <2>3. CASE n \in 1 .. Len(sent)
    <3>1. sent'[n] = sent[n] /\ (n # 1 => sent'[n - 1] = sent[n - 1])
      BY <1>1, <1>3, <2>3
    <3> QED  BY <2>3, <3>1 DEF SentInv
  <2> QED  BY <1>1, <2>2, <2>3
<1>10. ParsedInv'
  BY <1>7 DEF CallbackWrite, ParsedInv, ParsedInOrder
<1>11. CleanPast' = CleanPast
  <2>1. ASSUME NEW n \in 1 .. Len(sent)
        PROVE  /\ sent'[n] = sent[n]
               /\ (IF n = Len(sent') THEN req' ELSE sent'[n + 1].req)
                    = (IF n = Len(sent) THEN req ELSE sent[n + 1].req)
    <3>1. CASE n = Len(sent)
      BY <1>1, <1>3, <3>1 DEF Chunk
    <3>2. CASE n # Len(sent)
      BY <1>1, <1>3, <3>2
    <3> QED  BY <3>1, <3>2
  <2> QED  BY <1>7, <2>1 DEF CleanPast
<1>12. CleanInv'
  BY <1>1, <1>3, <1>4, <1>7, <1>11 DEF CallbackWrite, Woken, CleanInv, Pending
<1> QED  BY <1>5, <1>6, <1>8, <1>9, <1>10, <1>12

\* A chunk not yet parsed is taken back.
LEMMA ClearKeepsInv == ASSUME IInv, ClearError PROVE IInv'
<1> USE DEF IInv
<1>1. Len(sent) \in Nat /\ req \in Nat /\ ~ Pending'
  BY LenProperties DEF ClearError, Types, Pending
<1>2. /\ sent' \in Seq(Chunks) /\ Len(sent') = Past
      /\ \A n \in 1 .. Past : sent'[n] = sent[n]
      /\ Pending => Len(sent) # 0 /\ Past = Len(sent) - 1
      /\ ~ Pending => Past = Len(sent)
  <2>1. CASE Pending
    BY <2>1, TakesBack DEF ClearError, Past, Pending
  <2>2. CASE ~ Pending
    BY <2>2 DEF ClearError, Types, Past, Pending
  <2> QED  BY <2>1, <2>2
<1>3. Types'
  BY <1>2 DEF ClearError, Goto, Types, TbStates, Labels, transfer
<1>4. MainInv' /\ PendInv'
  BY <1>1 DEF ClearError, Goto, Types, MainInv, PendInv, transfer
<1>5. Past' = Past /\ Past \in Nat
  BY <1>1, <1>2 DEF Past
<1>6. SentInv'
  <2> SUFFICES ASSUME NEW n \in 1 .. Past
               PROVE  /\ sent'[n].n = n /\ sent'[n].req <= req
                      /\ sent'[n].first <=> (n = 1 \/ sent'[n - 1].req # sent'[n].req)
    BY <1>2 DEF ClearError, SentInv, transfer
  <2>1. n \in 1 .. Len(sent) /\ sent'[n] = sent[n]
    BY <1>1, <1>2
  <2>2. n # 1 => sent'[n - 1] = sent[n - 1]
    BY <1>2, <1>5
  <2> QED  BY <2>1, <2>2 DEF SentInv
<1>7. ParsedInv'
  BY <1>5 DEF ClearError, ParsedInv, ParsedInOrder
<1>8. CleanPast' = CleanPast
  <2>1. ASSUME NEW n \in 1 .. Past
        PROVE  /\ sent'[n] = sent[n]
               /\ (IF n = Len(sent') THEN req' ELSE sent'[n + 1].req)
                    = (IF n = Len(sent) THEN req ELSE sent[n + 1].req)
    <3>1. CASE n = Past
      <4>1. Pending => sent[n + 1].req = req
        BY <1>1, <1>2, <3>1 DEF PendInv
      <4> QED  BY <1>1, <1>2, <3>1, <4>1 DEF ClearError, transfer
    <3>2. CASE n # Past
      <4>1. n + 1 \in 1 .. Past /\ n # Len(sent)
        BY <1>1, <1>2, <1>5, <3>2
      <4> QED  BY <1>2, <3>2, <4>1
    <3> QED  BY <3>1, <3>2
  <2> QED  BY <1>5, <2>1 DEF CleanPast
<1>9. CleanInv'
  <2>1. pc'["main"] = "idle" /\ pc'["parser"] = pc["parser"]
    BY DEF ClearError, Goto, Types
  <2>2. Past # 0 => sent'[Past] = sent[Past]
    BY <1>2, <1>5
  <2> QED  BY <1>1, <1>2, <1>5, <1>8, <2>1, <2>2 DEF ClearError, CleanInv
<1> QED  BY <1>3, <1>4, <1>6, <1>7, <1>9

\* What yajl makes of a chunk, if that chunk and all before it were in order.
LEMMA CleanOutcomes ==
  ASSUME IInv, Pending,
         \A n \in 1 .. Len(sent) :
            /\ sent[n].kind # "bad"
            /\ (IF n = Len(sent) THEN req ELSE sent[n + 1].req) # sent[n].req => sent[n].kind = "end"
  PROVE  /\ CleanPast /\ used
         /\ data.kind \in {"more", "end"}
         /\ Outcomes = {IF data.kind = "end" THEN "idle" ELSE "mid"}
<1> USE DEF IInv
<1>1. sent \in Seq(Chunks) /\ Len(sent) \in Nat \ {0} /\ Past = Len(sent) - 1 /\ data = sent[Len(sent)]
  <2>1. sent \in Seq(Chunks) /\ Len(sent) > 0
    BY DEF Types, PendInv
  <2> QED  BY <2>1, LenProperties DEF PendInv, Past
<1>2. CleanPast
  BY <1>1 DEF CleanPast
<1>3. used
  BY <1>2 DEF CleanInv
<1>4. data.kind \in {"more", "end"}
  <2>1. data \in Chunks
    BY <1>1, ElementOfSeq
  <2> QED  BY <1>1, <2>1 DEF Chunks, Kinds
<1>5. ctx # "stale" /\ ~ (data.first /\ ctx = "mid")
  <2>1. ctx = IF Past = 0 THEN "idle" ELSE IF sent[Past].kind = "end" THEN "idle" ELSE "mid"
    BY <1>2 DEF CleanInv
  <2>2. ASSUME data.first, Past # 0 PROVE sent[Past].kind = "end"
    <3>1. Past \in 1 .. Len(sent) /\ Past # Len(sent) /\ Past + 1 = Len(sent)
      BY <1>1, <2>2
    <3>2. sent[Len(sent)].first <=> (Len(sent) = 1 \/ sent[Len(sent) - 1].req # sent[Len(sent)].req)
      BY <1>1 DEF SentInv
    <3>3. sent[Past + 1].req # sent[Past].req
      BY <1>1, <2>2, <3>1, <3>2
    <3> QED  BY <3>1, <3>3
  <2> QED  BY <2>1, <2>2
<1> QED  BY <1>2, <1>3, <1>4, <1>5 DEF Outcomes

\* The parser has been through one chunk more, whatever it made of it.
LEMMA FeedKeepsOrder ==
  ASSUME IInv, Pending, Feed, ~ Pending', UNCHANGED <<sent, req>>
  PROVE  /\ PendInv' /\ SentInv' /\ ParsedInv'
         /\ Past' = Len(sent) /\ Past = Len(sent) - 1 /\ Len(sent) \in Nat \ {0}
         /\ parsed' \in Seq(Chunks)
<1> USE DEF IInv
<1>1. /\ data \in Chunks /\ Len(sent) \in Nat \ {0} /\ data = sent[Len(sent)]
      /\ parsed' \in Seq(Chunks) /\ Len(parsed) \in Nat
      /\ Len(parsed') = IF used THEN Len(parsed) + 1 ELSE Len(parsed)
      /\ \A n \in 1 .. Len(parsed) : parsed'[n] = parsed[n]
      /\ used => parsed'[Len(parsed) + 1] = data
  BY Feeds
<1>2. Past' = Len(sent) /\ Past = Len(sent) - 1
  BY DEF Past
<1>3. data.n = Len(sent)
  BY <1>1 DEF SentInv
<1>4. \A i \in 1 .. Len(parsed) : parsed[i].n \in Nat /\ parsed[i].n <= Len(sent) - 1
  <2>1. \A i \in 1 .. Len(parsed) : parsed[i] \in Chunks
    BY ElementOfSeq DEF Types
  <2> QED  BY <1>2, <2>1 DEF Chunks, ParsedInv
<1>5. ParsedInv'
  <2>1. \A i \in 1 .. Len(parsed') : parsed'[i].n <= Len(sent)
    <3> TAKE i \in 1 .. Len(parsed')
    <3>1. CASE i \in 1 .. Len(parsed)
      BY <1>1, <1>4, <3>1
    <3>2. CASE i \notin 1 .. Len(parsed)
      BY <1>1, <1>3, <3>2
    <3> QED  BY <3>1, <3>2
  <2>2. ASSUME NEW i \in 1 .. Len(parsed'), NEW j \in 1 .. Len(parsed'), i < j
        PROVE  parsed'[i].n < parsed'[j].n
    <3>1. i \in 1 .. Len(parsed) /\ parsed'[i] = parsed[i]
      BY <1>1, <2>2
    <3>2. CASE j \in 1 .. Len(parsed)
      BY <1>1, <2>2, <3>1, <3>2 DEF ParsedInv, ParsedInOrder
    <3>3. CASE j \notin 1 .. Len(parsed)
      <4>1. used /\ j = Len(parsed) + 1
        BY <1>1, <3>3
      <4> QED  BY <1>1, <1>3, <1>4, <3>1, <4>1
    <3> QED  BY <3>2, <3>3
  <2> QED  BY <1>2, <2>1, <2>2 DEF ParsedInv, ParsedInOrder
<1>6. PendInv' /\ SentInv'
  BY DEF PendInv, SentInv
<1> QED  BY <1>1, <1>2, <1>5, <1>6

\* A chunk is parsed.
LEMMA ParseKeepsInv == ASSUME IInv, ParseOK PROVE IInv'
<1> USE DEF IInv
<1>1. Pending /\ ~ Pending' /\ Feed
  BY DEF ParseOK, Pending
<1>2. /\ PendInv' /\ SentInv' /\ ParsedInv'
      /\ Past' = Len(sent) /\ Past = Len(sent) - 1 /\ Len(sent) \in Nat \ {0}
      /\ parsed' \in Seq(Chunks)
  BY <1>1, FeedKeepsOrder DEF ParseOK, transfer
<1>3. Woken("parser", "check")
  BY Signals DEF ParseOK, Types, Labels
<1>4. Types'
  BY <1>2, <1>3 DEF ParseOK, Woken, Types, TbStates, transfer
<1>5. MainInv'
  BY <1>1, <1>3 DEF ParseOK, Woken, MainInv, Pending, transfer
<1>6. CleanInv'
  <2> SUFFICES ASSUME CleanPast'
               PROVE  /\ (used <=> Pending)' /\ tb_state' # "PARSER_ERROR" /\ pc'["parser"] # "restart"
                      /\ Len(parsed') = Past' /\ \A n \in 1 .. Past' : parsed'[n] = sent'[n]
                      /\ ctx' = IF Past' = 0 THEN "idle" ELSE IF sent'[Past'].kind = "end" THEN "idle" ELSE "mid"
                      /\ tb_state' = "CLEAR" /\ pc'["main"] # "idle" => ctx' = "idle"
    BY DEF CleanInv
  <2>1. /\ CleanPast /\ used /\ data.kind \in {"more", "end"}
        /\ Outcomes = {IF data.kind = "end" THEN "idle" ELSE "mid"}
    BY <1>1, <1>2, CleanOutcomes DEF ParseOK, CleanPast, transfer
  <2>2. /\ data = sent[Len(sent)] /\ Len(parsed') = Len(parsed) + 1
        /\ \A n \in 1 .. Len(parsed) : parsed'[n] = parsed[n]
        /\ parsed'[Len(parsed) + 1] = data
    BY <1>1, <2>1, Feeds
  <2>3. Len(parsed) = Past /\ \A n \in 1 .. Past : parsed[n] = sent[n]
    BY <2>1 DEF CleanInv
  <2>4. Len(parsed') = Past' /\ \A n \in 1 .. Past' : parsed'[n] = sent'[n]
    BY <1>2, <2>2, <2>3 DEF ParseOK
  <2>5. ctx' = IF data.kind = "end" THEN "idle" ELSE "mid"
    BY <2>1 DEF ParseOK
  <2> QED  BY <1>1, <1>2, <1>3, <2>2, <2>4, <2>5 DEF ParseOK, Woken
<1> QED  BY <1>2, <1>4, <1>5, <1>6

\* A chunk is rejected, which means that the documents were not whole and good.
LEMMA RejectKeepsInv == ASSUME IInv, ParseError PROVE IInv'
<1> USE DEF IInv
<1>1. Pending /\ ~ Pending' /\ Feed
  BY DEF ParseError, Pending
<1>2. /\ PendInv' /\ SentInv' /\ ParsedInv'
      /\ Past' = Len(sent) /\ Past = Len(sent) - 1 /\ Len(sent) \in Nat \ {0}
      /\ parsed' \in Seq(Chunks)
  BY <1>1, FeedKeepsOrder DEF ParseError, transfer
<1>3. Types'
  BY <1>2 DEF ParseError, Goto, Types, TbStates, Labels, transfer
<1>4. MainInv'
  BY <1>1 DEF ParseError, Goto, Types, MainInv, Pending, transfer
<1>5. ~ CleanPast'
  <2> SUFFICES ASSUME CleanPast' PROVE FALSE
    OBVIOUS
  <2>1. Outcomes = {IF data.kind = "end" THEN "idle" ELSE "mid"}
    BY <1>1, <1>2, CleanOutcomes DEF ParseError, CleanPast, transfer
  <2> QED  BY <2>1 DEF ParseError
<1> QED  BY <1>2, <1>3, <1>4, <1>5 DEF CleanInv

\* Every step keeps the invariant.
LEMMA NextInv == IInv /\ [Next]_vars => IInv'
  BY MainKeepsInv, ParserKeepsInv, RequestKeepsInv, WriteKeepsInv, ClearKeepsInv,
     ParseKeepsInv, RejectKeepsInv
  DEF Next, Main, Parser, Finished

\* The invariant holds in every behaviour.
LEMMA Invariant == Spec => []IInv
  BY InitInv, NextInv, PTL DEF Spec

-----------------------------------------------------------------------------
(***************************************************************************)
(* The theorems.                                                           *)
(***************************************************************************)

\* Documents that are clean are clean as far as the parser has been.
LEMMA CleanIsCleanPast == ASSUME IInv, Clean PROVE CleanPast
<1>1. sent \in Seq(Chunks) /\ (Pending => Len(sent) > 0)
  BY DEF IInv, Types, PendInv
<1>2. DOMAIN sent = 1 .. Len(sent) /\ Len(sent) \in Nat
  BY <1>1, LenProperties
<1>3. 1 .. Past \subseteq 1 .. Len(sent)
  BY <1>2 DEF Past
<1> QED  BY <1>2, <1>3 DEF Clean, CleanPast

\* Whatever the server sends and whatever fails or exits, chunks reach yajl in the
\* order in which they came, and none twice (json.c 527-551).
THEOREM ParsedOnceInOrder == Spec => []ParsedInOrder
<1>1. IInv => ParsedInOrder
  BY DEF IInv, ParsedInv
<1> QED  BY Invariant, <1>1, PTL

\* While the documents are whole, the parser has had every chunk that was received
\* but the one that waits in the buffer: the one-chunk buffer neither overwrites nor
\* repeats one (net.c 214-233, json.c 527-551).
THEOREM NothingLost == Spec => []HandOff
<1>1. ASSUME IInv PROVE HandOff
  <2> SUFFICES ASSUME Clean
               PROVE  sent = parsed \o (IF tb_state = "PENDING_DATA" THEN <<data>> ELSE <<>>)
    BY DEF HandOff
  <2>1. Len(parsed) = Past /\ \A n \in 1 .. Past : parsed[n] = sent[n]
    BY <1>1, CleanIsCleanPast DEF IInv, CleanInv
  <2>2. sent \in Seq(Chunks) /\ parsed \in Seq(Chunks) /\ Len(sent) \in Nat
    BY <1>1, LenProperties DEF IInv, Types
  <2>3. CASE Pending
    <3>1. data = sent[Len(sent)] /\ Len(sent) > 0
      BY <1>1, <2>3 DEF IInv, PendInv
    <3>2. data \in Chunks
      BY <2>2, <3>1, ElementOfSeq
    <3>3. /\ Append(parsed, data) \in Seq(Chunks)
          /\ Len(Append(parsed, data)) = Len(parsed) + 1
          /\ \A i \in 1 .. Len(parsed) : Append(parsed, data)[i] = parsed[i]
          /\ Append(parsed, data)[Len(parsed) + 1] = data
      BY <2>2, <3>2, AppendProperties
    <3>4. Len(parsed) + 1 = Len(sent)
      BY <2>1, <2>2, <2>3, <3>1 DEF Past
    <3>5. \A i \in 1 .. Len(sent) : sent[i] = Append(parsed, data)[i]
      BY <2>1, <2>2, <3>1, <3>3, <3>4
    <3>6. sent = Append(parsed, data)
      BY <2>2, <3>3, <3>4, <3>5, SeqEqual
    <3>7. Append(parsed, data) = parsed \o <<data>>
      BY <2>2, <3>2, AppendIsConcat
    <3> QED  BY <2>3, <3>6, <3>7 DEF Pending
  <2>4. CASE ~ Pending
    <3>1. sent = parsed
      BY <2>1, <2>2, <2>4, SeqEqual DEF Past
    <3>2. parsed \o <<>> = parsed
      BY <2>2, ConcatEmptySeq
    <3> QED  BY <2>4, <3>1, <3>2 DEF Pending
  <2> QED  BY <2>3, <2>4
<1> QED  BY Invariant, <1>1, PTL

\* While the documents are whole, a request that returns success has had all of its
\* body parsed, and the parser is ready for the next document (net.h 128-131).
THEOREM SuccessIsParsed == Spec => []SuccessMeansParsed
<1>1. ASSUME IInv PROVE SuccessMeansParsed
  <2> SUFFICES ASSUME Clean, pc["main"] = "returned", reply = "SUCCESS"
               PROVE  tb_state = "CLEAR" /\ ctx = "idle" /\ sent = parsed /\ pieces = <<>>
    BY DEF SuccessMeansParsed
  <2>1. CleanPast
    BY <1>1, CleanIsCleanPast
  <2>2. tb_state = "CLEAR" /\ pieces = <<>>
    BY <1>1, <2>1 DEF IInv, Types, TbStates, MainInv, CleanInv
  <2>3. ctx = "idle"
    BY <1>1, <2>1, <2>2 DEF IInv, CleanInv
  <2>4. Len(parsed) = Len(sent) /\ \A n \in 1 .. Len(sent) : parsed[n] = sent[n]
    BY <1>1, <2>1, <2>2 DEF IInv, CleanInv, Past, Pending
  <2>5. sent = parsed
    BY <1>1, <2>4, SeqEqual DEF IInv, Types
  <2> QED  BY <2>2, <2>3, <2>5
<1> QED  BY Invariant, <1>1, PTL
=============================================================================
