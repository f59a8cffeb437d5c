----------------------------- MODULE ThreadBuffer -----------------------------
(***************************************************************************)
(* The hand-off of a JSON response from the network to the SAX parser      *)
(* thread through the one-chunk buffer s_tb: jf_thread_buffer_callback,    *)
(* called by curl in the main thread for each piece of the body,           *)
(* jf_thread_buffer_wait_parsing_done and jf_thread_buffer_clear_error     *)
(* (net.c) on one side, jf_json_sax_thread (json.c) on the other.  yajl    *)
(* and the SAX callbacks are reduced to where they are in the document.    *)
(*                                                                         *)
(* A chunk is described by what the parser makes of it: "more" leaves it   *)
(* inside the document, "end" completes the document, "bad" is not JSON.   *)
(* curl hands over a body in pieces; a piece of the largest size takes two *)
(* chunks.  So a response is a sequence of pieces, each a sequence of      *)
(* chunks, and whether its HTTP status means success.                      *)
(***************************************************************************)
EXTENDS Naturals, Sequences

CONSTANTS
    Responses,      \* the responses the server may give
    CurlMayFail,    \* whether a transfer may break off
    MayExit,        \* whether another thread may start the program's exit
    MaxRequests,    \* bound on the number of requests
    NULL

Kinds == {"more", "end", "bad"}

ASSUME ResponsesAssumption == Responses \subseteq [pieces : Seq(Seq(Kinds)), ok : BOOLEAN]
ASSUME MaxRequestsAssumption == MaxRequests \in Nat
ASSUME SwitchAssumption == {CurlMayFail, MayExit} \subseteq BOOLEAN

VARIABLES
    tb_state,       \* s_tb.state
    data,           \* s_tb.data: the chunk in the buffer, or the error text
    used,           \* s_tb.used: whether data counts
    mut,            \* owner of s_tb.mut, or NULL
    cv_no_data,     \* threads asleep on s_tb.cv_no_data
    cv_has_data,    \* threads asleep on s_tb.cv_has_data
    pc,             \* program points of "main" and "parser"
    response,       \* what the current request is answered with
    pieces,         \* pieces of the body curl has still to deliver
    chunks,         \* chunks the running callback has still to pass on
    reply,          \* reply->state of the current request
    result,         \* what curl_easy_perform returned
    ctx,            \* where yajl and the SAX context are
    exiting,        \* JF_STATE_IS_EXITING(g_state.state)
    req,            \* number of the current request
    sent,           \* history: the chunks written to the buffer
    parsed,         \* history: the chunks given to yajl_parse
    rejected        \* history: yajl_parse has failed during this request

buffer == <<tb_state, data, used>>
transfer == <<response, pieces, chunks, result, req>>
history == <<sent, parsed, rejected>>
vars == <<buffer, mut, cv_no_data, cv_has_data, pc, transfer, reply, ctx, exiting, history>>

TbStates == {"CLEAR", "AWAITING_DATA", "PENDING_DATA", "PARSER_ERROR"}

\* jf_thread_buffer_init; the parser thread is about to take the mutex.
Init ==
    /\ tb_state = "CLEAR" /\ data = NULL /\ used = FALSE
    /\ mut = NULL /\ cv_no_data = {} /\ cv_has_data = {}
    /\ pc = [main |-> "idle", parser |-> "lock"]
    /\ response = [pieces |-> <<>>, ok |-> TRUE]
    /\ pieces = <<>> /\ chunks = <<>> /\ req = 0
    /\ reply = "PENDING" /\ result = "OK"
    /\ ctx = "idle" /\ exiting = FALSE
    /\ sent = <<>> /\ parsed = <<>> /\ rejected = FALSE

Goto(t, label) == pc' = [pc EXCEPT ![t] = label]

\* pthread_cond_signal(&cv) for the thread that runs t, which goes on at label.
Signal(cv, t, label) ==
    \/ /\ cv = {}
       /\ cv' = cv
       /\ Goto(t, label)
    \/ \E s \in cv :
         /\ cv' = cv \ {s}
         /\ pc' = [pc EXCEPT ![s] = "lock", ![t] = label]

-----------------------------------------------------------------------------
(***************************************************************************)
(* The main thread.  After "lock" it goes on where "at" says; that is told *)
(* by what it is doing: a running callback has chunks, a transfer that is  *)
(* over has a result.                                                      *)
(***************************************************************************)

InCallback == result = "TRANSFERRING"

\* jf_menu_print_context asks the server for a folder: jf_net_request with
\* JF_REQUEST_SAX up to curl_easy_perform.
Request ==
    /\ pc.main = "idle"
    /\ req < MaxRequests
    /\ req' = req + 1
    /\ \E r \in Responses : response' = r /\ pieces' = r.pieces
    /\ chunks' = <<>>
    /\ reply' = "PENDING"
    /\ result' = "TRANSFERRING"
    /\ rejected' = FALSE
    /\ Goto("main", "curl")
    /\ UNCHANGED <<buffer, mut, cv_no_data, cv_has_data, ctx, exiting, sent, parsed>>

\* curl has received a piece and calls jf_thread_buffer_callback.
CurlDeliver ==
    /\ pc.main = "curl" /\ result = "TRANSFERRING"
    /\ pieces # <<>>
    /\ chunks' = Head(pieces)
    /\ pieces' = Tail(pieces)
    /\ Goto("main", "lock")
    /\ UNCHANGED <<buffer, mut, cv_no_data, cv_has_data, response, result, req, reply, ctx, exiting, history>>

\* curl_easy_perform returns: the body is complete, or the transfer broke off.
CurlReturn ==
    /\ pc.main = "curl" /\ result = "TRANSFERRING"
    /\ \/ pieces = <<>> /\ result' = "OK"
       \/ CurlMayFail /\ result' = "FAILED"
    /\ Goto("main", "after")
    /\ UNCHANGED <<buffer, mut, cv_no_data, cv_has_data, response, pieces, chunks, req, reply, ctx, exiting, history>>

\* pthread_mutex_lock, also on the way out of pthread_cond_wait.
MainLock ==
    /\ pc.main = "lock"
    /\ mut = NULL
    /\ mut' = "main"
    /\ Goto("main", IF InCallback THEN "callback" ELSE "wait")
    /\ UNCHANGED <<buffer, cv_no_data, cv_has_data, transfer, reply, ctx, exiting, history>>

\* The callback waits while the parser has not taken the previous chunk.
CallbackWait ==
    /\ pc.main = "callback" /\ chunks # <<>>
    /\ tb_state = "PENDING_DATA" /\ ~ exiting
    /\ mut' = NULL
    /\ cv_has_data' = cv_has_data \cup {"main"}
    /\ Goto("main", "asleep")
    /\ UNCHANGED <<buffer, cv_no_data, transfer, reply, ctx, exiting, history>>

\* The program is exiting, or the parser met an error: the callback returns 0,
\* which makes curl give up, and leaves the mutex locked.
CallbackFail ==
    /\ pc.main = "callback" /\ chunks # <<>>
    /\ \/ exiting /\ UNCHANGED reply
       \/ ~ exiting /\ tb_state = "PARSER_ERROR" /\ reply' = "ERROR_PARSER"
    /\ chunks' = <<>>
    /\ result' = "FAILED"
    /\ Goto("main", "after")
    /\ UNCHANGED <<buffer, mut, cv_no_data, cv_has_data, response, pieces, req, ctx, exiting, history>>

Chunk == [req |-> req, kind |-> Head(chunks),
          first |-> sent = <<>> \/ sent[Len(sent)].req # req,
          n |-> Len(sent) + 1]

\* Mutant: the callback does not wait for the parser to take the last chunk.
CallbackWriteAnyway ==
    /\ pc.main = "callback" /\ chunks # <<>>
    /\ ~ exiting
    /\ tb_state # "PARSER_ERROR"
    /\ data' = Chunk
    /\ sent' = Append(sent, Chunk)
    /\ chunks' = Tail(chunks)
    /\ used' = TRUE
    /\ tb_state' = "PENDING_DATA"
    /\ Signal(cv_no_data, "main", "callback")
    /\ UNCHANGED <<mut, cv_has_data, response, pieces, result, req, reply, ctx, exiting, parsed, rejected>>

CallbackWrite ==
    /\ pc.main = "callback" /\ chunks # <<>>
    /\ ~ exiting
    /\ tb_state \in {"CLEAR", "AWAITING_DATA"}
    /\ data' = Chunk
    /\ sent' = Append(sent, Chunk)
    /\ chunks' = Tail(chunks)
    /\ used' = TRUE
    /\ tb_state' = "PENDING_DATA"
    /\ Signal(cv_no_data, "main", "callback")
    /\ UNCHANGED <<mut, cv_has_data, response, pieces, result, req, reply, ctx, exiting, parsed, rejected>>

\* All of the piece is passed on: unlock and return to curl.
CallbackReturn ==
    /\ pc.main = "callback" /\ chunks = <<>>
    /\ mut' = NULL
    /\ Goto("main", "curl")
    /\ UNCHANGED <<buffer, cv_no_data, cv_has_data, transfer, reply, ctx, exiting, history>>

\* jf_net_handle_after_perform up to jf_thread_buffer_wait_parsing_done.
AfterPerform ==
    /\ pc.main = "after"
    /\ \/ /\ reply # "PENDING"
          /\ Goto("main", "returned")
          /\ UNCHANGED reply
       \/ /\ reply = "PENDING" /\ result # "OK"
          /\ reply' = "ERROR_NETWORK"
          /\ Goto("main", "returned")
       \/ /\ reply = "PENDING" /\ result = "OK"
          /\ Goto("main", "lock")
          /\ UNCHANGED reply
    /\ UNCHANGED <<buffer, mut, cv_no_data, cv_has_data, transfer, ctx, exiting, history>>

\* Mutant: always the same condition variable.
WaitParsingOneCv ==
    /\ pc.main = "wait"
    /\ tb_state \in {"AWAITING_DATA", "PENDING_DATA"}
    /\ cv_no_data' = cv_no_data \cup {"main"}
    /\ mut' = NULL
    /\ Goto("main", "asleep")
    /\ UNCHANGED <<buffer, cv_has_data, transfer, reply, ctx, exiting, history>>

\* jf_thread_buffer_wait_parsing_done sleeps on one condition variable or the
\* other.
WaitParsing ==
    /\ pc.main = "wait"
    /\ \/ /\ tb_state = "AWAITING_DATA"
          /\ cv_no_data' = cv_no_data \cup {"main"}
          /\ UNCHANGED cv_has_data
       \/ /\ tb_state = "PENDING_DATA"
          /\ cv_has_data' = cv_has_data \cup {"main"}
          /\ UNCHANGED cv_no_data
    /\ mut' = NULL
    /\ Goto("main", "asleep")
    /\ UNCHANGED <<buffer, transfer, reply, ctx, exiting, history>>

\* Mutant: a chunk that is still pending is not waited for.
WaitDonePending ==
    /\ pc.main = "wait"
    /\ tb_state # "AWAITING_DATA"
    /\ mut' = NULL
    /\ reply' = IF response.ok THEN "SUCCESS" ELSE "ERROR_HTTP_NOT_OK"
    /\ Goto("main", "returned")
    /\ UNCHANGED <<buffer, cv_no_data, cv_has_data, transfer, ctx, exiting, history>>

\* Parsing is done: the rest of jf_net_handle_after_perform looks at the status.
WaitDone ==
    /\ pc.main = "wait"
    /\ tb_state \notin {"AWAITING_DATA", "PENDING_DATA"}
    /\ mut' = NULL
    /\ reply' = IF response.ok THEN "SUCCESS" ELSE "ERROR_HTTP_NOT_OK"
    /\ Goto("main", "returned")
    /\ UNCHANGED <<buffer, cv_no_data, cv_has_data, transfer, ctx, exiting, history>>

\* jf_menu_print_context looks at the reply; only an error is cleared.
Returned ==
    /\ pc.main = "returned"
    /\ Goto("main", IF reply = "SUCCESS" THEN "idle" ELSE "clear")
    /\ UNCHANGED <<buffer, mut, cv_no_data, cv_has_data, transfer, reply, ctx, exiting, history>>

\* jf_thread_buffer_clear_error.  A chunk not yet parsed is taken back.
ClearError ==
    /\ pc.main = "clear"
    /\ mut = NULL
    /\ tb_state' = "CLEAR" /\ data' = NULL /\ used' = FALSE
    /\ sent' = IF tb_state = "PENDING_DATA" THEN SubSeq(sent, 1, Len(sent) - 1) ELSE sent
    /\ Goto("main", "idle")
    /\ UNCHANGED <<mut, cv_no_data, cv_has_data, transfer, reply, ctx, exiting, parsed, rejected>>

-----------------------------------------------------------------------------
(***************************************************************************)
(* The parser thread.                                                      *)
(***************************************************************************)

ParserLock ==
    /\ pc.parser = "lock"
    /\ mut = NULL
    /\ mut' = "parser"
    /\ Goto("parser", "check")
    /\ UNCHANGED <<buffer, cv_no_data, cv_has_data, transfer, reply, ctx, exiting, history>>

\* The parser waits for data.  After an error it gets here without the mutex:
\* waiting then is undefined, and may or may not release another thread's lock.
ParserWait ==
    /\ pc.parser = "check"
    /\ tb_state # "PENDING_DATA"
    /\ IF mut = "parser" THEN mut' = NULL ELSE mut' \in {mut, NULL}
    /\ cv_no_data' = cv_no_data \cup {"parser"}
    /\ Goto("parser", "asleep")
    /\ UNCHANGED <<buffer, cv_has_data, transfer, reply, ctx, exiting, history>>

\* yajl_parse and the SAX callbacks (external): where in the document they are
\* after the chunk in the buffer, or "error".  A document left unfinished by an
\* error or a broken transfer makes the outcome of later ones arbitrary.
Outcomes ==
    LET stale == ctx = "stale" \/ (data.first /\ ctx = "mid")
    IN  IF ~ used THEN {ctx}
        ELSE IF data.kind = "bad" THEN {"error"}
        ELSE IF stale THEN {"error", "stale", "idle"}
        ELSE IF data.kind = "more" THEN {"mid"}
        ELSE {"idle"}

Feed == parsed' = IF used THEN Append(parsed, data) ELSE parsed

\* Mutant: the buffer is still marked as holding data.
ParseOKKeep ==
    /\ pc.parser = "check"
    /\ tb_state = "PENDING_DATA"
    /\ ctx' \in Outcomes \ {"error"}
    /\ Feed
    /\ Signal(cv_has_data, "parser", "check")
    /\ UNCHANGED <<tb_state, used, data, mut, cv_no_data, transfer, reply, exiting, sent, rejected>>

ParseOK ==
    /\ pc.parser = "check"
    /\ tb_state = "PENDING_DATA"
    /\ ctx' \in Outcomes \ {"error"}
    /\ Feed
    /\ tb_state' = IF ctx' = "idle" THEN "CLEAR" ELSE "AWAITING_DATA"
    /\ used' = FALSE
    /\ Signal(cv_has_data, "parser", "check")
    /\ UNCHANGED <<data, mut, cv_no_data, transfer, reply, exiting, sent, rejected>>

\* The error text replaces the data and the mutex is released.
ParseError ==
    /\ pc.parser = "check"
    /\ tb_state = "PENDING_DATA"
    /\ "error" \in Outcomes
    /\ ctx' \in IF ctx = "idle" THEN {"idle", "stale"} ELSE {"stale"}
    /\ Feed
    /\ data' = NULL
    /\ tb_state' = "PARSER_ERROR"
    /\ rejected' = TRUE
    /\ mut' = NULL
    /\ Goto("parser", "restart")
    /\ UNCHANGED <<used, cv_no_data, cv_has_data, transfer, reply, exiting, sent>>

\* yajl is reallocated (the SAX context is not reset), then, still without the
\* mutex, the buffer is marked unused and the main thread is signalled.
ParserRestart ==
    /\ pc.parser = "restart"
    /\ used' = FALSE
    /\ Signal(cv_has_data, "parser", "check")
    /\ UNCHANGED <<tb_state, data, mut, cv_no_data, transfer, reply, ctx, exiting, history>>

-----------------------------------------------------------------------------
\* pthread_cond_wait may return without a signal.
SpuriousWakeup(t) ==
    /\ t \in cv_no_data \cup cv_has_data
    /\ cv_no_data' = cv_no_data \ {t}
    /\ cv_has_data' = cv_has_data \ {t}
    /\ Goto(t, "lock")
    /\ UNCHANGED <<buffer, mut, transfer, reply, ctx, exiting, history>>

\* Another thread enters jf_exit, which ends the process soon after.
StartExit ==
    /\ MayExit /\ ~ exiting
    /\ exiting' = TRUE
    /\ UNCHANGED <<buffer, mut, cv_no_data, cv_has_data, pc, transfer, reply, ctx, history>>

\* The bound is reached, or the process is gone.
Finished ==
    /\ exiting \/ (req = MaxRequests /\ pc.main = "idle")
    /\ UNCHANGED vars

Main ==
    \/ CurlDeliver \/ CurlReturn \/ MainLock \/ CallbackWait \/ CallbackFail
    \/ CallbackWrite \/ CallbackReturn \/ AfterPerform \/ WaitParsing \/ WaitDone
    \/ Returned \/ ClearError

Parser == ParserLock \/ ParserWait \/ ParseOK \/ ParseError \/ ParserRestart

Next ==
    \/ Request \/ Main \/ Parser
    \/ \E t \in {"main", "parser"} : SpuriousWakeup(t)
    \/ StartExit \/ Finished

Spec == Init /\ [][Next]_vars

\* Both threads run when they can and the server's answer ends; spurious
\* wakeups do not go on for ever.
FairSpec ==
    /\ Spec
    /\ WF_vars(Main) /\ WF_vars(Parser)
    /\ <>[][\A t \in {"main", "parser"} : ~ SpuriousWakeup(t)]_vars

-----------------------------------------------------------------------------
TypeOK ==
    /\ tb_state \in TbStates
    /\ used \in BOOLEAN
    /\ mut \in {"main", "parser", NULL}
    /\ cv_no_data \subseteq {"main", "parser"}
    /\ cv_has_data \subseteq {"main"}
    /\ pc.main \in {"idle", "curl", "lock", "callback", "asleep", "after", "wait", "returned", "clear"}
    /\ pc.parser \in {"lock", "check", "asleep", "restart"}
    /\ reply \in {"PENDING", "SUCCESS", "ERROR_PARSER", "ERROR_NETWORK", "ERROR_HTTP_NOT_OK"}
    /\ ctx \in {"idle", "mid", "stale"}

\* Whatever fails, chunks reach yajl in the order they came and none twice.
ParsedInOrder == \A i, j \in 1 .. Len(parsed) : i < j => parsed[i].n < parsed[j].n

\* So far the buffer has had whole documents only: nothing that is not JSON, and
\* no document that was broken off before the next request.
Clean ==
    \A n \in DOMAIN sent :
        LET following == IF n = Len(sent) THEN req ELSE sent[n + 1].req
        IN  /\ sent[n].kind # "bad"
            /\ following # sent[n].req => sent[n].kind = "end"

\* What yajl has been given is what was received, in order and once each, except
\* for the chunk that waits in the buffer: none is overwritten before it is
\* parsed and none is parsed twice (net.c 214-233, json.c 527-551).
HandOff ==
    Clean => sent = parsed \o (IF tb_state = "PENDING_DATA" THEN <<data>> ELSE <<>>)

\* When jf_net_request returns success, the parser has been given the whole body
\* and is back at the start, ready for the next document (net.h 128-131).
SuccessMeansParsed ==
    Clean /\ pc.main = "returned" /\ reply = "SUCCESS" =>
        /\ tb_state = "CLEAR" /\ ctx = "idle"
        /\ sent = parsed
        /\ pieces = <<>>

\* jf_net_request for the parser returns and the menu gets its turn again, also
\* after an HTTP error and after a transfer that breaks off.
RequestReturns == pc.main # "idle" /\ Clean ~> (pc.main = "idle" \/ exiting \/ ~ Clean)

-----------------------------------------------------------------------------
(***************************************************************************)
(* What the code does not keep.  TLC finds each of these violated, on the  *)
(* constants the README gives; no other property is stated over them.      *)
(***************************************************************************)

\* A response the parser rejected is reported as an error (net.h 154-157).
ParserErrorReported ==
    pc.main = "returned" /\ rejected => reply # "SUCCESS"

WellFormed(r) ==
    /\ \A i \in 1 .. Len(r.pieces) : \A k \in 1 .. Len(r.pieces[i]) :
         r.pieces[i][k] = (IF i = Len(r.pieces) /\ k = Len(r.pieces[i]) THEN "end" ELSE "more")

\* A complete well-formed answer is never reported as unparsable, whatever
\* happened to the requests before it (json.c 464-465).
GoodResponseParses ==
    pc.main = "returned" /\ WellFormed(response) => reply # "ERROR_PARSER"
=============================================================================
