----------------------------- MODULE FrameCodec -----------------------------
(***************************************************************************)
(* The framing loop of handle_client (rust-gdb-dap-server.py) on one      *)
(* connection: recv() chunks of the byte stream, data.decode('utf-8') of  *)
(* each chunk on its own, the Content-Length regex at the head of the     *)
(* decoded str buffer, the length test len(buffer) against the header's   *)
(* number, the slice and json.loads.  The client frames its requests as   *)
(* the spec (section 4.1) says: the header counts the UTF-8 bytes of the  *)
(* body.                                                                   *)
(*                                                                         *)
(* A body is a flat JSON object, a sequence of the characters "{", "}",   *)
(* "a" (any ASCII character) and "u" (a character of two UTF-8 bytes,     *)
(* "u1" then "u2").  The header "Content-Length: n\r\n\r\n" is one element *)
(* H(n) of the stream: it is ASCII, so decoding never fails inside it, and *)
(* the regex does not match a header cut short, since \r\n\r\n ends it; a *)
(* header split across chunks only waits for the next one, as an unsplit  *)
(* one does.  Every byte and character is a record [b, n] so that TLC     *)
(* compares them.                                                          *)
(*                                                                         *)
(* The handler handle_dap_message is the session's: here only what it      *)
(* does to the loop is kept.  It returns; or returns having set            *)
(* self.running = False (handle_disconnect), which the outer while tests   *)
(* before the next recv(); or raises (a BrokenPipeError from a write to an *)
(* exited gdb), which the except clause turns into the end of the loop;    *)
(* or never returns (a read of gdb's output that blocks).                  *)
(***************************************************************************)
EXTENDS Naturals, Sequences

CONSTANTS
    Bodies,    \* the request bodies the client may send (strings of chars)
    MaxMsgs,   \* bound on the requests the client sends
    MaxChunk   \* the most bytes one recv() returns (4096 in the code)

ASSUME FrameAssumption ==
    /\ MaxMsgs \in Nat
    /\ MaxChunk \in Nat \ {0}
    /\ Bodies \subseteq Seq({"{", "}", "a", "u"})

Sym  == {"H", "{", "}", "a", "u", "u1", "u2"}
Elem == [b : Sym, n : Nat]
E(s) == [b |-> s, n |-> 0]
H(n) == [b |-> "H", n |-> n]

\* The UTF-8 bytes of a body.
Enc(c) == IF c = "u" THEN <<E("u1"), E("u2")>> ELSE <<E(c)>>
Utf8(body) ==
    LET f[i \in 0..Len(body)] == IF i = 0 THEN <<>> ELSE f[i - 1] \o Enc(body[i])
    IN  f[Len(body)]

\* A frame as the client writes it: the header counts bytes.
Frame(body) == <<H(Len(Utf8(body)))>> \o Utf8(body)

\* Whether data.decode('utf-8') accepts a chunk: no sequence is cut short.
ValidUtf8(c) ==
    \A i \in DOMAIN c :
        /\ c[i].b = "u1" => i < Len(c) /\ c[i + 1].b = "u2"
        /\ c[i].b = "u2" => i > 1 /\ c[i - 1].b = "u1"

\* The str a valid chunk decodes to.
Decode(c) ==
    LET s == SelectSeq(c, LAMBDA x : x.b # "u2")
    IN  [i \in DOMAIN s |-> IF s[i].b = "u1" THEN E("u") ELSE s[i]]

\* The text of a str, and whether json.loads accepts it: one flat object.
Text(s) == [i \in DOMAIN s |-> s[i].b]
ValidJson(s) ==
    /\ Len(s) >= 2
    /\ s[1].b = "{" /\ s[Len(s)].b = "}"
    /\ \A i \in 2..(Len(s) - 1) : s[i].b \in {"a", "u"}

\* re.match finds the header at the head of the buffer and
\* len(buffer) >= header_length + content_length.
HasFrame(b) == b # <<>> /\ b[1].b = "H" /\ Len(b) >= 1 + b[1].n

VARIABLES
    sent,       \* the bodies the client has sent, in order
    net,        \* the bytes sent and not yet returned by recv()
    eof,        \* whether the client has closed its end
    buf,        \* the decoded str buffer of handle_client
    pc,         \* "recv", "parse" (the inner while True), "hung" (in a
                \* handler that never returns) or "done"
    delivered,  \* the bodies handed to handle_dap_message, in order
    running,    \* self.running
    closedBy    \* why the loop ended: "none", "eof", "stopped" (running
                \* found false), "decode", "json" or "handler"

vars == <<sent, net, eof, buf, pc, delivered, running, closedBy>>

Init ==
    /\ sent = <<>>
    /\ net = <<>>
    /\ eof = FALSE
    /\ buf = <<>>
    /\ pc = "recv"
    /\ delivered = <<>>
    /\ running = TRUE
    /\ closedBy = "none"

(* The client writes one framed request to its socket. *)
ClientSend(body) ==
    /\ ~eof
    /\ Len(sent) < MaxMsgs
    /\ sent' = Append(sent, body)
    /\ net' = net \o Frame(body)
    /\ UNCHANGED <<eof, buf, pc, delivered, running, closedBy>>

(* The client closes its end of the connection. *)
ClientClose ==
    /\ ~eof
    /\ eof' = TRUE
    /\ UNCHANGED <<sent, net, buf, pc, delivered, running, closedBy>>

(* "while self.running": data = recv(4096) returns the first k bytes in flight; buffer +=       *)
(* data.decode('utf-8'), whose UnicodeDecodeError the except clause       *)
(* catches: the loop ends.                                                  *)
Recv ==
    /\ pc = "recv"
    /\ running
    /\ net # <<>>
    /\ \E k \in 1..MaxChunk :
          /\ k <= Len(net)
          /\ LET c == SubSeq(net, 1, k) IN
             /\ net' = SubSeq(net, k + 1, Len(net))
             /\ IF ValidUtf8(c)
                THEN buf' = buf \o Decode(c) /\ pc' = "parse"
                     /\ UNCHANGED closedBy
                ELSE pc' = "done" /\ closedBy' = "decode" /\ UNCHANGED buf
    /\ UNCHANGED <<sent, eof, delivered, running>>

(* recv() returns b"" at the client's end of stream: break. *)
RecvEOF ==
    /\ pc = "recv"
    /\ running
    /\ net = <<>>
    /\ eof
    /\ pc' = "done"
    /\ closedBy' = "eof"
    /\ UNCHANGED <<sent, net, eof, buf, delivered, running>>

(* "while self.running" finds it cleared by a handler: the loop ends      *)
(* without reading what the client sent since.                            *)
RecvStopped ==
    /\ pc = "recv"
    /\ ~running
    /\ pc' = "done"
    /\ closedBy' = "stopped"
    /\ UNCHANGED <<sent, net, eof, buf, delivered, running>>

\* self.handle_dap_message(json.loads(message)) and what its handler does to
\* the loop; "back" is where the loop goes when the handler returns.
Dispatch(msg, back) ==
    /\ delivered' = Append(delivered, Text(msg))
    /\ \/ pc' = back /\ UNCHANGED <<running, closedBy>>
       \/ pc' = back /\ running' = FALSE /\ UNCHANGED closedBy
       \/ pc' = "done" /\ closedBy' = "handler" /\ UNCHANGED running
       \/ pc' = "hung" /\ UNCHANGED <<running, closedBy>>

\* Mutant: the consumed frame is not cut off the buffer.
ParseNoCut ==
    /\ pc = "parse"
    /\ HasFrame(buf)
    /\ LET msg == SubSeq(buf, 2, 1 + buf[1].n) IN
       IF ValidJson(msg)
       THEN Dispatch(msg, "parse")
       ELSE pc' = "done" /\ closedBy' = "json" /\ UNCHANGED <<delivered, running>>
    /\ UNCHANGED <<sent, net, eof, buf>>

\* Mutant: "if" for "while True": one frame is taken per recv().
ParseOnce ==
    /\ pc = "parse"
    /\ \/ /\ ~HasFrame(buf)
          /\ pc' = "recv"
          /\ UNCHANGED <<buf, delivered, running, closedBy>>
       \/ /\ HasFrame(buf)
          /\ LET msg == SubSeq(buf, 2, 1 + buf[1].n) IN
             /\ buf' = SubSeq(buf, 2 + buf[1].n, Len(buf))
             /\ IF ValidJson(msg)
                THEN Dispatch(msg, "recv")
                ELSE pc' = "done" /\ closedBy' = "json"
                     /\ UNCHANGED <<delivered, running>>
    /\ UNCHANGED <<sent, net, eof>>

(* One round of the inner while True: no header at the head of the       *)
(* buffer, or len(buffer) < header_length + content_length, breaks back   *)
(* to recv(); else the frame is sliced off, json.loads parses it and      *)
(* handle_dap_message gets it.  A ValueError of json.loads ends the loop. *)
(* The inner loop does not test self.running: after a disconnect the      *)
(* frames already in the buffer are still handled.                        *)
Parse ==
    /\ pc = "parse"
    /\ \/ /\ ~HasFrame(buf)
          /\ pc' = "recv"
          /\ UNCHANGED <<buf, delivered, running, closedBy>>
       \/ /\ HasFrame(buf)
          /\ LET msg == SubSeq(buf, 2, 1 + buf[1].n) IN
             /\ buf' = SubSeq(buf, 2 + buf[1].n, Len(buf))
             /\ IF ValidJson(msg)
                THEN Dispatch(msg, "parse")
                ELSE pc' = "done" /\ closedBy' = "json"
                     /\ UNCHANGED <<delivered, running>>
    /\ UNCHANGED <<sent, net, eof>>

Next ==
    \/ \E body \in Bodies : ClientSend(body)
    \/ ClientClose \/ Recv \/ RecvEOF \/ RecvStopped \/ Parse

(* The server thread runs whenever it can (a handler that blocks is a     *)
(* state with no step); the client is not obliged to send or to close.    *)
Fairness == /\ WF_vars(Recv) /\ WF_vars(RecvEOF) /\ WF_vars(RecvStopped)
            /\ WF_vars(Parse)

Spec     == Init /\ [][Next]_vars
FairSpec == Spec /\ Fairness

-----------------------------------------------------------------------------
(* Properties                                                              *)

\* The promise of the transport loop, with the server serving as long as
\* the loop runs.
Channel == INSTANCE FrameChannel WITH open <- (pc # "done"),
                                     stopped <- ~running

(* handle_client implements the channel of spec 4.1/4.4/4.6: the         *)
(* requests reach handle_dap_message in order, each exactly once, and the  *)
(* loop ends with requests not yet handed on only after a handler raised   *)
(* or cleared self.running; otherwise only at the client's end of stream,  *)
(* whatever the chunking of recv.                                          *)
Refines == Channel!Spec

\* The session has stopped taking requests: a handler cleared self.running,
\* raised, or never returned.
SessionEnded == ~running \/ closedBy = "handler" \/ pc = "hung"

(* Every request the client sends is eventually handed on, unless the     *)
(* session itself has stopped taking requests (spec 8: a byte-by-byte      *)
(* split still reconstructs m exactly once).                               *)
AllDelivered ==
    \A i \in 1..MaxMsgs : (Len(sent) >= i) ~> (Len(delivered) >= i \/ SessionEnded)

(* A well-formed frame never makes json.loads fail and end the loop      *)
(* (spec 4.1: the header gives the body's length in bytes; spec 7:        *)
(* malformed input never terminates the connection).                       *)
NoJsonFailure == closedBy # "json"

(* No connection is ended by a UnicodeDecodeError while the client sends  *)
(* only well-formed UTF-8 frames (spec 4.1: partial reads of any chunk    *)
(* size are tolerated; spec 7: framing errors are not surfaced).          *)
NoDecodeFailure == closedBy # "decode"

=============================================================================
