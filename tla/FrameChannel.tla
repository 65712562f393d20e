---------------------------- MODULE FrameChannel ----------------------------
(***************************************************************************)
(* What the transport loop of the bridge promises about one client         *)
(* connection (spec sections 4.1, 4.4 and 4.6): the requests the client    *)
(* frames are handed to the session one by one, in the order sent, each    *)
(* exactly once.  The server side ends the connection with requests not    *)
(* yet handed on only when the session ends it: a handler that raises      *)
(* ends it at once (spec 4.6), and a disconnect stops the loop (spec 4.4). *)
(* Otherwise it ends only at the client's end of stream, after every       *)
(* request sent has been handed on: malformed or partial input never ends  *)
(* it (spec section 7).                                                    *)
(***************************************************************************)
EXTENDS Naturals, Sequences

CONSTANTS
    Bodies,    \* the request bodies the client may send
    MaxMsgs    \* bound on the requests the client sends

VARIABLES
    sent,       \* the bodies the client has sent, in order
    delivered,  \* the bodies handed to handle_dap_message, in order
    open,       \* whether the server still serves the connection
    stopped     \* whether the session has asked the loop to stop

Init ==
    /\ sent = <<>>
    /\ delivered = <<>>
    /\ open = TRUE
    /\ stopped = FALSE

(* The client sends one more request. *)
Send(b) ==
    /\ Len(sent) < MaxMsgs
    /\ sent' = Append(sent, b)
    /\ UNCHANGED <<delivered, open, stopped>>

(* The next request not yet handed on is handed to the session, whose     *)
(* handler returns, returns having asked the loop to stop, or raises and   *)
(* so ends the connection.                                                 *)
Deliver ==
    /\ open
    /\ Len(delivered) < Len(sent)
    /\ delivered' = Append(delivered, sent[Len(delivered) + 1])
    /\ \/ UNCHANGED <<open, stopped>>
       \/ stopped' = TRUE /\ UNCHANGED open
       \/ open' = FALSE /\ UNCHANGED stopped
    /\ UNCHANGED sent

(* The server ends the connection: once all that was sent is handed on,   *)
(* at the client's end of stream, or once the session asked it to stop.   *)
Close ==
    /\ open
    /\ delivered = sent \/ stopped
    /\ open' = FALSE
    /\ UNCHANGED <<sent, delivered, stopped>>

Next == (\E b \in Bodies : Send(b)) \/ Deliver \/ Close

Spec == Init /\ [][Next]_<<sent, delivered, open, stopped>>

=============================================================================
