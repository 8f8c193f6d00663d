---------------------------- MODULE RequestTypes ----------------------------
(***************************************************************************)
(* The kinds of calls, answers and outcomes on the request path of         *)
(* seabird-core, shared by its contract and by the broker.                 *)
(***************************************************************************)

\* "message": send_message, send_private_message, perform_action and
\* perform_private_action; "channel": join_channel, leave_channel and
\* update_channel_info; "info": get_backend_info.
KindOfCall == {"message", "channel", "info"}

\* The ChatEvents that a request is answered with.  "Channel" is the event that
\* the handler of a "channel" call takes for success besides Success itself:
\* JoinChannel, LeaveChannel or ChangeChannel.  "Metadata" also stands for any
\* event that is none of the others and leaves the connection open, "Hello"
\* for any that handle_event fails on once the request is answered.
KindOfReply == {"Success", "Failed", "Channel", "Metadata", "Hello"}

\* The answers that each kind of call takes for success.
Wanted == [message |-> {"Success"}, channel |-> {"Success", "Channel"}, info |-> {"Metadata"}]

\* Outcomes of a call that ends before its ChatRequestHandle is built.
EarlyOutcome == {"invalid", "not_found", "send_failed", "cancelled_early"}

\* Outcomes of a call that has one.
HandleOutcome == {"ok", "failed", "unexpected", "deadline_exceeded", "cancelled"}

Outcomes == EarlyOutcome \cup HandleOutcome
=============================================================================
