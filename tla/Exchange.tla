------------------------------- MODULE Exchange -------------------------------
(***************************************************************************)
(* One request on its own connection: ClientCore::send_request or          *)
(* AdminClient::send_request on one side, a thread of handle_session() on  *)
(* the other, over common/src/net.cpp, tls.cpp and protocol.cpp.           *)
(*                                                                         *)
(* A request is a header and a payload, an answer a header of one unit and *)
(* a body.  Each direction of the connection holds at most Cap units that  *)
(* were sent and not read: both sides block in their calls.  A connection  *)
(* closed with unread data is reset, and what the peer has not read of the *)
(* other direction may then be lost with it.                               *)
(***************************************************************************)
EXTENDS Naturals

CONSTANTS
  Requests,        \* [header, payload, body]: units of the request and of the answer
  Cap,             \* units in flight in one direction
  HeaderMax,       \* max_header_bytes
  FileMax,         \* max_file_bytes
  ReplyMax,        \* largest answer the caller accepts
  Addresses,       \* how many addresses the name of the server has
  ConnectTimeout,  \* timeout_ms of connect_to
  IoTimeout,       \* the caller sets one: only the administrator's program
  Silence          \* the server's host may vanish without a word

ExchangeAssumption ==
  /\ {Cap, Addresses, ConnectTimeout} \subseteq Nat \ {0}
  /\ {HeaderMax, FileMax, ReplyMax} \subseteq Nat
  /\ Requests \subseteq [header : Nat \ {0}, payload : Nat, body : Nat]
  /\ {IoTimeout, Silence} \subseteq BOOLEAN

VARIABLES
  c,         \* where the caller is
  s,         \* where the thread of the server is
  req,
  attempt,   \* number of the address tried, and the time and the sockets spent
  clock,
  open,
  sent,      \* units the caller has written, and the server has read
  read,
  verdict,   \* what the handler decided
  wrote,     \* units of the answer written, and read
  taken,
  reset,     \* the connection was reset
  dropped,   \* and the unread part of the answer went with it
  fault      \* history: something failed that is not in this code

vars == <<c, s, req, attempt, clock, open, sent, read, verdict, wrote, taken, reset, dropped, fault>>

connecting == <<attempt, clock>>
request    == <<sent, read>>
answer     == <<wrote, taken>>
network    == <<reset, dropped, fault>>

Ended    == {"unreached", "lost", "rejected", "refused", "ok"}
Total    == req.header + req.payload
Reply    == IF verdict = "serve" THEN 1 + req.body ELSE 1

\* Every variable keeps its type, and no direction holds more than Cap.
TypeOK ==
  /\ c \in Ended \cup {"connect", "trying", "handshake", "send", "reply", "body"}
  /\ s \in {"idle", "header", "decide", "discard", "receive", "answer", "closed", "gone"}
  /\ req \in Requests /\ attempt \in 1..(Addresses + 1) /\ clock \in Nat /\ open \in Nat
  /\ sent \in 0..Total /\ read \in 0..sent /\ sent - read <= Cap
  /\ verdict \in {"none", "early", "binding", "locked", "serve"}
  /\ wrote \in 0..Reply /\ taken \in 0..wrote /\ wrote - taken <= Cap
  /\ {reset, dropped, fault} \subseteq BOOLEAN

Init ==
  /\ c = "connect" /\ s = "idle" /\ req \in Requests
  /\ attempt = 1 /\ clock = 0 /\ open = 0
  /\ sent = 0 /\ read = 0 /\ verdict = "none" /\ wrote = 0 /\ taken = 0
  /\ reset = FALSE /\ dropped = FALSE /\ fault = FALSE

\* The caller returns: every destructor has closed what it held.
Return(how) == c' = how /\ open' = 0

-----------------------------------------------------------------------------
(* Socket::connect_to *)

\* Wrong on purpose: every address gets the whole time-out.
Remaining_Bug == ConnectTimeout

Remaining == ConnectTimeout - clock

TryAddress ==
  /\ c = "connect" /\ attempt <= Addresses /\ clock < ConnectTimeout
  /\ \/ c' = "trying" /\ open' = open + 1 /\ UNCHANGED attempt
     \/ attempt' = attempt + 1 /\ UNCHANGED <<c, open>>    \* no socket
  /\ UNCHANGED <<s, req, clock, request, verdict, answer, network>>

\* Wrong on purpose: the socket of a failed attempt stays open.
AttemptFails_Leak ==
  /\ c = "trying"
  /\ \E d \in 0..Remaining : clock' = clock + d
  /\ c' = "connect" /\ attempt' = attempt + 1 /\ UNCHANGED open
  /\ UNCHANGED <<s, req, request, verdict, answer, network>>

\* Refused, failed, or select() waited for all that remained.
AttemptFails ==
  /\ c = "trying"
  /\ \E d \in 0..Remaining : clock' = clock + d
  /\ c' = "connect" /\ attempt' = attempt + 1 /\ open' = open - 1
  /\ UNCHANGED <<s, req, request, verdict, answer, network>>

Connected ==
  /\ c = "trying"
  /\ \E d \in 0..Remaining : clock' = clock + d
  /\ c' = "handshake"
  /\ UNCHANGED <<s, req, attempt, open, request, verdict, answer, network>>

ConnectFails ==
  /\ c = "connect" /\ (attempt > Addresses \/ clock >= ConnectTimeout)
  /\ c' = "unreached"
  /\ UNCHANGED <<s, req, connecting, open, request, verdict, answer, network>>

\* TlsStream::connect and TlsStream::accept.
Handshake ==
  /\ c = "handshake" /\ s = "idle"
  /\ \/ c' = "send" /\ s' = "header" /\ UNCHANGED open
     \/ Return("unreached") /\ s' = "closed"
  /\ UNCHANGED <<req, connecting, request, verdict, answer, network>>

-----------------------------------------------------------------------------
(* send_request, once connected *)

\* write_header and the loop that writes the payload.
Send ==
  /\ c = "send" /\ ~reset /\ sent - read < Cap
  /\ sent' = sent + 1
  /\ c' = IF sent' = Total THEN "reply" ELSE "send"
  /\ UNCHANGED <<s, req, connecting, open, read, verdict, answer, network>>

\* "Connection lost while sending".
SendFails ==
  /\ c = "send" /\ reset
  /\ Return("lost")
  /\ UNCHANGED <<s, req, connecting, request, verdict, answer, network>>

Readable == taken < wrote /\ ~dropped

\* read_header of the answer; a body that is too large is not read.
ReadReply ==
  /\ c = "reply" /\ Readable
  /\ taken' = taken + 1
  /\ IF verdict # "serve"
     THEN Return("refused")
     ELSE CASE req.body = 0        -> Return("ok")
            [] req.body > ReplyMax -> Return("rejected")
            [] OTHER               -> c' = "body" /\ UNCHANGED open
  /\ UNCHANGED <<s, req, connecting, request, verdict, wrote, network>>

ReadBody ==
  /\ c = "body" /\ Readable
  /\ taken' = taken + 1
  /\ IF taken' = Reply THEN Return("ok") ELSE UNCHANGED <<c, open>>
  /\ UNCHANGED <<s, req, connecting, request, verdict, wrote, network>>

\* Wrong on purpose: the end of the connection is taken for the end of the body.
ReadFails_Bug ==
  /\ c \in {"reply", "body"} /\ ~Readable /\ (reset \/ s = "closed")
  /\ Return(IF c = "body" THEN "ok" ELSE "lost")
  /\ UNCHANGED <<s, req, connecting, request, verdict, answer, network>>

\* The connection ends before the answer does.
ReadFails ==
  /\ c \in {"reply", "body"} /\ ~Readable /\ (reset \/ s = "closed")
  /\ Return("lost")
  /\ UNCHANGED <<s, req, connecting, request, verdict, answer, network>>

\* Wrong on purpose: the time-out is set once the TLS handshake is over.
TimedOut_Bug ==
  /\ IoTimeout /\ c \in {"send", "reply", "body"}
  /\ Return("lost") /\ fault' = TRUE
  /\ UNCHANGED <<s, req, connecting, request, verdict, answer, reset, dropped>>

\* A read or a write that waited for the I/O time-out.
TimedOut ==
  /\ IoTimeout /\ c \in {"handshake", "send", "reply", "body"}
  /\ Return("lost") /\ fault' = TRUE
  /\ UNCHANGED <<s, req, connecting, request, verdict, answer, reset, dropped>>

-----------------------------------------------------------------------------
(* handle_session and the handlers *)

Close == s' = "closed" /\ reset' = (reset \/ read' < sent)

Goto(step) == s' = step /\ UNCHANGED reset

\* read_header: a header of HeaderMax units is one too long.
ReadHeader ==
  /\ s = "header" /\ read < sent
  /\ read' = read + 1
  /\ CASE read' = HeaderMax  -> Close
       [] read' = req.header /\ read' # HeaderMax -> Goto("decide")
       [] OTHER              -> Goto("header")
  /\ UNCHANGED <<c, req, connecting, open, sent, verdict, answer, dropped, fault>>

\* The checks before the payload is read.  "early": the file is too large, the
\* password, the right or the cipher is refused, and the payload stays unread.
Decide ==
  /\ s = "decide"
  /\ verdict' \in IF req.payload > FileMax THEN {"early"} ELSE {"early", "binding", "locked", "serve"}
  /\ Goto(CASE verdict' = "locked" -> "discard" [] verdict' = "serve" -> "receive" [] OTHER -> "answer")
  /\ UNCHANGED <<c, req, connecting, open, request, answer, dropped, fault>>

\* Wrong on purpose: one unit more than the payload is waited for.
ReadExact_Bug ==
  /\ s \in {"discard", "receive"}
  /\ \/ read < sent /\ read' = read + 1 /\ Goto(s)
     \/ /\ read > Total /\ UNCHANGED read
        /\ IF verdict = "binding" THEN Close ELSE Goto("answer")
  /\ UNCHANGED <<c, req, connecting, open, sent, verdict, answer, dropped, fault>>

\* read_exact, for the handler or for discard_payload.
ReadExact ==
  /\ s \in {"discard", "receive"}
  /\ \/ read < sent /\ read' = read + 1 /\ Goto(s)
     \/ /\ read = Total /\ UNCHANGED read
        /\ IF verdict = "binding" THEN Close ELSE Goto("answer")
  /\ UNCHANGED <<c, req, connecting, open, sent, verdict, answer, dropped, fault>>

\* Wrong on purpose: the binding policy's refusal leaves the payload unread.
WriteAnswer_Bug ==
  /\ s = "answer" /\ c \notin Ended
  /\ \/ wrote < Reply /\ wrote - taken < Cap /\ wrote' = wrote + 1 /\ Goto("answer") /\ UNCHANGED read
     \/ wrote = Reply /\ UNCHANGED <<wrote, read>> /\ Close
  /\ UNCHANGED <<c, req, connecting, open, sent, verdict, taken, dropped, fault>>

\* send_error, write_header and write_all.  The binding policy's refusal is
\* sent first and the payload discarded after it.
WriteAnswer ==
  /\ s = "answer" /\ c \notin Ended
  /\ \/ wrote < Reply /\ wrote - taken < Cap /\ wrote' = wrote + 1 /\ Goto("answer") /\ UNCHANGED read
     \/ wrote = Reply /\ UNCHANGED <<wrote, read>> /\ IF verdict = "binding" THEN Goto("discard") ELSE Close
  /\ UNCHANGED <<c, req, connecting, open, sent, verdict, taken, dropped, fault>>

\* The caller has gone: a read or a write fails and the handler returns.
PeerGone ==
  /\ s \notin {"idle", "closed", "gone"} /\ c \in Ended
  /\ UNCHANGED read /\ Close
  /\ UNCHANGED <<c, req, connecting, open, sent, verdict, answer, dropped, fault>>

-----------------------------------------------------------------------------
(* The network and the server's process. *)

\* Data arrives for a connection that was closed.
ResetArrives ==
  /\ s = "closed" /\ read < sent /\ ~reset /\ reset' = TRUE
  /\ UNCHANGED <<c, s, req, connecting, open, request, verdict, answer, dropped, fault>>

\* Some systems discard what was received before the reset.
ResetDrops ==
  /\ reset /\ ~dropped /\ dropped' = TRUE
  /\ UNCHANGED <<c, s, req, connecting, open, request, verdict, answer, reset, fault>>

ServerDies ==
  /\ s \notin {"idle", "closed", "gone"} /\ fault' = TRUE
  /\ UNCHANGED read /\ Close
  /\ UNCHANGED <<c, req, connecting, open, sent, verdict, answer, dropped>>

HostVanishes ==
  /\ Silence /\ c # "connect" /\ s \notin {"closed", "gone"} /\ s' = "gone" /\ fault' = TRUE
  /\ UNCHANGED <<c, req, connecting, open, request, verdict, answer, reset, dropped>>

-----------------------------------------------------------------------------
Caller ==
  \/ TryAddress \/ AttemptFails \/ Connected \/ ConnectFails \/ Handshake
  \/ Send \/ SendFails \/ ReadReply \/ ReadBody \/ ReadFails \/ TimedOut

Server == ReadHeader \/ Decide \/ ReadExact \/ WriteAnswer \/ PeerGone

Next == Caller \/ Server \/ ResetArrives \/ ResetDrops \/ ServerDies \/ HostVanishes

Spec == Init /\ [][Next]_vars

\* Both processes run on, and a reset reaches its peer.
Fairness == WF_vars(Caller) /\ WF_vars(Server) /\ WF_vars(ResetArrives)

LiveSpec == Spec /\ Fairness

-----------------------------------------------------------------------------
(* Properties. *)

\* send_request reports success only when the server has worked on the whole
\* payload and the whole answer was read, whatever fails on the way.
OkIsWhole == c = "ok" => verdict = "serve" /\ read = Total /\ taken = Reply

\* Without a fault of the network or the server, a request is told why it is
\* refused.  Reported as a lost connection are only a header that is too long
\* and an early refusal of a request whose payload the handler has left unread.
RefusalTold ==
  c = "lost" /\ ~fault => req.header >= HeaderMax \/ (verdict = "early" /\ req.payload > 0)

\* connect_to tries every address within one time-out.
ConnectBounded == clock <= ConnectTimeout

\* A call holds one socket while it is connected and none when it returns.
SocketsClosed ==
  open = IF c \in {"trying", "handshake", "send", "reply", "body"} THEN 1 ELSE 0

\* The call returns.  With the blocking calls of the file client this needs a
\* server that answers or closes; the I/O time-out of the administrator's
\* program covers one that vanishes.
CallReturns == <>(c \in Ended)

\* The thread of the server ends: the two sides never wait for each other with
\* both directions full, nor for a unit that was not sent.
ThreadEnds == [](s = "header" => <>(s = "closed"))
===============================================================================
