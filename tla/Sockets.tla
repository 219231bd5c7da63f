------------------------------ MODULE Sockets ------------------------------
(***************************************************************************)
(* The world the handlers of src/event work in: the descriptor table, the  *)
(* epoll instance with its one-shot registrations, the listening socket,   *)
(* the connections and the clients at their other end.                     *)
(*                                                                         *)
(* Descriptors are numbers, and a number is used again: open and accept    *)
(* return the lowest free one, for a file or for a connection.  A request  *)
(* travels as a sequence of units (its lines, the pieces of its body), an  *)
(* answer as HeadUnits units of head and BodyUnits of body, if it has one. *)
(***************************************************************************)
EXTENDS Naturals, Sequences, FiniteSets

CONSTANTS Fds,          \* descriptor numbers connections and files can get
          Kinds,        \* the requests clients make, a subset of AllKinds
          MaxConns,     \* bound: connections made
          MaxRequests,  \* bound: requests made on a connection
          HeadUnits,    \* units of the head of an answer
          BodyUnits,    \* units of a page and of a file
          SendCap,      \* units of answer a connection holds unread
          Polite,       \* clients ask, and close, with every answer read
          MayClose      \* clients may close or reset their connections

AllKinds == {"list", "downl", "del", "other", "put", "form", "badupload",
             "upload", "unknown"}

ASSUME SocketsAssumption ==
  /\ Fds \subseteq Nat
  /\ Kinds \subseteq AllKinds
  /\ MaxConns \in Nat /\ MaxRequests \in Nat
  /\ HeadUnits \in Nat \ {0} /\ BodyUnits \in Nat \ {0}
  /\ SendCap \in Nat \ {0}
  /\ Polite \in BOOLEAN /\ MayClose \in BOOLEAN

VARIABLES fdUse,       \* fdUse[fd]: "free", "conn", "file" or "dir"
          gen,         \* gen[fd]: how many connections had the number fd
          interest,    \* interest[fd]: what epoll waits for on fd
          backlog,     \* connections made and not yet accepted
          listenEdge,  \* connections came since epoll reported the last ones
          connects,    \* connections made so far
          conn         \* conn[fd]: the connection on fd and its client

kernelVars == <<fdUse, gen, interest, backlog, listenEdge, connects>>
socketVars == <<fdUse, gen, interest, backlog, listenEdge, connects, conn>>

(* Not registered; registered and disarmed by EPOLLONESHOT; armed for      *)
(* EPOLLIN; armed for EPOLLIN | EPOLLOUT.                                  *)
Interests == {"off", "disarmed", "in", "inout"}

Units == Kinds \cup {"blank", "multipart", "boundary", "filename", "content",
                     "final"}
Answers == {"page", "file", "moved", "ok"}
Replies == Answers \cup {"pageRest", "fileRest", "movedRest", "okRest"}

(* What each request sends: request line, header lines, blank line, body.  *)
(* A file is uploaded as one part of a multipart body; a bad upload has    *)
(* something else where its boundary should be; an unknown request has a   *)
(* method that the server knows nothing of.  A piece of content holds a    *)
(* line end: read where a request line is due, it is taken for one.        *)
RequestUnits(k) ==
  CASE k = "upload" -> <<k, "multipart", "blank", "boundary", "filename",
                         "blank", "content", "final">>
    [] k = "badupload" -> <<k, "multipart", "blank", "content", "content">>
    [] k \in {"put", "form"} -> <<k, "blank", "content">>
    [] OTHER -> <<k, "blank">>

(* The first unit of an answer tells which it is, the others that they are *)
(* units of it: RestOf(a).                                                 *)
HasBody(a) == a \in {"page", "file"}
AnswerUnits(a) == HeadUnits + (IF HasBody(a) THEN BodyUnits ELSE 0)
RestOf(a) == CASE a = "page" -> "pageRest" [] a = "file" -> "fileRest"
               [] a = "moved" -> "movedRest" [] OTHER -> "okRest"

(* A connection as accept finds it.  peer is what recv and send can know   *)
(* of the client: "up"; "fin" when it closed; "reset" when it reset the    *)
(* connection and no call has reported that yet; "broken" when send would  *)
(* raise SIGPIPE.  toSend: what is left of the request being sent; left:   *)
(* what is left to read of the last answer.                                *)
NewConn == [peer |-> "up", inbuf |-> <<>>, outbuf |-> <<>>, toSend |-> <<>>,
            asked |-> <<>>, answers |-> <<>>, left |-> 0]
Peers == {"up", "fin", "reset", "broken"}
Connection == [peer : Peers, inbuf : Seq(Units), outbuf : Seq(Replies),
               toSend : Seq(Units), asked : Seq(Kinds),
               answers : Seq(Answers \cup {"garbled"}),
               left : 0..(HeadUnits + BodyUnits)]

SocketsInit == /\ fdUse = [fd \in Fds |-> "free"]
               /\ gen = [fd \in Fds |-> 0]
               /\ interest = [fd \in Fds |-> "off"]
               /\ backlog = 0
               /\ listenEdge = FALSE
               /\ connects = 0
               /\ conn = [fd \in Fds |-> NewConn]

IsConn(fd) == fdUse[fd] = "conn"
IsLowestFree(fd) == /\ fdUse[fd] = "free"
                    /\ \A other \in Fds : fdUse[other] = "free" => fd <= other
NoFreeFd == \A fd \in Fds : fdUse[fd] # "free"

-----------------------------------------------------------------------------
(* epoll                                                                   *)

InReady(fd) == conn[fd].peer # "up" \/ conn[fd].inbuf # <<>>
OutReady(fd) == \/ Len(conn[fd].outbuf) < SendCap
                \/ conn[fd].peer \in {"reset", "broken"}

Armed(fd) == interest[fd] \in {"in", "inout"}
Reported(fd) == \/ Armed(fd) /\ InReady(fd)
                \/ interest[fd] = "inout" /\ OutReady(fd)

(* EPOLL_CTL_MOD with EPOLLONESHOT: it fails on a number that epoll does   *)
(* not know, and it looks at the socket again, so what came before it is   *)
(* reported as well as what comes after it.                                *)
Modify(fd, mask) ==
  interest' = IF interest[fd] = "off" THEN interest
              ELSE [interest EXCEPT ![fd] = mask]

(* close(): the number is free, epoll forgets it, the client loses its     *)
(* connection.  Closing a number that is free already has no effect.       *)
CloseFd(fd) == /\ fdUse' = [fdUse EXCEPT ![fd] = "free"]
               /\ interest' = [interest EXCEPT ![fd] = "off"]
               /\ conn' = [conn EXCEPT ![fd] = NewConn]
               /\ UNCHANGED <<gen, backlog, listenEdge, connects>>

-----------------------------------------------------------------------------
(* Clients                                                                 *)

AllAnswered(fd) == /\ Len(conn[fd].answers) >= Len(conn[fd].asked)
                   /\ conn[fd].left = 0

Connect == /\ connects < MaxConns
           /\ connects' = connects + 1
           /\ backlog' = backlog + 1
           /\ listenEdge' = TRUE
           /\ UNCHANGED <<fdUse, gen, interest, conn>>

Ask(fd, k) == /\ IsConn(fd) /\ conn[fd].peer = "up"
              /\ conn[fd].toSend = <<>>
              /\ Len(conn[fd].asked) < MaxRequests
              /\ Polite => AllAnswered(fd)
              /\ conn' = [conn EXCEPT ![fd].toSend = RequestUnits(k),
                                      ![fd].asked = Append(@, k)]
              /\ UNCHANGED kernelVars

ClientSends(fd) == /\ IsConn(fd) /\ conn[fd].peer = "up"
                   /\ conn[fd].toSend # <<>>
                   /\ conn' = [conn EXCEPT
                        ![fd].inbuf = Append(@, Head(conn[fd].toSend)),
                        ![fd].toSend = Tail(@)]
                   /\ UNCHANGED kernelVars

(* The client reads one unit: the next of the answer it has begun, or the  *)
(* first of the next answer; anything else does not parse.                 *)
ClientReads(fd) ==
  /\ IsConn(fd) /\ conn[fd].peer \in {"up", "fin"}
  /\ conn[fd].outbuf # <<>>
  /\ LET unit == Head(conn[fd].outbuf)
         last == conn[fd].answers[Len(conn[fd].answers)]
         got == IF conn[fd].left = 0 /\ unit \in Answers
                THEN [answers |-> Append(conn[fd].answers, unit),
                      left |-> AnswerUnits(unit) - 1]
                ELSE IF conn[fd].left > 0 /\ unit = RestOf(last)
                THEN [answers |-> conn[fd].answers, left |-> conn[fd].left - 1]
                ELSE [answers |-> Append(conn[fd].answers, "garbled"),
                      left |-> 0]
     IN conn' = [conn EXCEPT ![fd].outbuf = Tail(@),
                             ![fd].answers = got.answers,
                             ![fd].left = got.left]
  /\ UNCHANGED kernelVars

(* A client that leaves has read its answers if it is polite.              *)
MayLeave(fd) == /\ MayClose /\ IsConn(fd)
                /\ Polite => AllAnswered(fd) /\ conn[fd].toSend = <<>>

ClientCloses(fd) == /\ MayLeave(fd) /\ conn[fd].peer = "up"
                    /\ conn' = [conn EXCEPT ![fd].peer = "fin"]
                    /\ UNCHANGED kernelVars

(* A reset drops what was not read.  After a close it finds the socket in  *)
(* CLOSE_WAIT, where the pending error is EPIPE and not ECONNRESET.        *)
ClientResets(fd) == /\ MayLeave(fd) /\ conn[fd].peer \in {"up", "fin"}
                    /\ conn' = [conn EXCEPT
                         ![fd].peer = IF @ = "up" THEN "reset" ELSE "broken",
                         ![fd].outbuf = <<>>]
                    /\ UNCHANGED kernelVars

ClientStep(fd) == \/ \E k \in Kinds : Ask(fd, k)
                  \/ ClientSends(fd) \/ ClientReads(fd)
                  \/ ClientCloses(fd) \/ ClientResets(fd)
=============================================================================
