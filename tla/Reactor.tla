------------------------------ MODULE Reactor ------------------------------
(***************************************************************************)
(* The server of src/fileserver and src/event: the main thread turns what  *)
(* epoll reports into events, the workers of the pool run their handlers:  *)
(* AcceptConn, HandleRecv and HandleSend.  The handlers of one connection  *)
(* share two maps, requestStatus and responseStatus; nothing but the       *)
(* one-shot registration of its descriptor keeps two of them apart.  Each  *)
(* step of a handler is one system call or one access to the maps.         *)
(***************************************************************************)
EXTENDS Sockets

CONSTANTS Workers,     \* the threads of the pool
          NoEvent,     \* what an idle worker handles
          NoEntry,     \* "the map has no such key"
          NoFd,        \* "no descriptor"
          WriteOpens   \* outcomes of opening a file for writing

ASSUME ReactorAssumption == /\ IsFiniteSet(Workers)
                            /\ WriteOpens \in (SUBSET BOOLEAN) \ {{}}
                            /\ NoFd \notin Fds

VARIABLES queue,        \* the pool (WorkQueue): events not yet taken
          running,      \* the pool: the event each worker handles
          pc,           \* where each worker is in its handler
          fdOf,         \* m_clientFd, or accetpFd, of that handler
          erased,       \* file descriptor in the entry it erased last
          request,      \* requestStatus
          response,     \* responseStatus
          filePresent,  \* whether the file of filedir/ exists
          alive         \* the process runs

poolVars == <<queue, running>>
vars == <<socketVars, queue, running, pc, fdOf, erased, request, response,
          filePresent, alive>>

(* The file descriptor is that of the listening socket, or a connection's. *)
AcceptEvent == [type |-> "accept"]
Events == {AcceptEvent} \cup [type : {"recv", "find"}, fd : Fds]

WQ == INSTANCE WorkQueue

(* Places of the handlers, named for what the handler does next.           *)
AcceptPcs == {"accept", "add"}
RecvPcs == {"recv", "parse", "save", "armIn", "armOut", "armPut", "complete",
            "putBody", "ended", "check", "close", "eraseRequest"}
SendPcs == {"find", "build", "send", "tail", "eraseResponse", "rearmIn",
            "closeFile", "rearm"}

(* requestStatus is only used through operator[], so a missing entry is a  *)
(* new one.  part: fileMsgStatus; multi: the Content-Type header says      *)
(* multipart/form-data.                                                    *)
Statuses == {"INIT", "HEAD", "BODY", "COMPLETE", "ERROR"}
NewRequest == [status |-> "INIT", req |-> "none", multi |-> FALSE,
               part |-> "begin", recvMsg |-> <<>>]
Request == [status : Statuses, req : AllKinds \cup {"none", "junk"},
            multi : BOOLEAN, part : {"begin", "head", "content", "complete"},
            recvMsg : Seq(Units)]

(* name: bodyFileName; head: what beforeBodyMsg and bodyType say, "none"   *)
(* while they are not set; file: fileMsgFd; sent: curStatusHasSendLen.     *)
NewResponse == [status |-> "INIT", name |-> "", head |-> "none",
                file |-> NoFd, sent |-> 0]
Names == {"", "/", "downl", "del", "put", "redirect"}
Response == [status : Statuses, name : Names, head : Answers \cup {"none"},
             file : Fds \cup {NoFd}, sent : 0..(HeadUnits + BodyUnits)]

ASSUME NoEntryAssumption == NoEntry \notin Response

Init == /\ SocketsInit
        /\ WQ!Init
        /\ pc = [w \in Workers |-> "idle"]
        /\ fdOf = [w \in Workers |-> NoFd]
        /\ erased = [w \in Workers |-> NoFd]
        /\ request = [fd \in Fds |-> NewRequest]
        /\ response = [fd \in Fds |-> NoEntry]
        /\ filePresent = TRUE
        /\ alive = TRUE

Method(k) == CASE k \in {"list", "downl", "del", "other"} -> "GET"
               [] k \in {"form", "badupload", "upload"} -> "POST"
               [] k = "put" -> "PUT"
               [] OTHER -> "none"
Resource(k) == CASE k = "list" -> "/"
                 [] k \in {"downl", "del", "put"} -> k
                 [] OTHER -> "redirect"

\* operator[]: the entry, created if there is none.
Entry(fd) == IF response[fd] = NoEntry THEN NewResponse ELSE response[fd]

At(w, place) == pc[w] = place
Goto(w, place) == /\ pc' = [pc EXCEPT ![w] = place]
                  /\ UNCHANGED <<poolVars, fdOf>>
Return(w) == /\ pc' = [pc EXCEPT ![w] = "idle"]
             /\ fdOf' = [fdOf EXCEPT ![w] = NoFd]
             /\ WQ!Finish(w)

\* The handler sets its entry of responseStatus and goes on at place.
SetResponse(w, r, place) ==
  /\ response' = [response EXCEPT ![fdOf[w]] = r]
  /\ Goto(w, place)
\* setBodyFileName(name)
Respond(w, name, place) ==
  SetResponse(w, [Entry(fdOf[w]) EXCEPT !.name = name], place)

-----------------------------------------------------------------------------
(* The main thread: WebServer::waitEpoll                                   *)

\* Defect: the listening socket is level triggered.
Listen_Level == /\ backlog > 0
                /\ WQ!Submit(AcceptEvent)
                /\ UNCHANGED <<socketVars, pc, fdOf, erased, request, response,
                               filePresent, alive>>

(* The listening socket is edge triggered: epoll reports connections that  *)
(* came since the last report, once, however many they are.                *)
Listen == /\ listenEdge /\ backlog > 0
          /\ listenEdge' = FALSE
          /\ WQ!Submit(AcceptEvent)
          /\ UNCHANGED <<fdUse, gen, interest, backlog, connects, conn, pc,
                         fdOf, erased, request, response, filePresent, alive>>

\* Defect: the connection is registered without EPOLLONESHOT.
Dispatch_KeepsArmed(fd) ==
  /\ Reported(fd)
  /\ WQ!Submit([type |-> IF InReady(fd) THEN "recv" ELSE "find", fd |-> fd])
  /\ UNCHANGED <<socketVars, pc, fdOf, erased, request, response, filePresent,
                 alive>>

(* A report disarms the descriptor (EPOLLONESHOT).  EPOLLIN comes first:   *)
(* a descriptor that is both readable and writable is handed to HandleRecv.*)
Dispatch(fd) ==
  /\ Reported(fd)
  /\ interest' = [interest EXCEPT ![fd] = "disarmed"]
  /\ WQ!Submit([type |-> IF InReady(fd) THEN "recv" ELSE "find", fd |-> fd])
  /\ UNCHANGED <<fdUse, gen, backlog, listenEdge, connects, conn, pc, fdOf,
                 erased, request, response, filePresent, alive>>

-----------------------------------------------------------------------------
(* A worker takes an event                                                 *)

Take(w) ==
  /\ At(w, "idle")
  /\ WQ!Take(w)
  /\ pc' = [pc EXCEPT ![w] = Head(queue).type]
  /\ fdOf' = IF Head(queue) = AcceptEvent THEN fdOf
             ELSE [fdOf EXCEPT ![w] = Head(queue).fd]
  /\ UNCHANGED <<socketVars, erased, request, response, filePresent, alive>>

-----------------------------------------------------------------------------
(* AcceptConn::process                                                     *)

(* One accept for each event.                                              *)
Accept(w) ==
  /\ At(w, "accept") /\ backlog > 0
  /\ \E fd \in Fds :
       /\ IsLowestFree(fd)
       /\ fdUse' = [fdUse EXCEPT ![fd] = "conn"]
       /\ gen' = [gen EXCEPT ![fd] = @ + 1]
       /\ fdOf' = [fdOf EXCEPT ![w] = fd]
  /\ backlog' = backlog - 1
  /\ pc' = [pc EXCEPT ![w] = "add"]
  /\ UNCHANGED <<interest, listenEdge, connects, conn, poolVars, erased,
                 request, response, filePresent, alive>>

\* Defect: what accept returned is not looked at.
AcceptFails_Ignored(w) ==
  /\ At(w, "accept") /\ (backlog = 0 \/ NoFreeFd)
  /\ Goto(w, "add")
  /\ UNCHANGED <<socketVars, erased, request, response, filePresent, alive>>

(* EAGAIN, or EMFILE: the handler gives up.                                *)
AcceptFails(w) ==
  /\ At(w, "accept") /\ (backlog = 0 \/ NoFreeFd)
  /\ Return(w)
  /\ UNCHANGED <<socketVars, erased, request, response, filePresent, alive>>

(* addWaitFd; it fails if somebody closed the descriptor in between.       *)
AddWait(w) ==
  /\ At(w, "add")
  /\ interest' = IF IsConn(fdOf[w]) /\ interest[fdOf[w]] = "off"
                 THEN [interest EXCEPT ![fdOf[w]] = "in"] ELSE interest
  /\ Return(w)
  /\ UNCHANGED <<fdUse, gen, backlog, listenEdge, connects, conn, erased,
                 request, response, filePresent, alive>>

-----------------------------------------------------------------------------
(* HandleRecv::process.  What recv returned is parsed one unit at a time;  *)
(* the handler goes back to recv when it needs more.                       *)

Req(w) == request[fdOf[w]]
SetRequest(w, r) == request' = [request EXCEPT ![fdOf[w]] = r]
SetStatus(w, s) == SetRequest(w, [Req(w) EXCEPT !.status = s])
Starved(w) == Req(w).recvMsg = <<>>
NextUnit(w) == Head(Req(w).recvMsg)
Consumed(w) == [Req(w) EXCEPT !.recvMsg = Tail(@)]

Parses(w, status) == At(w, "parse") /\ Req(w).status = status
Uploads(w, part) == /\ Parses(w, "BODY")
                    /\ Method(Req(w).req) = "POST" /\ Req(w).multi
                    /\ Req(w).part = part

elseVars == <<erased, filePresent, alive>>
parseVars == <<socketVars, response, elseVars>>

\* recv returns data: what has come, or as much of it as buf holds.
RecvData(w) ==
  /\ At(w, "recv") /\ IsConn(fdOf[w])
  /\ LET got == conn[fdOf[w]].inbuf IN
     \E n \in 1..Len(got) :
       /\ SetRequest(w, [Req(w) EXCEPT !.recvMsg = @ \o SubSeq(got, 1, n)])
       /\ conn' = [conn EXCEPT ![fdOf[w]].inbuf = SubSeq(got, n + 1, Len(got))]
  /\ Goto(w, "parse")
  /\ UNCHANGED <<kernelVars, response, elseVars>>

\* recv returns 0 or fails: the client closed or reset the connection, or the
\* number is no connection any more.
RecvEnds(w) ==
  /\ At(w, "recv")
  /\ IsConn(fdOf[w]) => /\ conn[fdOf[w]].inbuf = <<>>
                        /\ conn[fdOf[w]].peer # "up"
  /\ SetStatus(w, "ERROR")
  /\ conn' = IF IsConn(fdOf[w]) /\ conn[fdOf[w]].peer = "reset"
             THEN [conn EXCEPT ![fdOf[w]].peer = "broken"] ELSE conn
  /\ Goto(w, "ended")
  /\ UNCHANGED <<kernelVars, response, elseVars>>

\* Defect: EAGAIN ends the handler and nothing arms the descriptor.
RecvBlocks_NoArm(w) ==
  /\ At(w, "recv") /\ IsConn(fdOf[w])
  /\ conn[fdOf[w]].inbuf = <<>> /\ conn[fdOf[w]].peer = "up"
  /\ Goto(w, "check")
  /\ UNCHANGED <<request, parseVars>>

\* EAGAIN: wait for more.
RecvBlocks(w) ==
  /\ At(w, "recv") /\ IsConn(fdOf[w])
  /\ conn[fdOf[w]].inbuf = <<>> /\ conn[fdOf[w]].peer = "up"
  /\ Goto(w, "armIn")
  /\ UNCHANGED <<request, parseVars>>

\* The request line; what is no request line gives a method nobody knows.
ParseLine(w) ==
  /\ Parses(w, "INIT") /\ ~Starved(w)
  /\ SetRequest(w, [Consumed(w) EXCEPT
       !.status = "HEAD",
       !.req = IF NextUnit(w) \in Kinds THEN NextUnit(w) ELSE "junk"])
  /\ Goto(w, "parse")
  /\ UNCHANGED parseVars

\* A header line, or the blank line that ends the headers.
ParseHeader(w) ==
  /\ Parses(w, "HEAD") /\ ~Starved(w)
  /\ SetRequest(w,
       IF NextUnit(w) = "blank"
       THEN [Consumed(w) EXCEPT !.status = "BODY",
                                !.part = IF Req(w).multi THEN "begin" ELSE @]
       ELSE [Consumed(w) EXCEPT !.multi = @ \/ NextUnit(w) = "multipart"])
  /\ Goto(w, "parse")
  /\ UNCHANGED parseVars

\* A GET is complete with its headers.
ParseGet(w) ==
  /\ Parses(w, "BODY") /\ Method(Req(w).req) = "GET"
  /\ Respond(w, Resource(Req(w).req), "armOut")
  /\ UNCHANGED <<socketVars, request, elseVars>>

\* So is a PUT: its body is whatever recvMsg holds when HandleSend looks.
ParsePut(w) ==
  /\ Parses(w, "BODY") /\ Method(Req(w).req) = "PUT"
  /\ Respond(w, Resource(Req(w).req), "armPut")
  /\ UNCHANGED <<socketVars, request, elseVars>>

\* A POST that uploads nothing, has no boundary or is done redirects.
ParsePost(w) ==
  /\ \/ Parses(w, "BODY") /\ Method(Req(w).req) = "POST" /\ ~Req(w).multi
     \/ Uploads(w, "begin") /\ ~Starved(w) /\ NextUnit(w) # "boundary"
     \/ Uploads(w, "complete")
  /\ Respond(w, "redirect", "armOut")
  /\ UNCHANGED <<socketVars, request, elseVars>>

\* The boundary before the file, and the lines that describe the file.
ParseBoundary(w) ==
  /\ Uploads(w, "begin") /\ ~Starved(w) /\ NextUnit(w) = "boundary"
  /\ SetRequest(w, [Consumed(w) EXCEPT !.part = "head"])
  /\ Goto(w, "parse")
  /\ UNCHANGED parseVars

ParseFileHead(w) ==
  /\ Uploads(w, "head") /\ ~Starved(w)
  /\ SetRequest(w, IF NextUnit(w) = "blank"
                   THEN [Consumed(w) EXCEPT !.part = "content"]
                   ELSE Consumed(w))
  /\ Goto(w, "parse")
  /\ UNCHANGED parseVars

\* The file is opened, and created, for each piece of content received.  If
\* that fails the handler is done, and nobody arms the descriptor again.
OpenUpload(w) ==
  /\ Uploads(w, "content")
  /\ \E opens \in WriteOpens :
       /\ Goto(w, IF opens THEN "save" ELSE "ended")
       /\ filePresent' = (filePresent \/ opens)
  /\ UNCHANGED <<socketVars, request, response, erased, alive>>

\* One piece of the file, up to the final boundary, which stays in recvMsg.
SaveContent(w) ==
  /\ At(w, "save") /\ ~Starved(w)
  /\ IF NextUnit(w) = "final"
     THEN /\ SetRequest(w, [Req(w) EXCEPT !.part = "complete"])
          /\ Goto(w, "parse")
     ELSE /\ SetRequest(w, Consumed(w))
          /\ Goto(w, "save")
  /\ UNCHANGED parseVars

\* Nothing (more) to do with recvMsg: back to recv.
ParseMore(w) ==
  /\ \/ At(w, "save") /\ Starved(w)
     \/ (Parses(w, "INIT") \/ Parses(w, "HEAD")) /\ Starved(w)
     \/ (Uploads(w, "begin") \/ Uploads(w, "head")) /\ Starved(w)
     \/ Parses(w, "BODY") /\ Method(Req(w).req) = "none"
     \/ Parses(w, "COMPLETE") \/ Parses(w, "ERROR")
  /\ Goto(w, "recv")
  /\ UNCHANGED <<request, parseVars>>

\* modifyWaitFd.  From here on another worker may handle the connection.
Arm(w, from, mask, to) ==
  /\ At(w, from)
  /\ Modify(fdOf[w], mask)
  /\ Goto(w, to)
  /\ UNCHANGED <<fdUse, gen, backlog, listenEdge, connects, conn, request,
                 response, elseVars>>
ArmIn(w) == Arm(w, "armIn", "in", "check")
ArmOut(w) == Arm(w, "armOut", "inout", "complete")
ArmPut(w) == Arm(w, "armPut", "inout", "putBody")

\* Defect: the request stays HANDLE_BODY.
Complete_Forgotten(w) == /\ At(w, "complete")
                         /\ Goto(w, "check")
                         /\ UNCHANGED <<request, parseVars>>

Complete(w) == /\ At(w, "complete")
               /\ SetStatus(w, "COMPLETE")
               /\ Goto(w, "check")
               /\ UNCHANGED parseVars
PutBody(w) == /\ At(w, "putBody")
              /\ SetStatus(w, "BODY")
              /\ Goto(w, "check")
              /\ UNCHANGED parseVars

\* The tail of the handler looks at the status once more.
Check(w) ==
  /\ At(w, "check") \/ At(w, "ended")
  /\ \/ Req(w).status = "COMPLETE" /\ Goto(w, "eraseRequest")
     \/ Req(w).status = "ERROR" /\ Goto(w, "close")
     \/ Req(w).status \notin {"COMPLETE", "ERROR"} /\ Return(w)
  /\ UNCHANGED <<request, parseVars>>

\* deleteWaitFd, shutdown, close.  responseStatus keeps its entry.
CloseConn(w) == /\ At(w, "close")
                /\ CloseFd(fdOf[w])
                /\ Goto(w, "eraseRequest")
                /\ UNCHANGED <<request, response, elseVars>>

\* Defect: the entry of a finished or failed request stays.
EraseRequest_Kept(w) == /\ At(w, "eraseRequest")
                        /\ Return(w)
                        /\ UNCHANGED <<request, parseVars>>

EraseRequest(w) == /\ At(w, "eraseRequest")
                   /\ SetRequest(w, NewRequest)
                   /\ Return(w)
                   /\ UNCHANGED parseVars

RecvStep(w) ==
  \/ RecvData(w) \/ RecvEnds(w) \/ RecvBlocks(w)
  \/ ParseLine(w) \/ ParseHeader(w) \/ ParseGet(w) \/ ParsePut(w)
  \/ ParsePost(w) \/ ParseBoundary(w) \/ ParseFileHead(w)
  \/ OpenUpload(w) \/ SaveContent(w) \/ ParseMore(w)
  \/ ArmIn(w) \/ ArmOut(w) \/ ArmPut(w) \/ Complete(w) \/ PutBody(w)
  \/ Check(w) \/ CloseConn(w) \/ EraseRequest(w)

-----------------------------------------------------------------------------
(* HandleSend::process                                                     *)

Resp(w) == Entry(fdOf[w])
sendVars == <<socketVars, request, elseVars>>

\* Without a response the handler returns, and nobody arms the descriptor.
FindResponse(w) ==
  /\ At(w, "find")
  /\ \/ response[fdOf[w]] = NoEntry /\ Return(w)
     \/ response[fdOf[w]] # NoEntry /\ Resp(w).status = "INIT"
        /\ Goto(w, "build")
     \/ response[fdOf[w]] # NoEntry /\ Resp(w).status # "INIT"
        /\ Goto(w, "send")
  /\ UNCHANGED <<response, sendVars>>

\* The operation is the first part of the name; what is not known redirects.
Builds(w, name) == At(w, "build") /\ Resp(w).name = name
Built(w, head) == SetResponse(w, [Resp(w) EXCEPT !.status = "HEAD",
                                                 !.head = head, !.sent = 0],
                              "send")
\* A new response, sent by the next HandleSend of the connection.
Replaced(w, name) == SetResponse(w, [NewResponse EXCEPT !.name = name], "rearm")

ShortOfFds == \A d, t \in Fds : fdUse[d] = "free" /\ fdUse[t] = "free" => d = t

(* The page: opendir takes the lowest free number, and no closedir ever     *)
(* gives it back; the template needs a number while it is read.            *)
BuildPage(w) ==
  /\ Builds(w, "/")
  /\ \E d \in Fds :
       /\ IsLowestFree(d)
       /\ \E t \in Fds : t # d /\ fdUse[t] = "free"
       /\ fdUse' = [fdUse EXCEPT ![d] = "dir"]
  /\ Built(w, "page")
  /\ UNCHANGED <<gen, interest, backlog, listenEdge, connects, conn, request,
                 elseVars>>

\* Without a number for the directory readdir gets a null pointer; without
\* one for the template the loop that reads it adds lines to the page until
\* memory ends.
BuildPageDies(w) ==
  /\ Builds(w, "/")
  /\ ShortOfFds
  /\ alive' = FALSE
  /\ UNCHANGED <<socketVars, poolVars, pc, fdOf, erased, request, response,
                 filePresent>>

BuildRedirect(w) ==
  Builds(w, "redirect") /\ Built(w, "moved") /\ UNCHANGED sendVars

\* open takes the lowest free number.
BuildFile(w) ==
  /\ Builds(w, "downl") /\ filePresent
  /\ \E f \in Fds :
       /\ IsLowestFree(f)
       /\ fdUse' = [fdUse EXCEPT ![f] = "file"]
       /\ SetResponse(w, [Resp(w) EXCEPT !.status = "HEAD", !.head = "file",
                                         !.file = f, !.sent = 0], "send")
  /\ UNCHANGED <<gen, interest, backlog, listenEdge, connects, conn, request,
                 elseVars>>

BuildFileFails(w) ==
  /\ Builds(w, "downl") /\ (~filePresent \/ NoFreeFd)
  /\ Replaced(w, "redirect")
  /\ UNCHANGED sendVars

\* Defect: the file stays.
BuildDelete_Kept(w) == /\ Builds(w, "del")
                       /\ Replaced(w, "/")
                       /\ UNCHANGED <<socketVars, request, erased, alive,
                                      filePresent>>

BuildDelete(w) == /\ Builds(w, "del")
                  /\ filePresent' = FALSE
                  /\ Replaced(w, "/")
                  /\ UNCHANGED <<socketVars, request, erased, alive>>

\* The file is truncated and gets what requestStatus holds by now.
BuildPut(w) ==
  /\ Builds(w, "put")
  /\ \/ /\ TRUE \in WriteOpens
        /\ filePresent' = TRUE
        /\ Built(w, "ok")
     \/ /\ FALSE \in WriteOpens
        /\ Replaced(w, "redirect")
        /\ UNCHANGED filePresent
  /\ UNCHANGED <<socketVars, request, erased, alive>>

\* substr(1, 0) of the empty name throws std::out_of_range; nobody catches.
BuildThrows(w) ==
  /\ Builds(w, "")
  /\ alive' = FALSE
  /\ UNCHANGED <<socketVars, poolVars, pc, fdOf, erased, request, response,
                 filePresent>>

(* The loop of send and sendfile calls.  A file is read from the           *)
(* descriptor in the entry, whatever that number is by now.                *)
SendsBody(w) == Resp(w).status = "BODY" /\ HasBody(Resp(w).head)
Sends(w) == At(w, "send") /\ (Resp(w).status = "HEAD" \/ SendsBody(w))
BadFile(w) == /\ SendsBody(w) /\ Resp(w).head = "file"
              /\ Resp(w).file = NoFd \/ fdUse[Resp(w).file] # "file"
Peer(w) == conn[fdOf[w]].peer

\* EBADF, ENOTSOCK, ECONNRESET: the request is marked, the response is not.
SendFails(w) ==
  /\ Sends(w)
  /\ \/ BadFile(w) \/ ~IsConn(fdOf[w]) \/ Peer(w) = "reset"
  /\ SetStatus(w, "ERROR")
  /\ conn' = IF ~BadFile(w) /\ IsConn(fdOf[w])
             THEN [conn EXCEPT ![fdOf[w]].peer = "broken"] ELSE conn
  /\ Goto(w, "tail")
  /\ UNCHANGED <<kernelVars, response, elseVars>>

\* EPIPE: SIGPIPE has its default action.
SendKills(w) ==
  /\ Sends(w) /\ ~BadFile(w) /\ IsConn(fdOf[w]) /\ Peer(w) = "broken"
  /\ alive' = FALSE
  /\ UNCHANGED <<socketVars, poolVars, pc, fdOf, erased, request, response,
                 filePresent>>

SendWorks(w) == /\ Sends(w) /\ ~BadFile(w)
                /\ IsConn(fdOf[w]) /\ Peer(w) \in {"up", "fin"}

\* EAGAIN
SendBlocks(w) == /\ SendWorks(w) /\ Len(conn[fdOf[w]].outbuf) >= SendCap
                 /\ Goto(w, "tail")
                 /\ UNCHANGED <<response, sendVars>>

Transmits(w, unit) ==
  /\ SendWorks(w) /\ Len(conn[fdOf[w]].outbuf) < SendCap
  /\ conn' = [conn EXCEPT ![fdOf[w]].outbuf = Append(@, unit)]
  /\ UNCHANGED <<kernelVars, request, elseVars>>

SendHead(w) ==
  /\ At(w, "send") /\ Resp(w).status = "HEAD"
  /\ Transmits(w, IF Resp(w).sent = 0 THEN Resp(w).head
                  ELSE RestOf(Resp(w).head))
  /\ SetResponse(w, IF Resp(w).sent + 1 >= HeadUnits
                    THEN [Resp(w) EXCEPT !.status = "BODY", !.sent = 0]
                    ELSE [Resp(w) EXCEPT !.sent = @ + 1], "send")

\* Defect: the body is complete one unit too late.
SendBody_OneMore(w) ==
  /\ At(w, "send") /\ SendsBody(w)
  /\ Transmits(w, RestOf(Resp(w).head))
  /\ IF Resp(w).sent + 1 > BodyUnits
     THEN SetResponse(w, [Resp(w) EXCEPT !.status = "COMPLETE", !.sent = 0],
                      "tail")
     ELSE SetResponse(w, [Resp(w) EXCEPT !.sent = @ + 1], "send")

SendBody(w) ==
  /\ At(w, "send") /\ SendsBody(w)
  /\ Transmits(w, RestOf(Resp(w).head))
  /\ IF Resp(w).sent + 1 >= BodyUnits
     THEN SetResponse(w, [Resp(w) EXCEPT !.status = "COMPLETE", !.sent = 0],
                      "tail")
     ELSE SetResponse(w, [Resp(w) EXCEPT !.sent = @ + 1], "send")

SendEmpty(w) ==
  /\ At(w, "send") /\ Resp(w).status = "BODY"
  /\ Resp(w).head \in {"moved", "ok"}
  /\ SetResponse(w, [Resp(w) EXCEPT !.status = "COMPLETE", !.sent = 0], "tail")
  /\ UNCHANGED sendVars

\* Another worker finished or erased this response: the loop has no case for
\* that and does not end.  getStatus creates the entry again.
SendSpins(w) ==
  /\ At(w, "send") /\ Resp(w).status \in {"INIT", "COMPLETE"}
  /\ SetResponse(w, Resp(w), "send")
  /\ UNCHANGED sendVars

\* Nothing sets a response to HANDLE_ERROR: the tail knows two cases.
SendTail(w) ==
  /\ At(w, "tail")
  /\ SetResponse(w, Resp(w), IF Resp(w).status = "COMPLETE"
                             THEN "eraseResponse" ELSE "rearm")
  /\ UNCHANGED sendVars

EraseResponse(w) ==
  /\ At(w, "eraseResponse")
  /\ response' = [response EXCEPT ![fdOf[w]] = NoEntry]
  /\ erased' = [erased EXCEPT ![w] =
                  IF Resp(w).head = "file" THEN Resp(w).file ELSE NoFd]
  /\ Goto(w, "rearmIn")
  /\ UNCHANGED <<socketVars, request, filePresent, alive>>

\* Defect: EPOLLOUT stays set when the response is complete.
RearmIn_Out(w) == Arm(w, "rearmIn", "inout", "closeFile")

RearmIn(w) == Arm(w, "rearmIn", "in", "closeFile")

(* After the erase, getBodyType and getFileMsgFd create the entry anew and *)
(* read members no constructor sets.  The allocator hands the node out     *)
(* that the erase freed, so they are those of the erased response.  If     *)
(* another worker created the entry meanwhile, its memory is another       *)
(* node's: unset members say nothing, or name a file of an older response. *)
FileToClose(w) ==
  IF response[fdOf[w]] = NoEntry THEN {erased[w]}
  ELSE CASE Resp(w).head = "none" -> {NoFd} \cup {erased[v] : v \in Workers}
         [] Resp(w).head = "file" -> {Resp(w).file}
         [] OTHER -> {NoFd}

CloseFile(w) ==
  /\ At(w, "closeFile")
  /\ response' = [response EXCEPT ![fdOf[w]] = Resp(w)]
  /\ \E f \in FileToClose(w) :
       \/ f \in Fds /\ CloseFd(f)
       \/ f = NoFd /\ UNCHANGED socketVars
  /\ Return(w)
  /\ UNCHANGED <<request, elseVars>>

\* Defect: the file is closed whether or not all of it is sent.
Rearm_ClosesFile(w) ==
  /\ At(w, "rearm")
  /\ LET f == Resp(w).file
         closes == Resp(w).head = "file" /\ fdUse[f] = "file" IN
     /\ fdUse' = IF closes THEN [fdUse EXCEPT ![f] = "free"] ELSE fdUse
  /\ Modify(fdOf[w], "inout")
  /\ Return(w)
  /\ UNCHANGED <<gen, backlog, listenEdge, connects, conn, request, response,
                 elseVars>>

\* The response is not complete: go on when the client reads.
Rearm(w) ==
  /\ At(w, "rearm")
  /\ Modify(fdOf[w], "inout")
  /\ Return(w)
  /\ UNCHANGED <<fdUse, gen, backlog, listenEdge, connects, conn, request,
                 response, elseVars>>

SendStep(w) ==
  \/ FindResponse(w)
  \/ BuildPage(w) \/ BuildPageDies(w) \/ BuildRedirect(w)
  \/ BuildFile(w) \/ BuildFileFails(w)
  \/ BuildDelete(w) \/ BuildPut(w) \/ BuildThrows(w)
  \/ SendFails(w) \/ SendKills(w) \/ SendBlocks(w)
  \/ SendHead(w) \/ SendBody(w) \/ SendEmpty(w) \/ SendSpins(w)
  \/ SendTail(w) \/ EraseResponse(w) \/ RearmIn(w) \/ CloseFile(w) \/ Rearm(w)

-----------------------------------------------------------------------------
HandlerStep(w) == \/ Take(w) \/ Accept(w) \/ AcceptFails(w) \/ AddWait(w)
                  \/ RecvStep(w) \/ SendStep(w)

\* What the program does, while it runs, and what its clients do.
programVars == <<queue, running, pc, fdOf, erased, request, response,
                 filePresent, alive>>
MainListens == alive /\ Listen
MainDispatches(fd) == alive /\ Dispatch(fd)
WorkerSteps(w) == alive /\ HandlerStep(w)
ClientConnects == Connect /\ UNCHANGED programVars
ClientSteps(fd) == ClientStep(fd) /\ UNCHANGED programVars

Next == \/ MainListens \/ ClientConnects
        \/ \E fd \in Fds : MainDispatches(fd) \/ ClientSteps(fd)
        \/ \E w \in Workers : WorkerSteps(w)

Safety == Init /\ [][Next]_vars

(* What one-shot registration is for: no two workers handle the same       *)
(* number at the same time.  The code does not see to it, because a        *)
(* handler arms its descriptor before it is done.  SafetyApart is the      *)
(* program as it runs as long as no handler is overtaken by the next one.  *)
HandlersApart ==
  \A v, w \in Workers : fdOf[v] = fdOf[w] /\ fdOf[v] # NoFd => v = w
SafetyApart == Init /\ [][Next /\ HandlersApart']_vars

(* The main thread gets round to every descriptor epoll reports, every     *)
(* worker is scheduled, a client sends the request it began and reads what *)
(* arrives.  No client has to connect, to ask, to close or to reset.       *)
ClientGoesOn(fd) == /\ ClientSends(fd) \/ ClientReads(fd)
                    /\ UNCHANGED programVars
Spec == /\ Safety
        /\ WF_vars(MainListens)
        /\ \A fd \in Fds : WF_vars(MainDispatches(fd))
        /\ \A fd \in Fds : WF_vars(ClientGoesOn(fd))
        /\ \A w \in Workers : WF_vars(WorkerSteps(w))

-----------------------------------------------------------------------------
(* Properties                                                              *)

\* A handler that has accepted, or never has to, has a descriptor.
HandlerHasFd ==
  \A w \in Workers : pc[w] \notin {"idle", "accept"} => fdOf[w] \in Fds

TypeOK == /\ fdUse \in [Fds -> {"free", "conn", "file", "dir"}]
          /\ gen \in [Fds -> Nat]
          /\ interest \in [Fds -> Interests]
          /\ backlog \in Nat /\ listenEdge \in BOOLEAN /\ connects \in Nat
          /\ conn \in [Fds -> Connection]
          /\ queue \in Seq(Events)
          /\ running \in [Workers -> Events \cup {NoEvent}]
          /\ pc \in [Workers -> {"idle"} \cup AcceptPcs \cup RecvPcs \cup SendPcs]
          /\ fdOf \in [Workers -> Fds \cup {NoFd}]
          /\ erased \in [Workers -> Fds \cup {NoFd}]
          /\ request \in [Fds -> Request]
          /\ response \in [Fds -> Response \cup {NoEntry}]
          /\ filePresent \in BOOLEAN /\ alive \in BOOLEAN
          /\ HandlerHasFd

(* Who may act on a connection: whoever is about to add it to epoll; epoll *)
(* while the descriptor is armed; an event in the queue; a handler that    *)
(* has not armed the descriptor again.                                     *)
HeadPcs == {"add", "recv", "parse", "save", "armIn", "armOut", "armPut",
            "ended", "find", "build", "send", "tail", "eraseResponse",
            "rearmIn", "rearm"}
Heads(fd) == {w \in Workers : fdOf[w] = fd /\ pc[w] \in HeadPcs}
Queued(fd) == {i \in 1..Len(queue) :
                 queue[i] # AcceptEvent /\ queue[i].fd = fd}
AtMostOneTurn(fd) == /\ \A v, w \in Heads(fd) : v = w
                     /\ \A i, j \in Queued(fd) : i = j
                     /\ Heads(fd) = {} \/ Queued(fd) = {}
                     /\ Armed(fd) => Heads(fd) = {} /\ Queued(fd) = {}

(* EPOLLONESHOT keeps the handlers of a connection apart, as their maps    *)
(* need it: of the workers and events of an open connection at most one    *)
(* is before its modifyWaitFd.  This is only so for the first connection   *)
(* that gets the number: afterwards a handler of the connection before it  *)
(* may still be there.  (myevent.cpp:34, utils.cpp:121-142)                *)
FirstUse(fd) == IsConn(fd) /\ gen[fd] = 1
FirstUseExclusive == \A fd \in Fds : FirstUse(fd) => AtMostOneTurn(fd)

(* Nor is such a connection lost as long as its client stays and uploaded  *)
(* files can be opened: there is somebody who will look at it again.       *)
(* (every path of HandleRecv and HandleSend ends in a modifyWaitFd)        *)
NoConnectionLost ==
  alive => \A fd \in Fds :
    FirstUse(fd) /\ conn[fd].peer = "up" =>
      Heads(fd) # {} \/ Queued(fd) # {} \/ Armed(fd)

(* Every accept event finds a connection to accept: epoll reports none     *)
(* that an earlier event will take.                                        *)
Accepting == {w \in Workers : pc[w] = "accept"}
AcceptEvents == {i \in 1..Len(queue) : queue[i] = AcceptEvent}
AcceptFindsConnection ==
  Cardinality(Accepting) + Cardinality(AcceptEvents) <= backlog

(* Clients get the answers to their requests, in order and whole.  A PUT   *)
(* has no end: what its client sends after it is its body, and everything  *)
(* received is answered once more.  So this is said up to the first PUT.   *)
RightAnswer(k) == CASE k \in {"list", "del"} -> {"page"}
                    [] k = "downl" -> {"file", "moved"}
                    [] k = "put" -> {"ok", "moved"}
                    [] k = "unknown" -> {}
                    [] OTHER -> {"moved"}
NoPut(asked, n) == \A i \in 1..n : asked[i] # "put"
RightAnswers ==
  \A fd \in Fds :
    LET c == conn[fd] IN
      /\ NoPut(c.asked, Len(c.asked)) => Len(c.answers) <= Len(c.asked)
      /\ \A i \in 1..Len(c.answers) :
           i <= Len(c.asked) /\ NoPut(c.asked, i - 1) =>
             c.answers[i] \in RightAnswer(c.asked[i])

(* With polite clients, no PUT and no handler overtaken the server is the  *)
(* service Exchange describes.  A reply is decided when its head is built, *)
(* and counts while the head is unsent, unread and read.  A delete, from   *)
(* remove() on, and a download, from the failed open on, have another      *)
(* response in their place until HandleSend comes back for it.             *)
Replied(fd) ==
  LET out == conn[fd].outbuf IN
  conn[fd].answers
    \o (IF out # <<>> /\ out[1] \in Answers THEN <<out[1]>> ELSE <<>>)
    \o IF response[fd] # NoEntry /\ Entry(fd).status = "HEAD"
                                /\ Entry(fd).sent = 0
       THEN <<Entry(fd).head>> ELSE <<>>
Settled(fd) ==
  /\ response[fd] # NoEntry /\ Entry(fd).status = "INIT"
  /\ Len(Replied(fd)) < Len(conn[fd].asked)
  /\ <<conn[fd].asked[Len(Replied(fd)) + 1], Entry(fd).name>>
       \in {<<"del", "/">>, <<"downl", "redirect">>}

EX == INSTANCE Exchange WITH Conns <- Fds,
        asked <- [fd \in Fds |-> conn[fd].asked],
        replied <- [fd \in Fds |-> Replied(fd)],
        settled <- {fd \in Fds : Settled(fd)},
        present <- filePresent,
        full <- NoFreeFd
ImplementsExchange == EX!Spec

(* The server closes a connection only when its client has left.           *)
OnlyGoneClientsAreClosed ==
  [][\A fd \in Fds : IsConn(fd) /\ ~IsConn(fd)' => conn[fd].peer # "up"]_vars

(* A file that is being sent stays open until all of it is sent.           *)
SendingFile(w) == /\ pc[w] = "send" /\ SendsBody(w)
                  /\ Resp(w).head = "file"
FileStaysOpen == \A w \in Workers : SendingFile(w) => fdUse[Resp(w).file] = "file"

(* Every request of a client that stays is answered in the end, but for    *)
(* - an upload whose file could not be opened: nobody looks at that        *)
(*   connection again (myevent.cpp:173);                                   *)
(* - a request with a method that no branch answers (109-238);             *)
(* - a POST whose body was not over when its redirection was decided (134, *)
(*   222): if the rest comes before the redirection is sent, HandleRecv    *)
(*   reads it and waits for more of a request that is none (61), and       *)
(*   whenever it comes, the next request is taken for a part of it.        *)
(* A server that ended answers nobody.                                     *)
Abandoned(fd) == /\ request[fd].part = "content"
                 /\ Heads(fd) = {} /\ Queued(fd) = {} /\ ~Armed(fd)
Misread(fd) == request[fd].req \in {"unknown", "junk"}
EventuallyAnswered ==
  \A fd \in Fds : IsConn(fd) /\ ~AllAnswered(fd)
                   ~> \/ ~IsConn(fd) \/ AllAnswered(fd)
                      \/ Abandoned(fd) \/ Misread(fd) \/ ~alive

(* Every connection made is accepted in the end.                           *)
EventuallyAccepted == backlog > 0 ~> backlog = 0

(* HandleSend never comes to the first connection of a number with an      *)
(* entry that has no name, which would end the process (myevent.cpp:267):  *)
(* line 454 makes such an entry after every answer.                        *)
ResponsesNamed ==
  \A w \in Workers : At(w, "build") /\ FirstUse(fdOf[w]) => Resp(w).name # ""

(* Polite clients can end the server only by taking its descriptors with   *)
(* the pages they ask for (495), as long as no handler is overtaken: they  *)
(* leave with every answer read, but at any moment after, and neither      *)
(* SIGPIPE nor an entry without a name comes of that.  Clients that leave  *)
(* before can raise SIGPIPE.                                               *)
OnlyShortageEndsServer ==
  alive \/ \E w \in Workers : Builds(w, "/") /\ ShortOfFds

(* The server never ends.                                                  *)
StaysAlive == alive
=============================================================================
