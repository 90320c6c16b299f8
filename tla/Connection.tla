----------------------------- MODULE Connection -----------------------------
(***************************************************************************)
(* One connection between a ClientImpl and a ServerImpl: the frames that   *)
(* both send, the loops of OnReceiveData that cut the two streams of bytes *)
(* into frames (ucorf/client_impl.cpp, ucorf/server_impl.cpp), the headers *)
(* (ucorf/message.cpp, ucorf/hprose/hprose_header.cpp), and DispatchMsg.   *)
(*                                                                         *)
(* A stream is the sequence of its frames; of the bytes only their number  *)
(* counts, and each frame says how many came before it.  The transport     *)
(* (ucorf/net_transport.cpp, over libgonet, which is external) keeps what  *)
(* OnReceiveData has not consumed in a buffer and calls it again when more *)
(* bytes have come, from one coroutine for each stream; it ends the        *)
(* session when the buffer is full and more comes, or when OnReceiveData   *)
(* returned -1.                                                            *)
(***************************************************************************)
EXTENDS Naturals, Sequences

CONSTANTS
  Service,   \* names of services
  Hprose,    \* the one that Hprose_Head names
  Fixed,     \* bytes of a header without its names (14, or 8)
  MaxNames,  \* bound on the bytes of the names in a header
  Body,      \* numbers of bytes that a body may have
  LenMod,    \* number of values of uint16_t
  MaxPacks,  \* numbers of bytes that the buffer of the transport may hold
  MaxReqs    \* bound on the number of requests

ASSUME ConnectionAssumption ==
  /\ Hprose \in Service
  /\ Fixed \in Nat \ {0} /\ MaxNames \in Nat /\ Body \subseteq Nat
  /\ MaxReqs \in Nat /\ LenMod \in Nat \ {0} /\ MaxPacks \subseteq Nat

VARIABLES
  proto,     \* what SetHeaderFactory chose at both ends
  maxPack,   \* max_pack_size_, which SetOption chose at both ends
  services,  \* services_
  reqs,      \* the frames sent to the server
  replies,   \* the frames sent to the client
  rx,        \* the receiving end of each stream
  running,   \* is CallMethod under way?
  state,     \* of the session
  handled,   \* history: requests that were dispatched
  answered   \* history: the ids passed to OnResponse

vars == <<proto, maxPack, services, reqs, replies, rx, running, state, handled,
          answered>>

Side == {"server", "client"}

(* The receiving end of a stream, to which BindTransport (and in a client  *)
(* ServerFinder) binds OnReceiveData: bytes that came, bytes consumed by   *)
(* the calls of OnReceiveData that have returned, and of the call under    *)
(* way: the bytes it was given (0 if there is none) and those it consumed. *)
Bound == [got |-> 0, at |-> 0, bytes |-> 0, used |-> 0]

(* The callbacks are bound and the server listens on one address.          *)
Init ==
  /\ proto \in {"ucorf", "hprose"}
  /\ maxPack \in MaxPacks
  /\ services \in SUBSET Service
  /\ reqs = <<>> /\ replies = <<>>
  /\ rx = [s \in Side |-> Bound]
  /\ running = FALSE
  /\ state = "open"
  /\ handled = <<>> /\ answered = <<>>

-----------------------------------------------------------------------------
(* Frames *)

Stream(s) == IF s = "server" THEN reqs ELSE replies

FrameSize(f) == f.head + f.body

(* Where the first i frames end.                                           *)
End(frames, i) ==
  IF i = 0 THEN 0 ELSE frames[i].start + FrameSize(frames[i])

Total(s) == End(Stream(s), Len(Stream(s)))

(* Requests and the sizes of their headers, the next one from the byte     *)
(* start of the stream on: Hprose_Head has no names and no type.           *)
UcorfRequest(start) ==
  [start : {start}, service : Service, oneway : BOOLEAN,
   head : Fixed..(Fixed + MaxNames), body : Body]

HproseRequest(start) ==
  [start : {start}, service : {Hprose}, oneway : BOOLEAN, head : {Fixed},
   body : Body]

Request(start) ==
  IF proto = "hprose" THEN HproseRequest(start) ELSE UcorfRequest(start)

(* GetType() == oneway_request, which Hprose_Head never says.              *)
IsOneway(f) == proto = "ucorf" /\ f.oneway

(* A mistake for the next definition, which no specification uses: the     *)
(* length of the buffer is taken for a narrower number.                    *)
UcorfParseNarrow(f, len) ==
  IF len < Fixed \/ len % (LenMod - 1) < f.head THEN 0 ELSE f.head

(* The length of the header of f, or 0 if len bytes do not seem to hold it:*)
(* UcorfHead::Parse takes the length of the buffer for a uint16_t.         *)
UcorfParse(f, len) ==
  IF len < Fixed \/ len % LenMod < f.head THEN 0 ELSE f.head

HproseParse(f, len) == IF len < Fixed THEN 0 ELSE f.head

Parse(f, len) ==
  IF proto = "hprose" THEN HproseParse(f, len) ELSE UcorfParse(f, len)

Left(s) == rx[s].bytes - rx[s].used

(* A mistake for the next definition, which no specification uses: the     *)
(* header is not counted.                                                  *)
WholeBody(s, i) ==
  LET f == Stream(s)[i]
  IN /\ f.start = rx[s].at + rx[s].used
     /\ Parse(f, Left(s)) # 0
     /\ f.body <= Left(s)

(* Frame i is the one that the loop has come to, and it is all there.      *)
Whole(s, i) ==
  LET f == Stream(s)[i]
      headLen == Parse(f, Left(s))
  IN /\ f.start = rx[s].at + rx[s].used
     /\ headLen # 0
     /\ headLen + f.body <= Left(s)

Ready(s) == Left(s) > 0 /\ \E i \in DOMAIN Stream(s) : Whole(s, i)

NextFrame(s) == CHOOSE i \in DOMAIN Stream(s) : Whole(s, i)

(* consume += head_len + follow_bytes                                      *)
UseFrame(s, f) ==
  rx' = [rx EXCEPT ![s].used = @ + Parse(f, Left(s)) + f.body]

-----------------------------------------------------------------------------
(* The session *)

(* ClientImpl::Call sends a request.                                       *)
Call ==
  /\ state = "open"
  /\ Len(reqs) < MaxReqs
  /\ \E f \in Request(Total("server")) : reqs' = Append(reqs, f)
  /\ UNCHANGED <<proto, maxPack, services, replies, rx, running, state,
                 handled, answered>>

(* More bytes have come, and OnReceiveData is called.                      *)
Receive(s) ==
  /\ state = "open"
  /\ rx[s].bytes = 0
  /\ \E got \in (rx[s].got + 1) .. Total(s) :
       /\ got - rx[s].at <= maxPack
       /\ rx' = [rx EXCEPT ![s].got = got, ![s].bytes = got - rx[s].at]
  /\ UNCHANGED <<proto, maxPack, services, reqs, replies, running, state,
                 handled, answered>>

(* The buffer is full, nothing could be consumed, and more has come.       *)
Overflow(s) ==
  /\ state = "open"
  /\ rx[s].bytes = 0
  /\ rx[s].got - rx[s].at = maxPack
  /\ rx[s].got < Total(s)
  /\ state' = "full"
  /\ UNCHANGED <<proto, maxPack, services, reqs, replies, rx, running, handled,
                 answered>>

Drop ==
  /\ state = "open"
  /\ state' = "lost"
  /\ UNCHANGED <<proto, maxPack, services, reqs, replies, rx, running, handled,
                 answered>>

(* OnReceiveData returns what it has consumed.                             *)
Return(s) ==
  /\ rx[s].bytes > 0
  /\ ~Ready(s)
  /\ rx' = [rx EXCEPT ![s].at = @ + rx[s].used, ![s].bytes = 0,
                      ![s].used = 0]
  /\ UNCHANGED <<proto, maxPack, services, reqs, replies, running, state,
                 handled, answered>>

-----------------------------------------------------------------------------
(* The server *)

(* DispatchMsg does not know the service: OnReceiveData returns -1, though *)
(* it may have dispatched other requests of the same buffer.               *)
Refuse ==
  /\ ~running
  /\ Ready("server")
  /\ reqs[NextFrame("server")].service \notin services
  /\ rx' = [rx EXCEPT !["server"].bytes = 0, !["server"].used = 0]
  /\ state' = "refused"
  /\ UNCHANGED <<proto, maxPack, services, reqs, replies, running, handled,
                 answered>>

(* DispatchMsg calls the service, which may give up the thread.            *)
Dispatch ==
  /\ ~running
  /\ Ready("server")
  /\ reqs[NextFrame("server")].service \in services
  /\ running' = TRUE
  /\ handled' = Append(handled, NextFrame("server"))
  /\ UNCHANGED <<proto, maxPack, services, reqs, replies, rx, state, answered>>

(* What is sent on a session that has ended is lost.                       *)
SendReply(i, head) ==
  IF state = "open"
  THEN \E body \in Body :
         replies' = Append(replies, [start |-> Total("client"), id |-> i,
                                     head |-> head, body |-> body])
  ELSE UNCHANGED replies

(* A mistake for the next action, which no specification uses: the type of *)
(* the request is not looked at.                                           *)
FinishReplies ==
  /\ running
  /\ running' = FALSE
  /\ LET i == NextFrame("server") IN
       /\ UseFrame("server", reqs[i])
       /\ SendReply(i, reqs[i].head)
  /\ UNCHANGED <<proto, maxPack, services, reqs, state, handled, answered>>

(* CallMethod returned.  Without a message, or with one that cannot be     *)
(* serialized, there is no reply.                                          *)
Finish ==
  /\ running
  /\ running' = FALSE
  /\ LET i == NextFrame("server") IN
       /\ UseFrame("server", reqs[i])
       /\ \/ ~IsOneway(reqs[i]) /\ SendReply(i, reqs[i].head)
          \/ UNCHANGED replies
  /\ UNCHANGED <<proto, maxPack, services, reqs, state, handled, answered>>

RegisterService(name) ==
  /\ name \notin services
  /\ services' = services \cup {name}
  /\ UNCHANGED <<proto, maxPack, reqs, replies, rx, running, state, handled,
                 answered>>

RemoveService(name) ==
  /\ name \in services
  /\ services' = services \ {name}
  /\ UNCHANGED <<proto, maxPack, reqs, replies, rx, running, state, handled,
                 answered>>

-----------------------------------------------------------------------------
(* The client calls OnResponse with a frame.                               *)
Respond ==
  /\ Ready("client")
  /\ LET f == replies[NextFrame("client")] IN
       /\ answered' = Append(answered, f.id)
       /\ UseFrame("client", f)
  /\ UNCHANGED <<proto, maxPack, services, reqs, replies, running, state,
                 handled>>

ReturnServer == ~running /\ Return("server")
ReturnClient == Return("client")

Next ==
  \/ Call
  \/ \E s \in Side : Receive(s) \/ Overflow(s)
  \/ Drop
  \/ ReturnServer \/ ReturnClient
  \/ Refuse \/ Dispatch \/ Finish
  \/ \E name \in Service : RegisterService(name) \/ RemoveService(name)
  \/ Respond

Spec == Init /\ [][Next]_vars

(* The network delivers, services return, and the coroutine of each stream *)
(* goes on.                                                                *)
FairSpec ==
  /\ Spec
  /\ \A s \in Side : WF_vars(Receive(s)) /\ WF_vars(Overflow(s))
  /\ WF_vars(ReturnServer) /\ WF_vars(ReturnClient)
  /\ WF_vars(Refuse \/ Dispatch) /\ WF_vars(Finish) /\ WF_vars(Respond)

-----------------------------------------------------------------------------
(* Properties *)

TypeOK ==
  /\ maxPack \in MaxPacks
  /\ services \subseteq Service
  /\ Len(reqs) <= MaxReqs
  /\ \A i \in DOMAIN reqs : reqs[i] \in Request(End(reqs, i - 1))
  /\ \A i \in DOMAIN replies :
       /\ replies[i].start = End(replies, i - 1)
       /\ replies[i].id \in 1..Len(reqs)
       /\ replies[i].head \in Fixed..(Fixed + MaxNames)
       /\ replies[i].body \in Body
  /\ \A s \in Side : /\ rx[s].used <= rx[s].bytes
                     /\ rx[s].at + rx[s].bytes <= rx[s].got
                     /\ rx[s].got <= Total(s)
                     /\ rx[s].got - rx[s].at <= maxPack
  /\ running => Ready("server")
  /\ state \in {"open", "lost", "refused", "full"}

(* However the streams are cut into buffers, and whatever is registered or *)
(* removed meanwhile, the connection is an Exchange: nothing is dispatched *)
(* twice, skipped or reordered, replies keep the order and the ids of      *)
(* their requests, a one-way request has none (but for an Hprose_Head,     *)
(* which cannot tell), and nothing follows a refusal.                      *)
Exch == INSTANCE Exchange WITH
          expects <- [i \in DOMAIN reqs |-> ~IsOneway(reqs[i])],
          replied <- [i \in DOMAIN replies |-> replies[i].id],
          refused <- state = "refused"
ExchSpec == Exch!Spec

(* The frame that an end has come to does not fit into the buffer.         *)
TooLarge(s) ==
  \E i \in DOMAIN Stream(s) : /\ Stream(s)[i].start = rx[s].at
                               /\ FrameSize(Stream(s)[i]) > maxPack

(* An end keeps as many bytes as uint16_t has values, or more: UcorfHead   *)
(* takes them for fewer.                                                   *)
Misread(s) == proto = "ucorf" /\ rx[s].got - rx[s].at >= LenMod

(* Neither end comes to rest with a whole frame in its buffer, and the     *)
(* session is not given up because of one: in the end every request was    *)
(* dispatched and every reply reached OnResponse, unless the session was   *)
(* lost, a request refused, or a frame is larger than the buffer.  With    *)
(* UcorfHead the only other reason is a buffer that has come to hold 2^16  *)
(* bytes or more, which takes one of that size.                            *)
NoStall ==
  <>[](\/ state \in {"lost", "refused"}
       \/ state = "full" /\ \E s \in Side : TooLarge(s)
       \/ \E s \in Side : Misread(s)
       \/ Len(handled) = Len(reqs) /\ Len(answered) = Len(replies))
=============================================================================
