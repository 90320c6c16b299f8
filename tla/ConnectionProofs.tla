-------------------------- MODULE ConnectionProofs --------------------------
(***************************************************************************)
(* Proofs about Connection, for every size of header, body, buffer and     *)
(* uint16_t, and every number of services and requests.                    *)
(***************************************************************************)
EXTENDS Connection, SequenceTheorems, TLAPS

-----------------------------------------------------------------------------
(* The inductive invariant *)

(* Frames lie one behind the other, and none is empty.                     *)
Chained(frames) ==
  /\ DOMAIN frames = 1..Len(frames) /\ Len(frames) \in Nat
  /\ \A i \in 1..Len(frames) :
       /\ frames[i].head \in Nat \ {0} /\ frames[i].body \in Nat
       /\ frames[i].start \in Nat
       /\ frames[i].start = End(frames, i - 1)
  /\ \A i, j \in 1..Len(frames) : i < j => End(frames, i) <= frames[j].start

(* What the application was given, and what it has not finished with.      *)
Taken(s) ==
  IF s = "client" THEN Len(answered)
  ELSE IF running THEN Len(handled) - 1 ELSE Len(handled)

(* The loop of OnReceiveData stands behind the last frame it has taken.    *)
Aligned(s) ==
  /\ Taken(s) \in 0..Len(Stream(s))
  /\ rx[s].at + rx[s].used = End(Stream(s), Taken(s))

Counts(s) ==
  /\ rx[s] \in [got : Nat, at : Nat, bytes : Nat, used : Nat]
  /\ rx[s].used <= rx[s].bytes
  /\ rx[s].at + rx[s].bytes <= rx[s].got
  /\ rx[s].got <= Total(s)
  /\ rx[s].got - rx[s].at <= maxPack

Rx ==
  /\ rx \in [Side -> [got : Nat, at : Nat, bytes : Nat, used : Nat]]
  /\ \A s \in Side : Counts(s)

RequestType ==
  [start : Nat, service : Service, oneway : BOOLEAN, head : Nat, body : Nat]
ReplyType == [start : Nat, id : Nat, head : Nat, body : Nat]

Requests ==
  /\ reqs \in Seq(RequestType) /\ Len(reqs) <= MaxReqs
  /\ \A i \in 1..Len(reqs) : reqs[i] \in Request(End(reqs, i - 1))
  /\ Chained(reqs)

(* A reply is to a request that is finished.                               *)
Replies ==
  /\ replies \in Seq(ReplyType)
  /\ \A i \in 1..Len(replies) :
       /\ replies[i].id \in 1..Taken("server")
       /\ replies[i].head \in Fixed..(Fixed + MaxNames)
       /\ replies[i].body \in Body
  /\ Chained(replies)

Histories ==
  /\ handled \in Seq(Nat) /\ \A i \in 1..Len(handled) : handled[i] = i
  /\ answered \in Seq(Nat)
  /\ \A i \in 1..Len(answered) : answered[i] = replies[i].id

ConnInv ==
  /\ maxPack \in MaxPacks
  /\ services \subseteq Service /\ running \in BOOLEAN
  /\ state \in {"open", "lost", "refused", "full"}
  /\ Requests /\ Replies /\ Histories /\ Rx
  /\ Aligned("client")
  /\ state # "refused" => Aligned("server")
  /\ Taken("server") \in 0..Len(reqs)
  /\ state = "refused" => rx["server"].bytes = 0
  /\ running => Ready("server") /\ handled # <<>>

-----------------------------------------------------------------------------
(* Streams *)

LEMMA EndOrder ==
  ASSUME NEW frames, Chained(frames)
  PROVE  /\ \A i \in 0..Len(frames) : End(frames, i) \in Nat
         /\ \A i, j \in 0..Len(frames) : i < j => End(frames, i) < End(frames, j)
  <1>1. \A i \in 1..Len(frames) : /\ frames[i].start \in Nat
                                  /\ FrameSize(frames[i]) \in Nat \ {0}
    BY DEF Chained, FrameSize
  <1>2. \A i \in 0..Len(frames) : End(frames, i) \in Nat
    BY <1>1 DEF End, Chained
  <1>3. ASSUME NEW i \in 0..Len(frames), NEW j \in 0..Len(frames), i < j
        PROVE  End(frames, i) < End(frames, j)
    <2>1. j \in 1..Len(frames) /\ Len(frames) \in Nat
      BY <1>3 DEF Chained
    <2>2. End(frames, j) = frames[j].start + FrameSize(frames[j])
      BY <2>1 DEF End
    <2>3. End(frames, i) <= frames[j].start
      <3>1. CASE i = 0
        BY <1>1, <2>1, <3>1 DEF End
      <3>2. CASE i # 0
        BY <1>3, <2>1, <3>2 DEF Chained
      <3> QED
        BY <3>1, <3>2
    <2> QED
      BY <1>1, <1>2, <2>1, <2>2, <2>3
  <1> QED
    BY <1>2, <1>3

(* A frame that starts where the first k end is the next one.              *)
LEMMA NextByStart ==
  ASSUME NEW frames, Chained(frames), NEW k \in 0..Len(frames),
         NEW i \in 1..Len(frames), frames[i].start = End(frames, k)
  PROVE  i = k + 1 /\ End(frames, i) = End(frames, k) + FrameSize(frames[i])
  <1>1. Len(frames) \in Nat /\ End(frames, i - 1) = End(frames, k)
    BY DEF Chained
  <1>2. i - 1 \in 0..Len(frames)
    BY <1>1
  <1>3. ~(i - 1 < k) /\ ~(k < i - 1)
    BY <1>1, <1>2, EndOrder
  <1> QED
    BY <1>1, <1>3 DEF End

LEMMA AppendChained ==
  ASSUME NEW frames, Chained(frames), NEW new, NEW f,
         DOMAIN new = 1..(Len(frames) + 1), Len(new) = Len(frames) + 1,
         \A i \in 1..Len(frames) : new[i] = frames[i], new[Len(frames) + 1] = f,
         f.start = End(frames, Len(frames)), f.head \in Nat \ {0}, f.body \in Nat
  PROVE  /\ Chained(new)
         /\ \A i \in 0..Len(frames) : End(new, i) = End(frames, i)
         /\ End(new, Len(new)) = End(frames, Len(frames)) + FrameSize(f)
  <1> DEFINE n == Len(frames)
  <1>1. n \in Nat /\ Len(new) = n + 1
    BY DEF Chained
  <1>2. \A i \in 0..n : End(new, i) = End(frames, i) /\ End(frames, i) \in Nat
    BY <1>1, EndOrder DEF End
  <1>3. End(new, n + 1) = End(frames, n) + FrameSize(f)
    BY <1>1 DEF End
  <1>4. ASSUME NEW i \in 1..(n + 1)
        PROVE  /\ new[i].head \in Nat \ {0} /\ new[i].body \in Nat
               /\ new[i].start \in Nat /\ new[i].start = End(new, i - 1)
    <2>1. CASE i = n + 1
      <3>1. new[i] = f /\ i - 1 = n /\ n \in 0..n
        BY <1>1, <2>1
      <3>2. f.start = End(new, n) /\ End(new, n) \in Nat
        BY <1>2, <3>1
      <3> QED
        BY <3>1, <3>2
    <2>2. CASE i # n + 1
      <3>1. i \in 1..n /\ i - 1 \in 0..n
        BY <1>1, <2>2
      <3> QED
        BY <1>2, <3>1 DEF Chained
    <2> QED
      BY <2>1, <2>2
  <1>5. ASSUME NEW i \in 1..(n + 1), NEW j \in 1..(n + 1), i < j
        PROVE  End(new, i) <= new[j].start
    <2>1. i \in 1..n
      BY <1>1, <1>5
    <2>2. CASE j = n + 1
      BY <1>1, <1>2, <2>1, <2>2, EndOrder
    <2>3. CASE j # n + 1
      <3>1. j \in 1..n /\ new[j] = frames[j]
        BY <1>1, <2>3
      <3>2. End(frames, i) <= frames[j].start
        BY <1>5, <2>1, <3>1 DEF Chained
      <3>3. End(new, i) = End(frames, i)
        BY <1>1, <1>2, <2>1
      <3> QED
        BY <3>1, <3>2, <3>3
    <2> QED
      BY <2>2, <2>3
  <1> QED
    BY <1>1, <1>2, <1>3, <1>4, <1>5 DEF Chained

LEMMA ParseShape ==
  ASSUME NEW f, NEW len
  PROVE  Parse(f, len) = 0 \/ Parse(f, len) = f.head
  BY DEF Parse, HproseParse, UcorfParse

(* The frame that OnReceiveData takes next is the one behind those taken.  *)
LEMMA NextTaken ==
  ASSUME ConnInv, NEW s \in Side, Aligned(s), NEW i \in DOMAIN Stream(s), Whole(s, i)
  PROVE  /\ i = Taken(s) + 1 /\ i \in 1..Len(Stream(s)) /\ Taken(s) \in Nat
         /\ Parse(Stream(s)[i], Left(s)) + Stream(s)[i].body = FrameSize(Stream(s)[i])
         /\ FrameSize(Stream(s)[i]) \in Nat
         /\ rx[s].used + FrameSize(Stream(s)[i]) <= rx[s].bytes
         /\ rx[s].at + rx[s].used + FrameSize(Stream(s)[i]) = End(Stream(s), i)
  <1>1. Chained(Stream(s)) /\ Counts(s)
    BY DEF ConnInv, Requests, Replies, Rx, Stream, Side
  <1>2. i \in 1..Len(Stream(s)) /\ Len(Stream(s)) \in Nat
    BY <1>1 DEF Chained
  <1>3. /\ Stream(s)[i].start = rx[s].at + rx[s].used
        /\ Parse(Stream(s)[i], Left(s)) # 0
        /\ Parse(Stream(s)[i], Left(s)) + Stream(s)[i].body <= Left(s)
    BY DEF Whole
  <1>4. Parse(Stream(s)[i], Left(s)) = Stream(s)[i].head
    BY <1>3, ParseShape
  <1>5. /\ Stream(s)[i].head \in Nat /\ Stream(s)[i].body \in Nat
    BY <1>1, <1>2 DEF Chained
  <1>6. /\ Taken(s) \in 0..Len(Stream(s))
        /\ Stream(s)[i].start = End(Stream(s), Taken(s))
    BY <1>3 DEF Aligned
  <1>7. /\ i = Taken(s) + 1
        /\ End(Stream(s), i) = End(Stream(s), Taken(s)) + FrameSize(Stream(s)[i])
    BY <1>1, <1>2, <1>6, NextByStart
  <1>8. rx[s].at \in Nat /\ rx[s].used \in Nat /\ rx[s].bytes \in Nat
    BY <1>1 DEF Counts
  <1>9. rx[s].used + FrameSize(Stream(s)[i]) <= rx[s].bytes
    BY <1>3, <1>4, <1>5, <1>8 DEF Left, FrameSize
  <1> QED
    BY <1>2, <1>3, <1>4, <1>5, <1>6, <1>7, <1>8, <1>9 DEF FrameSize

LEMMA NextFrameTaken ==
  ASSUME ConnInv, NEW s \in Side, Aligned(s), Ready(s)
  PROVE  /\ Whole(s, NextFrame(s)) /\ NextFrame(s) \in DOMAIN Stream(s)
         /\ NextFrame(s) = Taken(s) + 1
  <1>1. Whole(s, NextFrame(s)) /\ NextFrame(s) \in DOMAIN Stream(s)
    BY DEF Ready, NextFrame
  <1> QED
    BY <1>1, NextTaken

(* The server does not hold bytes after it has refused a request.          *)
LEMMA ServerAligned ==
  ASSUME ConnInv, Ready("server")
  PROVE  state # "refused" /\ Aligned("server")
  <1>1. Counts("server")
    BY DEF ConnInv, Rx, Side
  <1>2. rx["server"].bytes # 0
    BY <1>1 DEF Ready, Left, Counts
  <1> QED
    BY <1>2 DEF ConnInv

-----------------------------------------------------------------------------
(* The steps *)

(* What no step of the receiving ends and the service changes.             *)
LEMMA StreamsKeep ==
  ASSUME ConnInv, UNCHANGED <<proto, reqs>>
  PROVE  Requests'
  BY DEF ConnInv, Requests, Request, UcorfRequest, HproseRequest, End,
     FrameSize, Chained

(* A frame that is all there stays so while its buffer is not touched.     *)
LEMMA ReadyStays ==
  ASSUME ConnInv, NEW s \in Side, UNCHANGED proto, rx'[s] = rx[s],
         DOMAIN Stream(s) \subseteq DOMAIN Stream(s)',
         \A i \in DOMAIN Stream(s) : Stream(s)'[i] = Stream(s)[i]
  PROVE  /\ Ready(s) => Ready(s)'
         /\ \A i \in DOMAIN Stream(s) : Whole(s, i)' <=> Whole(s, i)
  <1>1. Left(s)' = Left(s)
    BY DEF Left
  <1>2. \A f : Parse(f, Left(s))' = Parse(f, Left(s))
    BY <1>1 DEF Parse, HproseParse, UcorfParse
  <1>3. \A i \in DOMAIN Stream(s) : Whole(s, i)' <=> Whole(s, i)
    BY <1>1, <1>2 DEF Whole
  <1> QED
    BY <1>1, <1>3 DEF Ready

RxType == [got : Nat, at : Nat, bytes : Nat, used : Nat]

LEMMA StreamEnd ==
  ASSUME ConnInv, NEW s \in Side
  PROVE  /\ Chained(Stream(s)) /\ Len(Stream(s)) \in Nat
         /\ Total(s) \in Nat
         /\ rx \in [Side -> RxType] /\ rx[s] \in RxType /\ Counts(s)
         /\ maxPack \in Nat
  <1>1. Chained(Stream(s)) /\ Len(Stream(s)) \in Nat
    BY DEF Stream, ConnInv, Requests, Replies, Chained
  <1>2. Len(Stream(s)) \in 0..Len(Stream(s))
    BY <1>1
  <1>3. Total(s) \in Nat
    BY <1>1, <1>2, EndOrder DEF Total
  <1> QED
    BY <1>1, <1>3, ConnectionAssumption DEF ConnInv, Rx, RxType

LEMMA TotalKept ==
  ASSUME ConnInv, UNCHANGED <<reqs, replies>>
  PROVE  \A o \in Side : Total(o)' \in Nat /\ Total(o) \in Nat /\ Total(o) <= Total(o)'
  BY StreamEnd DEF Total, Stream

LEMMA RxStep ==
  ASSUME ConnInv, NEW s \in Side, rx' \in [Side -> RxType],
         UNCHANGED maxPack, \A o \in Side : o # s => rx'[o] = rx[o],
         rx'[s].used <= rx'[s].bytes, rx'[s].at + rx'[s].bytes <= rx'[s].got,
         rx'[s].got <= Total(s), rx'[s].got - rx'[s].at <= maxPack,
         \A o \in Side : Total(o)' \in Nat /\ Total(o) \in Nat /\ Total(o) <= Total(o)'
  PROVE  Rx'
  <1>1. Counts(s)'
    <2>1. rx'[s] \in RxType /\ maxPack' = maxPack
      OBVIOUS
    <2>2. rx'[s].got \in Nat /\ Total(s) \in Nat /\ Total(s)' \in Nat
      BY <2>1 DEF RxType
    <2>3. rx'[s].got <= Total(s)'
      BY <2>2
    <2> QED
      BY <2>1, <2>3 DEF Counts, RxType
  <1>2. \A o \in Side : o # s => Counts(o)'
    <2> SUFFICES ASSUME NEW o \in Side, o # s PROVE Counts(o)'
      OBVIOUS
    <2>1. /\ rx \in [Side -> RxType] /\ Counts(o) /\ rx'[o] = rx[o]
          /\ maxPack' = maxPack
      BY StreamEnd
    <2>2. rx[o].got \in Nat /\ rx[o].got <= Total(o)'
      BY <2>1 DEF Counts, RxType
    <2> QED
      BY <2>1, <2>2 DEF Counts
  <1> QED
    BY <1>1, <1>2 DEF Rx, RxType

LEMMA ReceiveStep ==
  ASSUME ConnInv, NEW s \in Side, Receive(s)
  PROVE  ConnInv'
  <1>1. /\ rx \in [Side -> RxType] /\ Counts(s) /\ rx[s] \in RxType /\ Total(s) \in Nat
    BY StreamEnd
  <1>2. /\ state = "open" /\ rx[s].bytes = 0
        /\ UNCHANGED <<proto, maxPack, services, reqs, replies, running, state, handled, answered>>
    BY DEF Receive
  <1>3. PICK got \in (rx[s].got + 1) .. Total(s) :
          /\ got - rx[s].at <= maxPack
          /\ rx' = [rx EXCEPT ![s].got = got, ![s].bytes = got - rx[s].at]
    BY DEF Receive
  <1>4. got \in Nat /\ got - rx[s].at \in Nat
    BY <1>1, <1>3 DEF Counts, RxType
  <1>5. /\ rx' \in [Side -> RxType] /\ \A o \in Side : o # s => rx'[o] = rx[o]
        /\ rx'[s].got = got /\ rx'[s].bytes = got - rx[s].at
        /\ rx'[s].at = rx[s].at /\ rx'[s].used = rx[s].used
    BY <1>1, <1>3, <1>4 DEF RxType
  <1>6. Rx'
    <2>1. /\ rx'[s].used <= rx'[s].bytes /\ rx'[s].at + rx'[s].bytes <= rx'[s].got
          /\ rx'[s].got <= Total(s) /\ rx'[s].got - rx'[s].at <= maxPack
      BY <1>1, <1>2, <1>3, <1>4, <1>5 DEF Counts, RxType
    <2> QED
      BY <1>2, <1>5, <2>1, TotalKept, RxStep
  <1>7. Aligned("client")' /\ Aligned("server")'
    BY <1>2, <1>5 DEF ConnInv, Aligned, Taken, Stream, Side
  <1>8. running => s # "server"
    <2>1. running => Left("server") > 0
      BY DEF ConnInv, Ready
    <2>2. rx[s].bytes = 0 /\ rx[s].used <= 0 /\ rx[s].used \in Nat
      BY <1>1, <1>2 DEF Counts, RxType
    <2>3. Left(s) = 0
      BY <2>2 DEF Left
    <2> QED
      BY <2>1, <2>3
  <1>9. running => Ready("server")'
    BY <1>2, <1>5, <1>8, ReadyStays DEF ConnInv, Stream, Side
  <1>10. Requests' /\ Replies' /\ Histories'
    BY <1>2, StreamsKeep DEF ConnInv, Replies, Histories, Taken, Chained, End,
       FrameSize
  <1> QED
    BY <1>2, <1>6, <1>7, <1>9, <1>10 DEF ConnInv, Taken

LEMMA Kept ==
  ASSUME ConnInv, UNCHANGED <<proto, maxPack, reqs, replies, running, handled, answered>>
  PROVE  /\ Requests' /\ Replies' /\ Histories'
         /\ Taken("server")' \in 0..Len(reqs')
  BY StreamsKeep DEF ConnInv, Replies, Histories, Taken, Chained, End,
     FrameSize

(* Steps of the session and of the list of services.                       *)
LEMMA IdleStep ==
  ASSUME ConnInv, UNCHANGED <<proto, maxPack, reqs, replies, rx, running, handled, answered>>,
         services' \subseteq Service, state' \in {"open", "lost", "refused", "full"},
         state' = "refused" <=> state = "refused"
  PROVE  ConnInv'
  <1>1. Rx'
    BY DEF ConnInv, Rx, Counts, Total, Stream
  <1>2. /\ Aligned("client")' <=> Aligned("client")
        /\ Aligned("server")' <=> Aligned("server")
    BY DEF Aligned, Taken, Stream
  <1>3. running => Ready("server")'
    BY ReadyStays DEF ConnInv, Stream, Side
  <1> QED
    BY <1>1, <1>2, <1>3, Kept DEF ConnInv

LEMMA ReturnStep ==
  ASSUME ConnInv, NEW s \in Side, Return(s), s = "server" => ~running
  PROVE  ConnInv'
  <1>1. /\ rx \in [Side -> RxType] /\ Counts(s) /\ rx[s] \in RxType
        /\ maxPack \in Nat
    BY StreamEnd
  <1>2. /\ rx' = [rx EXCEPT ![s].at = @ + rx[s].used, ![s].bytes = 0, ![s].used = 0]
        /\ UNCHANGED <<proto, maxPack, services, reqs, replies, running, state, handled, answered>>
    BY DEF Return
  <1>3. rx[s].at + rx[s].used \in Nat
    BY <1>1 DEF RxType
  <1>4. /\ rx' \in [Side -> RxType] /\ \A o \in Side : o # s => rx'[o] = rx[o]
        /\ rx'[s].got = rx[s].got /\ rx'[s].bytes = 0
        /\ rx'[s].at = rx[s].at + rx[s].used /\ rx'[s].used = 0
    BY <1>1, <1>2, <1>3 DEF RxType
  <1>5. Rx'
    <2>1. /\ rx'[s].used <= rx'[s].bytes /\ rx'[s].at + rx'[s].bytes <= rx'[s].got
          /\ rx'[s].got <= Total(s) /\ rx'[s].got - rx'[s].at <= maxPack
      BY <1>1, <1>4, ConnectionAssumption DEF Counts, RxType
    <2> QED
      BY <1>2, <1>4, <2>1, TotalKept, RxStep
  <1>6. /\ Aligned("client")' <=> Aligned("client")
        /\ Aligned("server")' <=> Aligned("server")
    <2>1. \A o \in Side : rx'[o].at + rx'[o].used = rx[o].at + rx[o].used
      BY <1>1, <1>4 DEF RxType
    <2> QED
      BY <1>2, <2>1 DEF Aligned, Taken, Stream, Side
  <1>7. running => Ready("server")'
    BY <1>2, <1>4, ReadyStays DEF ConnInv, Stream, Side
  <1>8. state = "refused" => rx'["server"].bytes = 0
    BY <1>4 DEF ConnInv, Side
  <1> QED
    BY <1>2, <1>5, <1>6, <1>7, <1>8, Kept DEF ConnInv

LEMMA RefuseStep ==
  ASSUME ConnInv, Refuse
  PROVE  ConnInv'
  <1> DEFINE s == "server"
  <1>1. /\ s \in Side /\ rx \in [Side -> RxType] /\ Counts(s) /\ rx[s] \in RxType
    BY StreamEnd DEF Side
  <1>2. /\ rx' = [rx EXCEPT ![s].bytes = 0, ![s].used = 0]
        /\ ~running /\ state' = "refused"
        /\ UNCHANGED <<proto, maxPack, services, reqs, replies, running, handled, answered>>
    BY DEF Refuse
  <1>3. /\ rx' \in [Side -> RxType] /\ \A o \in Side : o # s => rx'[o] = rx[o]
        /\ rx'[s].got = rx[s].got /\ rx'[s].bytes = 0
        /\ rx'[s].at = rx[s].at /\ rx'[s].used = 0
    BY <1>1, <1>2 DEF RxType
  <1>4. Rx'
    <2>1. /\ rx'[s].used <= rx'[s].bytes /\ rx'[s].at + rx'[s].bytes <= rx'[s].got
          /\ rx'[s].got <= Total(s) /\ rx'[s].got - rx'[s].at <= maxPack
      BY <1>1, <1>3, ConnectionAssumption DEF Counts, RxType
    <2> QED
      BY <1>1, <1>2, <1>3, <2>1, TotalKept, RxStep
  <1>5. Aligned("client")' <=> Aligned("client")
    BY <1>2, <1>3 DEF Aligned, Taken, Stream, Side
  <1> QED
    BY <1>2, <1>3, <1>4, <1>5, Kept DEF ConnInv

LEMMA DispatchStep ==
  ASSUME ConnInv, Dispatch
  PROVE  ConnInv' /\ state # "refused" /\ Len(handled) < Len(reqs)
         /\ handled' = Append(handled, Len(handled) + 1)
  <1>1. /\ ~running /\ Ready("server") /\ running' = TRUE
        /\ handled' = Append(handled, NextFrame("server"))
        /\ UNCHANGED <<proto, maxPack, services, reqs, replies, rx, state, answered>>
    BY DEF Dispatch
  <1>2. state # "refused" /\ Aligned("server") /\ Taken("server") = Len(handled)
    BY <1>1, ServerAligned DEF Taken
  <1>3. /\ NextFrame("server") = Len(handled) + 1
        /\ Len(handled) + 1 \in 1..Len(reqs)
    <2>1. /\ "server" \in Side /\ Whole("server", NextFrame("server"))
          /\ NextFrame("server") \in DOMAIN Stream("server")
          /\ NextFrame("server") = Len(handled) + 1
      BY <1>1, <1>2, NextFrameTaken DEF Side
    <2>2. NextFrame("server") \in 1..Len(Stream("server"))
      BY <1>2, <2>1, NextTaken
    <2> QED
      BY <2>1, <2>2 DEF Stream
  <1>4. handled \in Seq(Nat) /\ Len(handled) \in Nat /\ Len(reqs) \in Nat
    BY DEF ConnInv, Histories, Requests, Chained
  <1>5. /\ handled' \in Seq(Nat) /\ Len(handled') = Len(handled) + 1
        /\ \A i \in 1..Len(handled') : handled'[i] = i
    <2>1. handled' = Append(handled, Len(handled) + 1)
      BY <1>1, <1>3
    <2>2. /\ handled' \in Seq(Nat) /\ Len(handled') = Len(handled) + 1
          /\ handled'[Len(handled) + 1] = Len(handled) + 1
          /\ \A i \in 1..Len(handled) : handled'[i] = handled[i]
      BY <1>4, <2>1
    <2>3. \A i \in 1..Len(handled) : handled[i] = i
      BY DEF ConnInv, Histories
    <2>4. ASSUME NEW i \in 1..Len(handled') PROVE handled'[i] = i
      <3>1. i = Len(handled) + 1 \/ i \in 1..Len(handled)
        BY <1>4, <2>2
      <3> QED
        BY <2>2, <2>3, <3>1
    <2> QED
      BY <2>2, <2>4
  <1>6. Taken("server")' = Taken("server")
    BY <1>1, <1>4, <1>5 DEF Taken
  <1>7. Requests' /\ Replies' /\ Histories' /\ Taken("server")' \in 0..Len(reqs')
    BY <1>1, <1>5, <1>6, StreamsKeep DEF ConnInv, Replies, Histories, Chained,
       End, FrameSize
  <1>8. Rx'
    BY <1>1 DEF ConnInv, Rx, Counts, Total, Stream
  <1>9. /\ Aligned("client")' <=> Aligned("client")
        /\ Aligned("server")' <=> Aligned("server")
    BY <1>1, <1>6 DEF Aligned, Taken, Stream
  <1>10. Ready("server")' /\ handled' # <<>>
    BY <1>1, <1>4, <1>5, ReadyStays DEF ConnInv, Stream, Side
  <1> QED
    BY <1>1, <1>2, <1>3, <1>4, <1>7, <1>8, <1>9, <1>10 DEF ConnInv

LEMMA ReplyGrows ==
  ASSUME ConnInv, NEW i \in 1..Len(reqs), SendReply(i, reqs[i].head)
  PROVE  /\ replies' \in Seq(ReplyType) /\ Chained(replies')
         /\ Len(replies') \in Nat /\ Len(replies) \in Nat /\ Len(replies) <= Len(replies')
         /\ \A k \in 0..Len(replies) : End(replies', k) = End(replies, k)
         /\ End(replies', Len(replies')) \in Nat
         /\ End(replies, Len(replies)) <= End(replies', Len(replies'))
         /\ \A k \in 1..Len(replies) : replies'[k] = replies[k]
         /\ \A k \in (Len(replies) + 1)..Len(replies') :
              /\ replies'[k].id = i /\ replies'[k].head \in Fixed..(Fixed + MaxNames)
              /\ replies'[k].body \in Body
         /\ \/ UNCHANGED replies
            \/ /\ Len(replies') = Len(replies) + 1
               /\ replies'[Len(replies')].id = i
  <1>1. /\ replies \in Seq(ReplyType) /\ Chained(replies)
        /\ Len(replies) \in Nat /\ End(replies, Len(replies)) \in Nat
    BY StreamEnd DEF ConnInv, Replies, Side, Stream, Total
  <1>2. CASE state # "open"
    BY <1>1, <1>2 DEF SendReply
  <1>3. CASE state = "open"
    <2>1. PICK body \in Body :
            replies' = Append(replies, [start |-> Total("client"), id |-> i,
                                        head |-> reqs[i].head, body |-> body])
      BY <1>3 DEF SendReply
    <2> DEFINE f == [start |-> Total("client"), id |-> i, head |-> reqs[i].head, body |-> body]
    <2>2. reqs[i].head \in Fixed..(Fixed + MaxNames) /\ Fixed \in Nat \ {0} /\ MaxNames \in Nat
      <3>1. reqs[i] \in Request(End(reqs, i - 1))
        BY DEF ConnInv, Requests
      <3>2. reqs[i].head \in Fixed..(Fixed + MaxNames) \cup {Fixed}
        BY <3>1 DEF Request, UcorfRequest, HproseRequest
      <3> QED
        BY <3>2, ConnectionAssumption
    <2>3. body \in Nat /\ i \in Nat
      BY ConnectionAssumption
    <2>4. f.start = End(replies, Len(replies))
      BY DEF Total, Stream
    <2>5. /\ f \in ReplyType /\ f.head \in Nat \ {0} /\ f.body \in Nat /\ f.id = i
          /\ f.head \in Fixed..(Fixed + MaxNames) /\ f.body \in Body
      <3>1. Total("client") \in Nat
        BY <1>1, <2>4
      <3> QED
        BY <2>2, <2>3, <3>1 DEF ReplyType
    <2> HIDE DEF f
    <2>6. /\ replies' \in Seq(ReplyType) /\ Len(replies') = Len(replies) + 1
          /\ replies'[Len(replies) + 1] = f
          /\ \A k \in 1..Len(replies) : replies'[k] = replies[k]
          /\ DOMAIN replies' = 1..(Len(replies) + 1)
      <3>1. replies' = Append(replies, f)
        BY <2>1 DEF f
      <3> QED
        BY <1>1, <2>5, <3>1
    <2>7. /\ Chained(replies')
          /\ \A k \in 0..Len(replies) : End(replies', k) = End(replies, k)
          /\ End(replies', Len(replies')) = End(replies, Len(replies)) + FrameSize(f)
      BY <1>1, <2>4, <2>5, <2>6, AppendChained
    <2>8. FrameSize(f) \in Nat
      BY <2>5 DEF FrameSize
    <2>9. ASSUME NEW k \in (Len(replies) + 1)..Len(replies') PROVE replies'[k] = f
      BY <1>1, <2>6
    <2> QED
      BY <1>1, <2>5, <2>6, <2>7, <2>8, <2>9
  <1> QED
    BY <1>2, <1>3

LEMMA FinishStep ==
  ASSUME ConnInv, Finish
  PROVE  /\ ConnInv' /\ handled # <<>>
         /\ \/ UNCHANGED replies
            \/ /\ ~IsOneway(reqs[Len(handled)])
               /\ \A i \in DOMAIN replies : replies[i].id # Len(handled)
               /\ Len(replies') = Len(replies) + 1
               /\ replies'[Len(replies')].id = Len(handled)
               /\ \A k \in 1..Len(replies) : replies'[k] = replies[k]
  <1> DEFINE i == NextFrame("server")
             r == rx["server"]
  <1>1. /\ running /\ running' = FALSE /\ Ready("server") /\ handled # <<>>
        /\ UseFrame("server", reqs[i])
        /\ (~IsOneway(reqs[i]) /\ SendReply(i, reqs[i].head)) \/ UNCHANGED replies
        /\ UNCHANGED <<proto, maxPack, services, reqs, state, handled, answered>>
    BY DEF Finish, ConnInv
  <1>2. /\ state # "refused" /\ Aligned("server") /\ "server" \in Side
        /\ Len(handled) \in Nat \ {0}
    BY <1>1, ServerAligned DEF Side, ConnInv, Histories
  <1>3. Taken("server") = Len(handled) - 1 /\ Taken("server")' = Len(handled)
    BY <1>1 DEF Taken
  <1>4. /\ Whole("server", i) /\ i \in DOMAIN Stream("server")
        /\ i = Len(handled)
    BY <1>1, <1>2, <1>3, NextFrameTaken
  <1>5. /\ i \in 1..Len(reqs)
        /\ Parse(reqs[i], Left("server")) + reqs[i].body = FrameSize(reqs[i])
        /\ FrameSize(reqs[i]) \in Nat
        /\ r.used + FrameSize(reqs[i]) <= r.bytes
        /\ r.at + r.used + FrameSize(reqs[i]) = End(reqs, i)
    BY <1>2, <1>4, NextTaken DEF Stream
  <1>6. /\ rx \in [Side -> RxType] /\ Counts("server") /\ r \in RxType
        /\ Len(replies) \in Nat /\ Len(reqs) \in Nat
        /\ \A s \in Side : Total(s) \in Nat
    BY StreamEnd DEF Side, ConnInv, Requests, Replies, Chained
  <1>7. /\ rx' \in [Side -> RxType] /\ \A o \in Side : o # "server" => rx'[o] = rx[o]
        /\ rx'["server"].got = r.got /\ rx'["server"].bytes = r.bytes
        /\ rx'["server"].at = r.at /\ rx'["server"].used = r.used + FrameSize(reqs[i])
    <2>1. rx' = [rx EXCEPT !["server"].used = @ + Parse(reqs[i], Left("server")) + reqs[i].body]
      BY <1>1 DEF UseFrame
    <2> DEFINE u == r.used + Parse(reqs[i], Left("server")) + reqs[i].body
    <2>2. rx' = [rx EXCEPT !["server"].used = u]
      BY <2>1
    <2>3. u = r.used + FrameSize(reqs[i]) /\ u \in Nat
      <3>1. reqs[i].body \in Nat /\ Parse(reqs[i], Left("server")) \in Nat /\ r.used \in Nat
        <4>1. reqs[i].body \in Nat /\ reqs[i].head \in Nat
          BY <1>5 DEF ConnInv, Requests, Chained
        <4> QED
          BY <1>6, <4>1, ParseShape DEF RxType
      <3> QED
        BY <1>5, <3>1
    <2> HIDE DEF u
    <2> QED
      BY <1>2, <1>6, <2>2, <2>3 DEF RxType
  <1>8. \/ UNCHANGED replies
        \/ ~IsOneway(reqs[i]) /\ SendReply(i, reqs[i].head)
    BY <1>1
  <1> HIDE DEF i, r
  <1>9. /\ replies' \in Seq(ReplyType) /\ Chained(replies')
        /\ Len(replies') \in Nat /\ Len(replies) <= Len(replies')
        /\ \A k \in 0..Len(replies) : End(replies', k) = End(replies, k)
        /\ End(replies', Len(replies')) \in Nat
        /\ End(replies, Len(replies)) <= End(replies', Len(replies'))
        /\ \A k \in 1..Len(replies) : replies'[k] = replies[k]
        /\ \A k \in (Len(replies) + 1)..Len(replies') :
              /\ replies'[k].id = i /\ replies'[k].head \in Fixed..(Fixed + MaxNames)
              /\ replies'[k].body \in Body
    <2>1. CASE UNCHANGED replies
      <3>1. Total("client") \in Nat
        BY <1>6 DEF Side
      <3> QED
        BY <1>6, <2>1, <3>1 DEF ConnInv, Replies, Total, Stream
    <2>2. CASE SendReply(i, reqs[i].head)
      BY <1>5, <2>2, ReplyGrows
    <2> QED
      BY <1>8, <2>1, <2>2
  <1>10. \A o \in Side : Total(o)' \in Nat /\ Total(o) \in Nat /\ Total(o) <= Total(o)'
    BY <1>1, <1>6, <1>9 DEF Total, Stream, Side
  <1>11. Rx'
    <2>1. /\ rx'["server"].used <= rx'["server"].bytes
          /\ rx'["server"].at + rx'["server"].bytes <= rx'["server"].got
          /\ rx'["server"].got <= Total("server") /\ rx'["server"].got - rx'["server"].at <= maxPack
      BY <1>5, <1>6, <1>7 DEF Counts, r
    <2> QED
      BY <1>1, <1>2, <1>7, <1>10, <2>1, RxStep
  <1>12. Aligned("server")' /\ Taken("server")' \in 0..Len(reqs')
    <2>1. rx'["server"].at + rx'["server"].used = End(reqs, i)
      BY <1>5, <1>6, <1>7 DEF RxType, r
    <2>2. i = Taken("server")' /\ i \in 0..Len(reqs)
      BY <1>3, <1>4, <1>5
    <2> QED
      BY <1>1, <2>1, <2>2 DEF Aligned, Stream
  <1>13. Aligned("client")'
    <2>1. Taken("client")' = Taken("client") /\ rx'["client"] = rx["client"]
      BY <1>1, <1>7 DEF Taken, Side
    <2>2. Aligned("client") /\ Taken("client") \in 0..Len(replies)
      BY DEF ConnInv, Aligned, Stream
    <2> QED
      BY <1>6, <1>9, <2>1, <2>2 DEF Aligned, Stream
  <1>14. Requests' /\ Histories'
    <2>1. \A k \in 1..Len(answered) : answered[k] = replies'[k].id
      <3>1. Len(answered) <= Len(replies) /\ Len(answered) \in Nat
        BY <1>6 DEF ConnInv, Aligned, Taken, Stream, Histories
      <3>2. \A k \in 1..Len(answered) : answered[k] = replies[k].id
        BY DEF ConnInv, Histories
      <3>3. \A k \in 1..Len(answered) : k \in 1..Len(replies)
        BY <1>6, <3>1
      <3>4. \A k \in 1..Len(replies) : replies'[k] = replies[k]
        BY <1>9
      <3> QED
        BY <3>2, <3>3, <3>4
    <2> QED
      BY <1>1, <2>1, StreamsKeep DEF ConnInv, Histories
  <1>15. Replies'
    <2>1. ASSUME NEW k \in 1..Len(replies')
          PROVE  /\ replies'[k].id \in 1..Len(handled)
                 /\ replies'[k].head \in Fixed..(Fixed + MaxNames)
                 /\ replies'[k].body \in Body
      <3>1. CASE k \in 1..Len(replies)
        BY <1>2, <1>3, <1>9, <3>1 DEF ConnInv, Replies
      <3>2. CASE k \in (Len(replies) + 1)..Len(replies')
        BY <1>2, <1>4, <1>9, <3>2
      <3> QED
        BY <1>6, <1>9, <3>1, <3>2
    <2> QED
      BY <1>3, <1>9, <2>1 DEF Replies
  <1>16. ConnInv'
    BY <1>1, <1>2, <1>11, <1>12, <1>13, <1>14, <1>15 DEF ConnInv
  <1>17. \A k \in DOMAIN replies : replies[k].id # Len(handled)
    BY <1>2, <1>3 DEF ConnInv, Replies, Chained
  <1>18. CASE SendReply(i, reqs[i].head) /\ ~IsOneway(reqs[i])
    BY <1>1, <1>4, <1>5, <1>16, <1>17, <1>18, ReplyGrows
  <1> QED
    BY <1>1, <1>8, <1>16, <1>18

LEMMA RespondStep ==
  ASSUME ConnInv, Respond
  PROVE  /\ ConnInv' /\ Len(answered) < Len(replies)
         /\ answered' = Append(answered, replies[Len(answered) + 1].id)
  <1> DEFINE i == NextFrame("client")
             r == rx["client"]
  <1>1. /\ Ready("client") /\ UseFrame("client", replies[i])
        /\ answered' = Append(answered, replies[i].id)
        /\ UNCHANGED <<proto, maxPack, services, reqs, replies, running, state, handled>>
    BY DEF Respond
  <1>2. Aligned("client") /\ "client" \in Side /\ Taken("client") = Len(answered)
    BY DEF ConnInv, Side, Taken
  <1>3. /\ Whole("client", i) /\ i \in DOMAIN Stream("client")
        /\ i = Len(answered) + 1
    BY <1>1, <1>2, NextFrameTaken
  <1>4. /\ i \in 1..Len(replies)
        /\ Parse(replies[i], Left("client")) + replies[i].body = FrameSize(replies[i])
        /\ FrameSize(replies[i]) \in Nat
        /\ r.used + FrameSize(replies[i]) <= r.bytes
        /\ r.at + r.used + FrameSize(replies[i]) = End(replies, i)
    BY <1>2, <1>3, NextTaken DEF Stream
  <1>5. /\ rx \in [Side -> RxType] /\ Counts("client") /\ r \in RxType
        /\ Len(replies) \in Nat /\ answered \in Seq(Nat) /\ Len(answered) \in Nat
    BY StreamEnd DEF Side, ConnInv, Replies, Chained, Histories
  <1>6. /\ rx' \in [Side -> RxType] /\ \A o \in Side : o # "client" => rx'[o] = rx[o]
        /\ rx'["client"].got = r.got /\ rx'["client"].bytes = r.bytes
        /\ rx'["client"].at = r.at /\ rx'["client"].used = r.used + FrameSize(replies[i])
    <2> DEFINE u == r.used + Parse(replies[i], Left("client")) + replies[i].body
    <2>1. rx' = [rx EXCEPT !["client"].used = u]
      BY <1>1 DEF UseFrame
    <2>2. u = r.used + FrameSize(replies[i]) /\ u \in Nat
      <3>1. /\ replies[i].body \in Nat /\ replies[i].head \in Nat
        BY <1>4 DEF ConnInv, Replies, Chained
      <3>2. Parse(replies[i], Left("client")) \in Nat
        BY <3>1, ParseShape
      <3>3. r.used \in Nat
        BY <1>5 DEF RxType
      <3> QED
        BY <1>4, <3>1, <3>2, <3>3
    <2> HIDE DEF u
    <2> QED
      BY <1>2, <1>5, <2>1, <2>2 DEF RxType
  <1> HIDE DEF i, r
  <1>7. Rx'
    <2>1. /\ rx'["client"].used <= rx'["client"].bytes
          /\ rx'["client"].at + rx'["client"].bytes <= rx'["client"].got
          /\ rx'["client"].got <= Total("client") /\ rx'["client"].got - rx'["client"].at <= maxPack
      BY <1>4, <1>5, <1>6 DEF Counts, r
    <2> QED
      BY <1>1, <1>2, <1>6, <2>1, TotalKept, RxStep
  <1>8. /\ answered' \in Seq(Nat) /\ Len(answered') = Len(answered) + 1
        /\ answered'[Len(answered) + 1] = replies[i].id
        /\ \A k \in 1..Len(answered) : answered'[k] = answered[k]
    <2>1. replies \in Seq(ReplyType)
      BY DEF ConnInv, Replies
    <2>2. replies[i] \in ReplyType
      BY <1>4, <2>1
    <2>3. replies[i].id \in Nat
      BY <2>2 DEF ReplyType
    <2> QED
      BY <1>1, <1>5, <2>3
  <1>9. Aligned("client")'
    <2>1. rx'["client"].at + rx'["client"].used = End(replies, i)
      BY <1>4, <1>5, <1>6 DEF RxType, r
    <2>2. Taken("client")' = i /\ i \in 0..Len(replies)
      BY <1>3, <1>4, <1>8 DEF Taken
    <2> QED
      BY <1>1, <2>1, <2>2 DEF Aligned, Stream
  <1>10. /\ Aligned("server")' <=> Aligned("server")
         /\ Taken("server")' = Taken("server")
         /\ rx'["server"] = rx["server"]
    BY <1>1, <1>6 DEF Aligned, Taken, Stream, Side
  <1>11. running => Ready("server")'
    BY <1>1, <1>10, ReadyStays DEF ConnInv, Stream, Side
  <1>12. \A k \in 1..Len(answered') : answered'[k] = replies[k].id
    <2>1. \A k \in 1..Len(answered) : answered[k] = replies[k].id
      BY DEF ConnInv, Histories
    <2>2. ASSUME NEW k \in 1..Len(answered') PROVE answered'[k] = replies[k].id
      <3>1. k = Len(answered) + 1 \/ k \in 1..Len(answered)
        BY <1>5, <1>8
      <3> QED
        BY <1>3, <1>8, <2>1, <3>1
    <2> QED
      BY <2>2
  <1>13. Requests' /\ Replies' /\ Histories'
    BY <1>1, <1>8, <1>10, <1>12, StreamsKeep
    DEF ConnInv, Replies, Histories, Chained, End, FrameSize
  <1>14. ConnInv'
    BY <1>1, <1>7, <1>9, <1>10, <1>11, <1>13 DEF ConnInv
  <1> QED
    BY <1>1, <1>3, <1>4, <1>5, <1>14

LEMMA CallStep ==
  ASSUME ConnInv, Call
  PROVE  ConnInv'
  <1>1. /\ state = "open" /\ Len(reqs) < MaxReqs
        /\ UNCHANGED <<proto, maxPack, services, replies, rx, running, state, handled, answered>>
    BY DEF Call
  <1>2. PICK f \in Request(Total("server")) : reqs' = Append(reqs, f)
    BY DEF Call
  <1>3. /\ reqs \in Seq(RequestType) /\ Chained(reqs) /\ Len(reqs) \in Nat
        /\ Total("server") \in Nat /\ Total("client") \in Nat
    BY StreamEnd DEF ConnInv, Requests, Side, Stream
  <1>4. f.start = End(reqs, Len(reqs))
    BY <1>2 DEF Request, UcorfRequest, HproseRequest, Total, Stream
  <1>5. f \in RequestType /\ f.head \in Nat \ {0} /\ f.body \in Nat
    <2>1. CASE proto = "hprose"
      <3> DEFINE t == Total("server")
      <3>1. f \in [start : {t}, service : {Hprose}, oneway : BOOLEAN, head : {Fixed}, body : Body]
        BY <1>2, <2>1 DEF Request, HproseRequest
      <3>2. t \in Nat
        BY <1>3
      <3> HIDE DEF t
      <3>3. f \in RequestType
        BY <3>1, <3>2, ConnectionAssumption DEF RequestType
      <3>4. f.head = Fixed /\ f.body \in Body
        BY <3>1
      <3> QED
        BY <3>3, <3>4, ConnectionAssumption
    <2>2. CASE proto # "hprose"
      <3> DEFINE t == Total("server")
                 heads == Fixed..(Fixed + MaxNames)
      <3>1. f \in [start : {t}, service : Service, oneway : BOOLEAN,
                   head : heads, body : Body]
        <4>1. f \in UcorfRequest(t)
          BY <1>2, <2>2 DEF Request
        <4> QED
          BY <4>1, Zenon DEF UcorfRequest
      <3>2. t \in Nat
        BY <1>3
      <3> HIDE DEF t
      <3>3. f.head \in Nat \ {0} /\ f.body \in Nat
        <4>1. /\ \A h \in heads : h \in Nat \ {0}
              /\ \A b \in Body : b \in Nat
          BY ConnectionAssumption
        <4> HIDE DEF heads
        <4> QED
          BY <3>1, <4>1
      <3>4. f \in RequestType
        BY <3>1, <3>2, <3>3 DEF RequestType
      <3> QED
        BY <3>3, <3>4
    <2> QED
      BY <2>1, <2>2
  <1>6. /\ reqs' \in Seq(RequestType) /\ Len(reqs') = Len(reqs) + 1
        /\ reqs'[Len(reqs) + 1] = f
        /\ \A k \in 1..Len(reqs) : reqs'[k] = reqs[k]
        /\ DOMAIN reqs' = 1..(Len(reqs) + 1) /\ DOMAIN reqs = 1..Len(reqs)
    BY <1>2, <1>3, <1>5
  <1>7. /\ Chained(reqs')
        /\ \A k \in 0..Len(reqs) : End(reqs', k) = End(reqs, k)
        /\ End(reqs', Len(reqs')) = End(reqs, Len(reqs)) + FrameSize(f)
    BY <1>3, <1>4, <1>5, <1>6, AppendChained
  <1>8. Requests'
    <2>1. Len(reqs') <= MaxReqs
      BY <1>1, <1>3, <1>6, ConnectionAssumption
    <2>2. ASSUME NEW k \in 1..Len(reqs') PROVE (reqs[k] \in Request(End(reqs, k - 1)))'
      <3>1. CASE k = Len(reqs) + 1
        <4>1. reqs'[k] \in Request(Total("server")) /\ k - 1 = Len(reqs)
          BY <1>2, <1>3, <1>6, <3>1
        <4>2. Total("server") = End(reqs', k - 1)
          BY <1>3, <1>7, <4>1 DEF Total, Stream
        <4> QED
          BY <1>1, <4>1, <4>2 DEF Request, UcorfRequest, HproseRequest
      <3>2. CASE k \in 1..Len(reqs)
        <4>1. reqs[k] \in Request(End(reqs, k - 1)) /\ reqs'[k] = reqs[k]
          BY <1>6, <3>2 DEF ConnInv, Requests
        <4>2. End(reqs', k - 1) = End(reqs, k - 1)
          BY <1>3, <1>7, <3>2
        <4> QED
          BY <1>1, <4>1, <4>2 DEF Request, UcorfRequest, HproseRequest
      <3> QED
        BY <1>3, <1>6, <3>1, <3>2
    <2> QED
      BY <1>6, <1>7, <2>1, <2>2 DEF Requests
  <1>9. \A o \in Side : Total(o)' \in Nat /\ Total(o) \in Nat /\ Total(o) <= Total(o)'
    <2>1. FrameSize(f) \in Nat
      BY <1>5 DEF FrameSize
    <2> QED
      BY <1>1, <1>3, <1>7, <2>1 DEF Total, Stream, Side
  <1>10. Rx'
    <2>1. \A o \in Side : Counts(o)'
      BY <1>1, <1>9 DEF ConnInv, Rx, Counts
    <2> QED
      BY <1>1, <2>1 DEF ConnInv, Rx
  <1>11. Taken("server")' = Taken("server") /\ Taken("server") \in 0..Len(reqs)
    BY <1>1 DEF Taken, ConnInv
  <1>12. Aligned("client")' <=> Aligned("client")
    BY <1>1 DEF Aligned, Taken, Stream
  <1>13. Aligned("server")'
    BY <1>1, <1>3, <1>6, <1>7, <1>11 DEF ConnInv, Aligned, Stream
  <1>14. running => Ready("server")'
    BY <1>1, <1>3, <1>6, ReadyStays DEF ConnInv, Stream, Side
  <1>15. Replies' /\ Histories'
    BY <1>1, <1>11 DEF ConnInv, Replies, Histories, Chained, End, FrameSize
  <1> QED
    BY <1>1, <1>3, <1>6, <1>8, <1>10, <1>11, <1>12, <1>13, <1>14, <1>15 DEF
       ConnInv

LEMMA ConnStep == ConnInv /\ [Next]_vars => ConnInv'
  <1> SUFFICES ASSUME ConnInv, [Next]_vars PROVE ConnInv'
    OBVIOUS
  <1>1. CASE Call
    BY <1>1, CallStep
  <1>2. ASSUME NEW s \in Side, Receive(s) PROVE ConnInv'
    BY <1>2, ReceiveStep
  <1>3. ASSUME NEW s \in Side, Overflow(s) PROVE ConnInv'
    BY <1>3, IdleStep DEF Overflow, ConnInv
  <1>4. CASE Drop
    BY <1>4, IdleStep DEF Drop, ConnInv
  <1>5. CASE ReturnServer \/ ReturnClient
    BY <1>5, ReturnStep DEF ReturnServer, ReturnClient, Side
  <1>6. CASE Refuse
    BY <1>6, RefuseStep
  <1>7. CASE Dispatch
    BY <1>7, DispatchStep
  <1>8. CASE Finish
    BY <1>8, FinishStep
  <1>9. ASSUME NEW name \in Service, RegisterService(name) \/ RemoveService(name)
        PROVE  ConnInv'
    <2>1. /\ UNCHANGED <<proto, maxPack, reqs, replies, rx, running, handled, answered, state>>
          /\ services' \subseteq Service
      BY <1>9 DEF RegisterService, RemoveService, ConnInv
    <2> QED
      BY <2>1, IdleStep DEF ConnInv
  <1>10. CASE Respond
    BY <1>10, RespondStep
  <1>11. CASE UNCHANGED vars
    BY <1>11, IdleStep DEF vars, ConnInv
  <1> QED
    BY <1>1, <1>2, <1>3, <1>4, <1>5, <1>6, <1>7, <1>8, <1>9, <1>10, <1>11 DEF
       Next

LEMMA ConnInit == Init => ConnInv
  <1> SUFFICES ASSUME Init PROVE ConnInv
    OBVIOUS
  <1>1. /\ reqs = <<>> /\ replies = <<>> /\ handled = <<>> /\ answered = <<>>
        /\ running = FALSE /\ state = "open" /\ services \subseteq Service
        /\ rx = [s \in Side |-> Bound]
        /\ maxPack \in MaxPacks /\ maxPack \in Nat
    BY ConnectionAssumption DEF Init
  <1>2. Len(reqs) = 0 /\ Len(replies) = 0 /\ Len(handled) = 0 /\ Len(answered) = 0
    BY <1>1
  <1>3. \A s \in Side : Len(Stream(s)) = 0 /\ Total(s) = 0 /\ Taken(s) = 0
    BY <1>1, <1>2 DEF Stream, Total, End, Taken, Side
  <1>4. Chained(reqs) /\ Chained(replies)
    BY <1>1, <1>2 DEF Chained
  <1>5. Requests /\ Replies
    <2>1. 0 <= MaxReqs
      BY ConnectionAssumption
    <2>2. reqs \in Seq(RequestType) /\ replies \in Seq(ReplyType)
      BY <1>1
    <2> QED
      BY <1>2, <1>4, <2>1, <2>2 DEF Requests, Replies
  <1>6. Histories
    BY <1>1, <1>2 DEF Histories
  <1>7. Rx
    BY <1>1, <1>3 DEF Rx, Counts, Bound
  <1>8. Aligned("client") /\ Aligned("server")
    BY <1>1, <1>3 DEF Aligned, Bound, Side, End
  <1>9. Taken("server") \in 0..Len(reqs)
    BY <1>2, <1>3 DEF Side
  <1> QED
    BY <1>1, <1>5, <1>6, <1>7, <1>8, <1>9 DEF ConnInv

LEMMA ConnAlways == Spec => []ConnInv
  BY ConnInit, ConnStep, PTL DEF Spec

(* What the two ends count stays in range: the loops of OnReceiveData never*)
(* consume bytes that have not come (server_impl.cpp, client_impl.cpp), a  *)
(* reply has the id and the header of a request, and the service that is   *)
(* running works for the frame that the loop stands at.                    *)
THEOREM TypesHold == Spec => []TypeOK
  <1>1. ConnInv => TypeOK
    <2> SUFFICES ASSUME ConnInv PROVE TypeOK
      OBVIOUS
    <2>1. /\ \A i \in DOMAIN reqs : reqs[i] \in Request(End(reqs, i - 1))
          /\ Len(reqs) <= MaxReqs
      BY DEF ConnInv, Requests, Chained
    <2>2. \A i \in DOMAIN replies :
             /\ replies[i].start = End(replies, i - 1)
             /\ replies[i].id \in 1..Len(reqs)
             /\ replies[i].head \in Fixed..(Fixed + MaxNames)
             /\ replies[i].body \in Body
      <3>1. Taken("server") \in 0..Len(reqs) /\ Len(reqs) \in Nat
        BY DEF ConnInv, Requests, Chained
      <3>2. 1..Taken("server") \subseteq 1..Len(reqs)
        BY <3>1
      <3> QED
        BY <3>2 DEF ConnInv, Replies, Chained
    <2>3. \A s \in Side : Counts(s)
      BY DEF ConnInv, Rx
    <2> QED
      BY <2>1, <2>2, <2>3 DEF ConnInv, TypeOK, Counts
  <1> QED
    BY <1>1, ConnAlways, PTL

-----------------------------------------------------------------------------
(* Connection implements Exchange *)

LEMMA AppendedFunction ==
  ASSUME NEW S, NEW n \in Nat, NEW f \in [1..n -> S], NEW g \in [1..(n + 1) -> S],
         \A i \in 1..n : g[i] = f[i]
  PROVE  g = Append(f, g[n + 1])
  <1>1. f \in Seq(S) /\ Len(f) = n /\ g \in Seq(S) /\ Len(g) = n + 1 /\ g[n + 1] \in S
    OBVIOUS
  <1> DEFINE h == Append(f, g[n + 1])
  <1>2. h \in Seq(S) /\ Len(h) = n + 1 /\ h[n + 1] = g[n + 1]
        /\ \A i \in 1..n : h[i] = f[i]
    BY <1>1, AppendProperties
  <1> HIDE DEF h
  <1>3. \A i \in 1..(n + 1) : h[i] = g[i]
    BY <1>2
  <1>4. h = g
    BY <1>1, <1>2, <1>3, SeqEqual
  <1> QED
    BY <1>4 DEF h

Expects == [i \in DOMAIN reqs |-> ~IsOneway(reqs[i])]
Replied == [i \in DOMAIN replies |-> replies[i].id]

Maps ==
  /\ Len(reqs) \in Nat /\ Expects \in [1..Len(reqs) -> BOOLEAN]
  /\ Len(replies) \in Nat /\ Replied \in [1..Len(replies) -> Nat]
  /\ Len(handled) \in Nat /\ Len(answered) \in Nat

LEMMA Mapped == ConnInv => Maps
  <1> SUFFICES ASSUME ConnInv PROVE Maps
    OBVIOUS
  <1>1. /\ DOMAIN reqs = 1..Len(reqs) /\ Len(reqs) \in Nat
        /\ DOMAIN replies = 1..Len(replies) /\ Len(replies) \in Nat
        /\ Len(handled) \in Nat /\ Len(answered) \in Nat
    BY DEF ConnInv, Requests, Replies, Chained, Histories
  <1>2. Expects \in [1..Len(reqs) -> BOOLEAN]
    BY <1>1 DEF Expects, IsOneway
  <1>3. \A i \in 1..Len(replies) : replies[i].id \in Nat
    <2>1. \A i \in 1..Len(replies) : replies[i] \in ReplyType
      BY DEF ConnInv, Replies
    <2> QED
      BY <2>1 DEF ReplyType
  <1>4. Replied \in [1..Len(replies) -> Nat]
    BY <1>1, <1>3 DEF Replied
  <1> QED
    BY <1>1, <1>2, <1>4 DEF Maps

LEMMA MappedNext == ConnInv' => Maps'
  BY Mapped, PTL

LEMMA ExchStep ==
  ASSUME ConnInv, ConnInv', [Next]_vars
  PROVE  [Exch!Next]_(Exch!exchVars)
  <1> USE DEF Exch!Next
  <1>1. /\ Len(reqs) \in Nat /\ Expects \in [1..Len(reqs) -> BOOLEAN]
        /\ Len(Expects) = Len(reqs) /\ Len(replies) \in Nat
        /\ Replied \in [1..Len(replies) -> Nat] /\ Len(Replied) = Len(replies)
        /\ Len(handled) \in Nat /\ Len(answered) \in Nat
    BY Mapped DEF Maps
  <1>2. /\ Len(reqs') \in Nat /\ Expects' \in [1..Len(reqs') -> BOOLEAN]
        /\ Len(replies') \in Nat /\ Replied' \in [1..Len(replies') -> Nat]
    BY MappedNext DEF Maps
  <1>3. DOMAIN Replied = DOMAIN replies
    BY DEF Replied
  <1>4. UNCHANGED <<proto, reqs>> => Expects' = Expects
    BY DEF Expects, IsOneway
  <1>5. UNCHANGED replies => Replied' = Replied
    BY DEF Replied
  <1>6. CASE Call
    <2>1. PICK f : /\ reqs' = Append(reqs, f)
                   /\ UNCHANGED <<proto, replies, handled, answered, state>>
      BY <1>6 DEF Call
    <2>2. /\ Len(reqs') = Len(reqs) + 1
          /\ \A i \in 1..Len(reqs) : reqs'[i] = reqs[i]
      BY <2>1 DEF ConnInv, Requests
    <2>3. \A i \in 1..Len(reqs) : Expects'[i] = Expects[i]
      BY <1>1, <1>2, <2>1, <2>2 DEF Expects, IsOneway, ConnInv, Requests,
         Chained
    <2>4. Expects' \in [1..(Len(reqs) + 1) -> BOOLEAN]
      BY <1>2, <2>2
    <2>5. Expects' = Append(Expects, Expects'[Len(reqs) + 1])
      BY <1>1, <2>3, <2>4, AppendedFunction
    <2>6. Expects'[Len(reqs) + 1] \in BOOLEAN
      BY <1>1, <2>4
    <2>7. Replied' = Replied /\ (state' = "refused" <=> state = "refused")
      BY <1>5, <2>1
    <2> QED
      BY <2>1, <2>5, <2>6, <2>7 DEF Exch!Send, Expects, Replied
  <1>7. CASE Refuse
    <2>1. /\ ~running /\ Ready("server") /\ state' = "refused"
          /\ UNCHANGED <<proto, reqs, replies, handled, answered>>
      BY <1>7 DEF Refuse
    <2>2. /\ Aligned("server") /\ Taken("server") = Len(handled)
      BY <2>1, ServerAligned DEF Taken
    <2>3. Len(handled) < Len(reqs)
      <3>1. /\ NextFrame("server") \in DOMAIN Stream("server")
            /\ Whole("server", NextFrame("server")) /\ "server" \in Side
        BY <2>1, <2>2, NextFrameTaken DEF Side
      <3>2. Len(handled) + 1 \in 1..Len(Stream("server"))
        BY <2>2, <3>1, NextTaken
      <3> QED
        BY <1>1, <3>2 DEF Stream
    <2> QED
      BY <1>1, <1>4, <1>5, <2>1, <2>3 DEF Exch!Refuse, Expects, Replied
  <1>8. CASE Dispatch
    <2>1. /\ UNCHANGED <<proto, reqs, replies, answered, state>>
          /\ state # "refused" /\ Len(handled) < Len(reqs)
          /\ handled' = Append(handled, Len(handled) + 1)
      BY <1>8, DispatchStep DEF Dispatch
    <2> QED
      BY <1>1, <1>4, <1>5, <2>1 DEF Exch!Handle, Expects, Replied
  <1>9. CASE Finish
    <2>1. /\ UNCHANGED <<proto, reqs, handled, answered, state>> /\ running
      BY <1>9 DEF Finish
    <2>2. CASE UNCHANGED replies
      BY <1>4, <1>5, <2>1, <2>2 DEF Exch!exchVars, Expects, Replied
    <2>3. CASE replies' # replies
      <3>1. /\ ~IsOneway(reqs[Len(handled)]) /\ handled # <<>>
            /\ \A i \in DOMAIN replies : replies[i].id # Len(handled)
            /\ Len(replies') = Len(replies) + 1
            /\ replies'[Len(replies')].id = Len(handled)
            /\ \A k \in 1..Len(replies) : replies'[k] = replies[k]
        BY <1>9, <2>3, FinishStep
      <3>2. Expects[Len(handled)]
        <4>1. Len(handled) \in DOMAIN reqs
          <5>1. Len(handled) - 1 \in 0..Len(reqs) /\ Len(handled) \in 1..Len(reqs)
            BY <2>1, <1>9, FinishStep, <1>1 DEF ConnInv, Taken, Finish
          <5> QED
            BY <5>1 DEF ConnInv, Requests, Chained
        <4> QED
          BY <3>1, <4>1 DEF Expects
      <3>3. \A i \in DOMAIN Replied : Replied[i] # Len(handled)
        BY <3>1 DEF Replied
      <3>4. /\ \A k \in 1..Len(replies) : Replied'[k] = Replied[k]
            /\ Replied'[Len(replies) + 1] = Len(handled)
        BY <1>1, <1>2, <3>1 DEF Replied, ConnInv, Replies, Chained
      <3>5. Replied' = Append(Replied, Len(handled))
        <4>1. Replied' \in [1..(Len(replies) + 1) -> Nat]
          BY <1>2, <3>1
        <4> QED
          BY <1>1, <3>4, <4>1, AppendedFunction
      <3> QED
        BY <1>4, <2>1, <3>1, <3>2, <3>3, <3>5 DEF Exch!Reply, Expects, Replied
    <2> QED
      BY <2>2, <2>3
  <1>10. CASE Respond
    <2>1. /\ UNCHANGED <<proto, reqs, replies, handled, state>>
          /\ Len(answered) < Len(replies)
          /\ answered' = Append(answered, replies[Len(answered) + 1].id)
      BY <1>10, RespondStep DEF Respond
    <2>2. /\ Len(answered) < Len(Replied)
          /\ Replied[Len(answered) + 1] = replies[Len(answered) + 1].id
      BY <1>1, <2>1 DEF Replied, ConnInv, Replies, Chained
    <2> QED
      BY <1>4, <1>5, <2>1, <2>2 DEF Exch!Deliver, Expects, Replied
  <1>11. CASE /\ UNCHANGED <<proto, reqs, replies, handled, answered>>
              /\ state' = "refused" <=> state = "refused"
    BY <1>4, <1>5, <1>11 DEF Exch!exchVars, Expects, Replied
  <1>12. ASSUME NEW s \in Side, Receive(s) \/ Overflow(s) PROVE [Exch!Next]_(Exch!exchVars)
    BY <1>11, <1>12 DEF Receive, Overflow
  <1>13. CASE Drop \/ ReturnServer \/ ReturnClient
    BY <1>11, <1>13 DEF Drop, ReturnServer, ReturnClient, Return
  <1>14. ASSUME NEW name \in Service, RegisterService(name) \/ RemoveService(name)
         PROVE  [Exch!Next]_(Exch!exchVars)
    BY <1>11, <1>14 DEF RegisterService, RemoveService
  <1>15. CASE UNCHANGED vars
    BY <1>11, <1>15 DEF vars
  <1> QED
    BY <1>6, <1>7, <1>8, <1>9, <1>10, <1>12, <1>13, <1>14, <1>15 DEF Next

(* However the streams are cut into buffers, and whatever services are     *)
(* registered or removed meanwhile, no request is dispatched twice,        *)
(* skipped or overtaken, a reply has the id of its request and reaches     *)
(* OnResponse in its turn, and nothing follows a refusal                   *)
(* (ServerImpl::OnReceiveData, DispatchMsg, ClientImpl::OnReceiveData).    *)
THEOREM ConnectionIsExchange == Spec => ExchSpec
  <1>1. Init => Exch!Init
    <2> SUFFICES ASSUME Init PROVE Exch!Init
      OBVIOUS
    <2>1. Expects = <<>> /\ Replied = <<>>
      BY DEF Init, Expects, Replied
    <2> QED
      BY <2>1 DEF Init, Exch!Init, Expects, Replied
  <1>2. ConnInv /\ ConnInv' /\ [Next]_vars => [Exch!Next]_(Exch!exchVars)
    BY ExchStep
  <1> QED
    BY <1>1, <1>2, ConnAlways, PTL DEF Spec, ExchSpec, Exch!Spec
=============================================================================
