-------------------------- MODULE RobinDispatcher ---------------------------
(***************************************************************************)
(* RobinDispatcher (ucorf/dispatcher.{h,cpp}), the dispatcher a client has *)
(* by default.  Add and Del hold the writer lock.  Get holds only the      *)
(* reader lock while it advances robin_idx_, a plain size_t, so the Gets   *)
(* of several scheduler threads race on it.                                *)
(*                                                                         *)
(* What the race can do depends on the build.  Unoptimised, each of Get's  *)
(* three statements loads robin_idx_ again (reload); optimised, it is      *)
(* loaded once, stored once and the element is taken with the value in the *)
(* register.                                                               *)
(***************************************************************************)
EXTENDS Integers, Sequences, FiniteSets

CONSTANTS
  Getter,   \* threads that run Get
  Tp,       \* transports
  NoTp,     \* the null transport
  Garbage,  \* what an element past the end reads as
  IdxMod,   \* number of values of size_t (2^64)
  MaxLen    \* bound on the length of tp_list_

ASSUME RobinAssumption ==
  /\ NoTp \notin Tp
  /\ Garbage \notin Tp \cup {NoTp}
  /\ MaxLen \in Nat
  /\ IdxMod \in Nat /\ IdxMod > MaxLen

VARIABLES
  tpList,    \* tp_list_
  robinIdx,  \* robin_idx_
  pc, reg,   \* where each Get is, and its register
  got,       \* what the last Get to end returned
  reload,    \* does the build load robin_idx_ for each statement?
  raced,     \* history: did two Gets overlap since the last Add or Del?
  served     \* history: Gets that returned each position since the last
             \* Add or Del, less those that every position had, up to 2

vars == <<tpList, robinIdx, pc, reg, got, reload, raced, served>>

Position == 1..Len(tpList)
NoServed(len) == [i \in 1..len |-> 0]

Init ==
  /\ tpList = <<>>
  /\ robinIdx = 0
  /\ pc  = [g \in Getter |-> "idle"]
  /\ reg = [g \in Getter |-> 0]
  /\ got = NoTp
  /\ reload \in BOOLEAN
  /\ raced = FALSE
  /\ served = <<>>

-----------------------------------------------------------------------------
(* A writer waits until no Get is between its lock and its unlock.         *)
NoReader == \A g \in Getter : pc[g] = "idle"

Add(t) ==
  /\ NoReader
  /\ Len(tpList) < MaxLen
  /\ tpList' = Append(tpList, t)
  /\ served' = NoServed(Len(tpList) + 1)
  /\ raced' = FALSE
  /\ UNCHANGED <<robinIdx, pc, reg, got, reload>>

(* Mistakes for Without, which no specification uses: the element stays;   *)
(* all of its occurrences go.                                              *)
WithoutNone(list, t) ==
  LET first == CHOOSE i \in DOMAIN list : list[i] = t
  IN SubSeq(list, 1, first) \o SubSeq(list, first + 1, Len(list))

WithoutAll(list, t) == SelectSeq(list, LAMBDA u : u # t)

(* Without the first occurrence of t.                                      *)
Without(list, t) ==
  LET first == CHOOSE i \in DOMAIN list :
                 /\ list[i] = t
                 /\ \A j \in 1..(i - 1) : list[j] # t
  IN SubSeq(list, 1, first - 1) \o SubSeq(list, first + 1, Len(list))

Del(t) ==
  /\ NoReader
  /\ \E i \in Position : tpList[i] = t
  /\ tpList' = Without(tpList, t)
  /\ served' = NoServed(Len(tpList) - 1)
  /\ raced' = FALSE
  /\ UNCHANGED <<robinIdx, pc, reg, got, reload>>

-----------------------------------------------------------------------------
(* Get *)

(* Mistakes for the steps below; no specification uses them: the remainder *)
(* is off by one, the index is not kept for the next Get.                  *)
AdvanceTooFar(g) ==
  /\ ~reload
  /\ pc[g] = "inc"
  /\ reg' = [reg EXCEPT ![g] = ((@ + 1) % IdxMod) % (Len(tpList) + 1)]
  /\ robinIdx' = reg'[g]
  /\ pc' = [pc EXCEPT ![g] = "pick"]
  /\ UNCHANGED <<tpList, got, reload, raced, served>>

PutZero(g) ==
  /\ pc[g] = "put"
  /\ robinIdx' = 0
  /\ pc' = [pc EXCEPT ![g] = "pick"]
  /\ UNCHANGED <<tpList, reg, got, reload, raced, served>>

GetEmpty(g) ==
  /\ pc[g] = "idle"
  /\ tpList = <<>>
  /\ got' = NoTp
  /\ UNCHANGED <<tpList, robinIdx, pc, reg, reload, raced, served>>

GetLoad(g) ==
  /\ pc[g] = "idle"
  /\ tpList # <<>>
  /\ reg' = [reg EXCEPT ![g] = robinIdx]
  /\ pc'  = [pc EXCEPT ![g] = "inc"]
  /\ raced' = (raced \/ ~NoReader)
  /\ UNCHANGED <<tpList, robinIdx, got, reload, served>>

(* ++robin_idx_;                                                           *)
GetIncrement(g) ==
  /\ reload
  /\ pc[g] = "inc"
  /\ robinIdx' = (reg[g] + 1) % IdxMod
  /\ pc' = [pc EXCEPT ![g] = "rem"]
  /\ UNCHANGED <<tpList, reg, got, reload, raced, served>>

(* robin_idx_ = robin_idx_ % tp_list_.size();                              *)
GetRemainder(g) ==
  /\ pc[g] = "rem"
  /\ reg' = [reg EXCEPT ![g] = robinIdx % Len(tpList)]
  /\ pc'  = [pc EXCEPT ![g] = "put"]
  /\ UNCHANGED <<tpList, robinIdx, got, reload, raced, served>>

GetPut(g) ==
  /\ pc[g] = "put"
  /\ robinIdx' = reg[g]
  /\ pc' = [pc EXCEPT ![g] = "pick"]
  /\ UNCHANGED <<tpList, reg, got, reload, raced, served>>

(* Both statements, in the register.                                       *)
GetAdvance(g) ==
  /\ ~reload
  /\ pc[g] = "inc"
  /\ reg' = [reg EXCEPT ![g] = ((@ + 1) % IdxMod) % Len(tpList)]
  /\ robinIdx' = reg'[g]
  /\ pc' = [pc EXCEPT ![g] = "pick"]
  /\ UNCHANGED <<tpList, got, reload, raced, served>>

Count(i) ==
  LET more == [served EXCEPT ![i] = IF @ < 2 THEN @ + 1 ELSE @]
  IN IF \A j \in Position : more[j] > 0
     THEN [j \in Position |-> more[j] - 1] ELSE more

(* return tp_list_[robin_idx_];                                            *)
Index(g) == IF reload THEN robinIdx ELSE reg[g]

GetPick(g) ==
  /\ pc[g] = "pick"
  /\ IF Index(g) < Len(tpList)
     THEN /\ got' = tpList[Index(g) + 1]
          /\ served' = Count(Index(g) + 1)
     ELSE got' = Garbage /\ UNCHANGED served
  /\ pc'  = [pc EXCEPT ![g] = "idle"]
  /\ reg' = [reg EXCEPT ![g] = 0]
  /\ UNCHANGED <<tpList, robinIdx, reload, raced>>

GetStep(g) ==
  \/ GetEmpty(g) \/ GetLoad(g) \/ GetIncrement(g) \/ GetRemainder(g)
  \/ GetPut(g) \/ GetAdvance(g) \/ GetPick(g)

Next ==
  \/ \E t \in Tp : Add(t) \/ Del(t)
  \/ \E g \in Getter : GetStep(g)

Spec == Init /\ [][Next]_vars

-----------------------------------------------------------------------------
(* Properties *)

TypeOK ==
  /\ tpList \in Seq(Tp) /\ Len(tpList) <= MaxLen
  /\ robinIdx \in 0..(IdxMod - 1)
  /\ pc  \in [Getter -> {"idle", "inc", "rem", "put", "pick"}]
  /\ reg \in [Getter -> Nat]
  /\ got \in Tp \cup {NoTp, Garbage}
  /\ reload \in BOOLEAN /\ raced \in BOOLEAN
  /\ served \in [Position -> Nat]

(* Get takes the transports in turn: since the list last changed, and as   *)
(* long as Gets do not overlap, no transport was returned twice more often *)
(* than another (README: robin load balancing).                            *)
Balanced == ~raced => \A i \in Position : served[i] <= 1

(* RobinDispatcher is a Dispatcher, in an optimised build whatever the     *)
(* number of threads, in another one as long as Gets do not overlap: Get   *)
(* returns a transport that is in the list, though Del may have left       *)
(* robin_idx_ past its end and other Gets move it.                         *)
Disp == INSTANCE Dispatcher WITH
          held  <- [t \in Tp |-> Cardinality({i \in Position : tpList[i] = t})],
          sound <- ~(reload /\ raced)
DispSpec == Disp!Spec
=============================================================================
