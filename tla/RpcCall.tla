------------------------------ MODULE RpcCall -------------------------------
(***************************************************************************)
(* What ucorf::Client promises a coroutine that calls a method: one call   *)
(* at a time per coroutine; a call that gets as far as a request uses an   *)
(* id no other call used, and returns once, with an error or with the      *)
(* reply to that request; a refused call makes no request; a one-way       *)
(* request has no reply.  ClientCall implements this.                      *)
(***************************************************************************)
CONSTANTS
  Caller,   \* coroutines
  Id        \* request ids; 0 is none of them

VARIABLES
  call,     \* what each caller's call has come to
  used,     \* ids of the requests made so far
  ret       \* what each caller's last call returned

rpcVars == <<call, used, ret>>

NoCall == [at |-> "idle", id |-> 0]
NoRet  == [code |-> "none", id |-> 0, rid |-> 0]

Init ==
  /\ call = [k \in Caller |-> NoCall]
  /\ used = {}
  /\ ret  = [k \in Caller |-> NoRet]

End(k, code, rid) ==
  /\ call' = [call EXCEPT ![k] = NoCall]
  /\ ret'  = [ret EXCEPT ![k] = [code |-> code, id |-> call[k].id, rid |-> rid]]
  /\ UNCHANGED used

Begin(k) ==
  /\ call[k].at = "idle"
  /\ call' = [call EXCEPT ![k].at = "called"]
  /\ ret'  = [ret EXCEPT ![k] = NoRet]
  /\ UNCHANGED used

Refuse(k) == call[k].at = "idle" /\ End(k, "full", 0)

(* The call makes its request, two-way or one-way.                         *)
Request(k) ==
  /\ call[k].at = "called"
  /\ \E i \in Id \ used, kind \in {"twoway", "oneway"} :
       /\ call' = [call EXCEPT ![k] = [at |-> kind, id |-> i]]
       /\ used' = used \cup {i}
  /\ UNCHANGED ret

NoConnection(k) ==
  /\ call[k].at \in {"called", "twoway"}
  /\ End(k, "no_estab", 0)

NetError(k) == call[k].at # "idle" /\ End(k, "net_error", 0)

Timeout(k) == call[k].at = "twoway" /\ End(k, "timeout", 0)

Sent(k) == call[k].at = "oneway" /\ End(k, "sent", 0)

(* The reply to the call's own request comes back, and may not parse.      *)
Reply(k) ==
  /\ call[k].at = "twoway"
  /\ \E code \in {"ok", "parse_error"} : End(k, code, call[k].id)

Ends(k) ==
  NoConnection(k) \/ NetError(k) \/ Timeout(k) \/ Sent(k) \/ Reply(k)

Next ==
  \E k \in Caller : Begin(k) \/ Refuse(k) \/ Request(k) \/ Ends(k)

Spec == Init /\ [][Next]_rpcVars
=============================================================================
