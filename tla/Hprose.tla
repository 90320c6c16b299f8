------------------------------- MODULE Hprose -------------------------------
(***************************************************************************)
(* A call through Hprose_ServiceStub to an Hprose_Service                  *)
(* (ucorf/hprose/hprose_service.h and .cpp).  What happens between them,   *)
(* c_->Call, gives back the service's answer or an error (ClientCall and   *)
(* Connection tell the rest).  The types of a call are chosen by the       *)
(* caller, those of a function by the service, and nothing compares them.  *)
(*                                                                         *)
(* RegisterFunction can be instantiated for functions of one argument      *)
(* only, since boost::function<R(Args)...> has a parameter for each.  A    *)
(* typed value is a record of its type and the value.                      *)
(***************************************************************************)
EXTENDS HproseBuffer, FiniteSets

CONSTANTS
  Function,  \* functions a service registers: name, param, result
  Method,    \* names a client calls
  Type,      \* types a caller gives to its argument and to the result
  Extra,     \* further arguments, which no function takes
  MaxExtra   \* bound on their number

FunctionNames == {f.name : f \in Function}

(* Names are no longer, and functions no more, than an int can count.      *)
ASSUME HproseAssumption ==
  /\ \A f \in Function :
       f.name \in Short(Byte) /\ f.param \in Types /\ f.result \in Types
  /\ IsFiniteSet(FunctionNames) /\ Cardinality(FunctionNames) < HalfInt
  /\ Method \subseteq Short(Byte)
  /\ Type \subseteq Types
  /\ \A x \in Extra : x.type \in Types /\ x.v \in Values(x.type)
  /\ MaxExtra \in Nat

VARIABLES
  functions, \* functions_: from names to functions
  call,      \* the call under way: its stage and what it asks for
  request,   \* the buffer sent
  response,  \* the buffer sent back
  ran,       \* history: what ran for this call, with what and what it returned
  outcome    \* ec and, if there is one, the value the caller got

vars == <<functions, call, request, response, ran, outcome>>

NotRun == [name |-> <<>>]
Nothing == [ec |-> "none"]

Init ==
  /\ functions = [name \in {} |-> name]
  /\ call = [stage |-> "idle"]
  /\ request = <<>> /\ response = <<>>
  /\ ran = NotRun
  /\ outcome = Nothing

-----------------------------------------------------------------------------
(* The service *)

(* insert does not replace a function.                                     *)
RegisterFunction(f) ==
  /\ f.name \notin DOMAIN functions
  /\ functions' = [name \in DOMAIN functions \cup {f.name} |->
                     IF name = f.name THEN f ELSE functions[name]]
  /\ UNCHANGED <<call, request, response, ran, outcome>>

ErrorText(text) == <<"E">> \o WriteString(text, FALSE) \o <<"z">>

(* A response, and, for the properties, the names known when it was made.  *)
Respond(buf) ==
  /\ call' = [stage |-> "served", method |-> call.method,
              args |-> call.args, known |-> DOMAIN functions]
  /\ response' = buf
  /\ UNCHANGED <<functions, request, outcome>>

R2Hprose(result, type) == <<"R">> \o Write(result, type) \o <<"z">>

error_arguments == ErrorText(<<"Error Args">>)
NoSupport == ErrorText(<<"No support protocol tag.">>)
NoCallee == ErrorText(<<"No Callee">>)

(* A mistake for the next action, which no specification uses: what Read   *)
(* returned is not looked at.                                              *)
CalleeAny(f, pos) ==
  LET arg == Read(request, pos, f.param)
      v == IF arg.ok THEN arg.v ELSE CHOOSE x \in Inputs(f.param) : TRUE
  IN \E result \in Inputs(f.result) :
       /\ ran' = [name |-> f.name, arg |-> v, result |-> result]
       /\ Respond(R2Hprose(result, f.result))

(* Callee::Call: the function runs if its argument can be read.            *)
Callee(f, pos) ==
  LET arg == Read(request, pos, f.param)
  IN \/ /\ ~arg.ok
        /\ Respond(error_arguments)
        /\ UNCHANGED ran
     \/ /\ arg.ok
        /\ \E result \in Inputs(f.result) :
             /\ ran' = [name |-> f.name, arg |-> arg.v, result |-> result]
             /\ Respond(R2Hprose(result, f.result))

(* The name under which the function for a method is found.                *)
Lookup(method) ==
  IF method \in DOMAIN functions THEN method ELSE <<"*">>

NameList == [lists |-> 1, of |-> "string"]

(* GetFunctionList: std::map has its names in some order.                  *)
GetFunctionList ==
  <<"F">> \o Write(SetToSeq(DOMAIN functions), NameList) \o <<"z">>

(* Hprose_Service::CallMethod for another tag than TagCall.                *)
AnswerTag ==
  /\ call.stage = "sent"
  /\ request[1] # "C"
  /\ Respond(IF request[1] = "z" THEN GetFunctionList
             ELSE NoSupport)
  /\ UNCHANGED ran

(* Hprose_Service::CallMethod for TagCall, and Call.                       *)
CallMethod ==
  /\ call.stage = "sent"
  /\ request[1] = "C"
  /\ LET method == ReadString(request, 2)
         name == Lookup(method.v)
     IN \/ /\ ~method.ok
           /\ Respond(error_arguments)
           /\ UNCHANGED ran
        \/ /\ method.ok /\ name \notin DOMAIN functions
           /\ Respond(NoCallee)
           /\ UNCHANGED ran
        \/ /\ method.ok /\ name \in DOMAIN functions
           /\ Callee(functions[name], method.pos)

-----------------------------------------------------------------------------
(* The stub *)

(* RecursiveWrite.                                                         *)
WriteArgs(args) ==
  FlattenSeq([i \in 1..Len(args) |-> Write(args[i].v, args[i].type)])

(* CallMethod<R> writes the request and calls.                             *)
StartCall(method, type) ==
  /\ call.stage = "idle"
  /\ \E v \in Inputs(type), more \in BoundedSeq(Extra, MaxExtra) :
       LET args == <<[type |-> type, v |-> v]>> \o more
       IN /\ call' = [stage |-> "sent", method |-> method, args |-> args]
          /\ request' = <<"C">> \o WriteString(method, TRUE)
                        \o WriteArgs(args) \o <<"z">>
  /\ UNCHANGED <<functions, response, ran, outcome>>

(* Another client asks for the list of functions, or for what is unknown.  *)
StartOther ==
  /\ call.stage = "idle"
  /\ call' = [stage |-> "sent", method |-> <<>>, args |-> <<>>]
  /\ request' \in {<<"z">>, <<"H">>}
  /\ UNCHANGED <<functions, response, ran, outcome>>

(* c_->Call returns an error, before the request was served or after.      *)
FailCall ==
  /\ call.stage \in {"sent", "served"}
  /\ call' = [call EXCEPT !.stage = "over"]
  /\ outcome' = [ec |-> "call"]
  /\ UNCHANGED <<functions, request, response, ran>>

(* CallMethod<R> reads the response: R() when it cannot be read.           *)
ReturnCall(type) ==
  /\ call.stage = "served"
  /\ call' = [call EXCEPT !.stage = "over"]
  /\ LET tag == At(response, 1)
         r == Read(response, 2, type)
     IN outcome' = CASE tag = "E" -> [ec |-> "logic_error"]
                     [] tag = "R" /\ r.ok ->
                          [ec |-> "ok", type |-> type, v |-> r.v]
                     [] tag = "R" /\ ~r.ok -> [ec |-> "ok", type |-> type]
                     [] OTHER -> [ec |-> "call_error"]
  /\ UNCHANGED <<functions, request, response, ran>>

(* The caller has seen the outcome.                                        *)
NextCall ==
  /\ call.stage = "over"
  /\ call' = [stage |-> "idle"]
  /\ request' = <<>> /\ response' = <<>>
  /\ ran' = NotRun
  /\ outcome' = Nothing
  /\ UNCHANGED functions

Next ==
  \/ \E f \in Function : RegisterFunction(f)
  \/ \E method \in Method, type \in Type : StartCall(method, type)
  \/ StartOther
  \/ CallMethod \/ AnswerTag
  \/ FailCall
  \/ \E type \in Type : ReturnCall(type)
  \/ NextCall

Spec == Init /\ [][Next]_vars

-----------------------------------------------------------------------------
(* Properties *)

TypeOK ==
  /\ \A name \in DOMAIN functions :
       functions[name] \in Function /\ functions[name].name = name
  /\ call.stage \in {"idle", "sent", "served", "over"}
  /\ ran # NotRun => /\ ran.name \in DOMAIN functions
                     /\ ran.arg \in Values(functions[ran.name].param)
  /\ "v" \in DOMAIN outcome => outcome.v \in Values(outcome.type)

HasRun == ran # NotRun

(* A function runs with the very argument that was passed, and the caller  *)
(* gets the very value it returned, if both take the same types for them,  *)
(* the types are supported and an unsigned long long is less than 2^63.    *)
(* A sign, a quote in a string, an empty string or list and the greatest   *)
(* and least numbers are no exceptions.  A quote in a name of several-byte *)
(* characters is: what follows it may be read as the argument.             *)
Transparent ==
  HasRun =>
    /\ LET passed == call.args[1] IN
         /\ Legible(call.method)
         /\ passed.type = functions[ran.name].param
         /\ Passes(passed.v, passed.type)
         => ran.arg = passed.v
    /\ outcome.ec = "ok" =>
         LET type == functions[ran.name].result IN
           /\ outcome.type = type
           /\ Supported(type) /\ Passes(ran.result, type)
           => outcome.v = ran.result

(* The service refuses a call, and runs nothing, only for a reason: no     *)
(* such function, a name with characters of several bytes, or an argument  *)
(* of another type than the function's or of one that is not supported.    *)
(* What it ran is what was called (but for such a name with a quote), or   *)
(* the function "*" if there was none, and never with an argument of       *)
(* another kind than its own; the caller is told ok or a refusal as a      *)
(* function ran or not.                                                    *)
ErrorsTold ==
  /\ outcome.ec = "ok" => HasRun
  /\ outcome.ec = "logic_error" => ~HasRun
  /\ HasRun /\ Legible(call.method) =>
       /\ ran.name = IF call.method \in call.known THEN call.method
                     ELSE <<"*">>
       /\ \E i \in DOMAIN call.args :
            SameKind(call.args[i].type, functions[ran.name].param)
  /\ call.stage = "served" /\ request[1] = "C" /\ ~HasRun =>
       \/ call.method \notin call.known
       \/ \E i \in DOMAIN call.method : LeadingOnes(call.method[i]) > 0
       \/ LET passed == call.args[1] IN
            \/ passed.type # functions[call.method].param
            \/ ~Supported(passed.type)

(* The list of functions can be read to its end, and names those that were *)
(* registered, each once.  GetFunctionList walks functions_ without the    *)
(* lock of RegisterFunction: no other thread registers meanwhile.          *)
ListTold ==
  call.stage = "served" /\ request[1] = "z" =>
    LET r == Read(response, 2, NameList) IN
    /\ response[1] = "F" /\ r.ok /\ At(response, r.pos) = "z"
    /\ IsInjective(r.v) /\ ToSet(r.v) = call.known
=============================================================================
