------------------------------ MODULE PingPong ------------------------------
(***************************************************************************)
(* The ping-pong loop of guest/cxl_bi_app_init.c on its own: in round i    *)
(* the reader publishes i on the ping_request line and waits for i on the  *)
(* ping_ack line, the writer does the reverse.  Every store, fence, poll   *)
(* and checksum load of publish_signal and wait_signal is a step, and      *)
(* stores reach memory from a store buffer, so the order in which a line's *)
(* two words become visible is decided by the fences alone.                *)
(***************************************************************************)
EXTENDS Rounds

VARIABLES
    value,     \* per node: word 0 of the line it publishes, in memory
    sum,       \* per node: the number whose checksum is in word 1
    pending,   \* per node: the words of its line still in the store buffer
    round,     \* per node: the loop index
    pc,        \* per node: the next step of the loop body
    errors,    \* per node: checksum mismatches counted
    fate       \* per node: "running" or the fatal() exit it took

vars == <<value, sum, pending, round, pc, errors, fate>>

Nodes == {"reader", "writer"}
Other(n) == IF n = "reader" THEN "writer" ELSE "reader"

(* The reader's body publishes and then waits; the writer's waits first.    *)
FirstPC(n) == IF n = "reader" THEN "sum" ELSE "poll"

Init ==
    /\ value = [n \in Nodes |-> 0]
    /\ sum = [n \in Nodes |-> 0]
    /\ pending = [n \in Nodes |-> {}]
    /\ round = [n \in Nodes |-> 1]
    /\ pc = [n \in Nodes |-> FirstPC(n)]
    /\ errors = [n \in Nodes |-> 0]
    /\ fate = [n \in Nodes |-> "running"]

At(n, label) ==
    fate[n] = "running" /\ round[n] <= Iterations /\ pc[n] = label

Goto(n, label) == pc' = [pc EXCEPT ![n] = label]

(* The end of the body: index++, back to its first step.                    *)
NextRound(n) ==
    /\ round' = [round EXCEPT ![n] = @ + 1]
    /\ Goto(n, FirstPC(n))

(* line->word[1] = signal_checksum(...);                                    *)
StoreSum(n) ==
    /\ At(n, "sum")
    /\ pending' = [pending EXCEPT ![n] = @ \cup {"sum"}]
    /\ Goto(n, "sumFence")
    /\ UNCHANGED <<value, sum, round, errors, fate>>

SumFence(n) ==
    /\ At(n, "sumFence")
    /\ pending[n] = {}
    /\ Goto(n, "value")
    /\ UNCHANGED <<value, sum, pending, round, errors, fate>>

(* line->word[0] = value;                                                   *)
StoreValue(n) ==
    /\ At(n, "value")
    /\ pending' = [pending EXCEPT ![n] = @ \cup {"value"}]
    /\ Goto(n, "valueFence")
    /\ UNCHANGED <<value, sum, round, errors, fate>>

(* The fence that ends publish_signal: the reader then waits, the writer's  *)
(* body is over.                                                            *)
ValueFence(n) ==
    /\ At(n, "valueFence")
    /\ pending[n] = {}
    /\ IF n = "reader"
       THEN Goto(n, "poll") /\ UNCHANGED round
       ELSE NextRound(n)
    /\ UNCHANGED <<value, sum, pending, errors, fate>>

DrainSum(n) ==
    /\ "sum" \in pending[n]
    /\ sum' = [sum EXCEPT ![n] = round[n]]
    /\ pending' = [pending EXCEPT ![n] = @ \ {"sum"}]
    /\ UNCHANGED <<value, round, pc, errors, fate>>

DrainValue(n) ==
    /\ "value" \in pending[n]
    /\ value' = [value EXCEPT ![n] = round[n]]
    /\ pending' = [pending EXCEPT ![n] = @ \ {"value"}]
    /\ UNCHANGED <<sum, round, pc, errors, fate>>

(* wait_signal sees the expected value on its peer's line.                  *)
PollSucceeds(n) ==
    /\ At(n, "poll")
    /\ value[Other(n)] = round[n]
    /\ Goto(n, "check")
    /\ UNCHANGED <<value, sum, pending, round, errors, fate>>

(* wait_signal gives up: EPROTO when the line has run past the expected     *)
(* value, ETIMEDOUT when the deadline passes.                               *)
PollFails(n) ==
    /\ At(n, "poll")
    /\ value[Other(n)] # round[n]
    /\ fate' = [fate EXCEPT ![n] =
           IF value[Other(n)] > round[n] THEN "EPROTO" ELSE "ETIMEDOUT"]
    /\ UNCHANGED <<value, sum, pending, round, pc, errors>>

(* The checksum load that ends wait_signal.                                 *)
CheckSum(n) ==
    /\ At(n, "check")
    /\ errors' = [errors EXCEPT ![n] = IF sum[Other(n)] = round[n] THEN @ ELSE @ + 1]
    /\ IF n = "reader" THEN NextRound(n) ELSE Goto(n, "sum") /\ UNCHANGED round
    /\ UNCHANGED <<value, sum, pending, fate>>

Next ==
    \E n \in Nodes :
        \/ StoreSum(n)
        \/ SumFence(n)
        \/ StoreValue(n)
        \/ ValueFence(n)
        \/ DrainSum(n)
        \/ DrainValue(n)
        \/ PollSucceeds(n)
        \/ PollFails(n)
        \/ CheckSum(n)

Spec == Init /\ [][Next]_vars

-----------------------------------------------------------------------------
(* Every variable of the loop has its type.                                 *)
TypeOK ==
    /\ value \in [Nodes -> 0 .. Iterations]
    /\ sum \in [Nodes -> 0 .. Iterations]
    /\ pending \in [Nodes -> SUBSET {"sum", "value"}]
    /\ round \in [Nodes -> 1 .. Iterations + 1]
    /\ pc \in [Nodes -> {"sum", "sumFence", "value", "valueFence", "poll", "check"}]
    /\ errors \in [Nodes -> Nat]
    /\ fate \in [Nodes -> {"running", "EPROTO", "ETIMEDOUT"}]

(* No round of either side finds a checksum that does not belong to the     *)
(* value it has just read (wait_signal's *errors).                          *)
NoErrors == \A n \in Nodes : errors[n] = 0

(* No line runs past its waiter (wait_signal's EPROTO).                     *)
NoOvershoot == \A n \in Nodes : fate[n] # "EPROTO"

(* In memory, requests are never behind acknowledgements and never more     *)
(* than one round ahead.                                                    *)
Lockstep == value["reader"] - value["writer"] \in {0, 1}

-----------------------------------------------------------------------------
(* The inductive invariant.                                                 *)

(* How far a node's own line has got, as its pc and buffer determine it:    *)
(* the words carry the number of this round or still that of the last one.  *)
Line(n) ==
    LET r == round[n]
        before == sum[n] = r - 1 /\ value[n] = r - 1
        after == sum[n] = r /\ value[n] = r
    IN /\ pc[n] = "sum" => pending[n] = {} /\ before
       /\ pc[n] = "sumFence" =>
             /\ value[n] = r - 1
             /\ \/ pending[n] = {} /\ sum[n] = r
                \/ pending[n] = {"sum"} /\ sum[n] = r - 1
       /\ pc[n] = "value" => pending[n] = {} /\ sum[n] = r /\ value[n] = r - 1
       /\ pc[n] = "valueFence" =>
             /\ sum[n] = r
             /\ \/ pending[n] = {} /\ value[n] = r
                \/ pending[n] = {"value"} /\ value[n] = r - 1
       /\ pc[n] \in {"poll", "check"} =>
             pending[n] = {} /\ IF n = "reader" THEN after ELSE before

(* Where the two nodes can be relative to each other: the writer is in the  *)
(* reader's round, in the last step of the round before, or already waiting *)
(* for the next request; only a request that is in memory lets the writer   *)
(* past its poll, and an acknowledgement the reader past its.               *)
Handover ==
    LET r == round["reader"]
        w == round["writer"]
    IN /\ \/ w = r
          \/ w = r - 1 /\ pc["writer"] = "valueFence" /\ pending["writer"] = {}
          \/ w = r + 1 /\ pc["writer"] = "poll" /\ value["reader"] = r
       /\ w = r /\ value["reader"] = r - 1 => pc["writer"] = "poll"
       /\ pc["reader"] = "check" => value["writer"] = r
       /\ pc["writer"] = "check" => value["reader"] = w

(* A node past the last round is at its first step.                         *)
Ended(n) == round[n] = Iterations + 1 => pc[n] = FirstPC(n)

IInv ==
    /\ TypeOK
    /\ \A n \in Nodes : Line(n) /\ Ended(n)
    /\ Handover
    /\ NoErrors
    /\ NoOvershoot
=============================================================================
