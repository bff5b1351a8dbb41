------------------------ MODULE BarrierServerProofs ------------------------
(***************************************************************************)
(* Proofs about the barrier server for any number of connections and       *)
(* barriers.  The inductive invariant follows a connection through the     *)
(* server: it is retained at most once per party, waits in the table while *)
(* its barrier is open, and afterwards is in the hands of exactly the      *)
(* handler that completed the barrier until GO or an error is on record.   *)
(***************************************************************************)
EXTENDS BarrierServer, TLAPS

Places == {"none", "accepted", "receiving", "arriving", "releasing0",
           "releasing1", "final", "done"}
Retaining == {"releasing0", "releasing1", "final", "done"}
Releasing == {"releasing0", "releasing1"}

TypeOK ==
    /\ peer \in [Connections -> {"unused", "there", "gone"}]
    /\ request \in [Connections -> Requests]
    /\ handler \in [Connections -> Places]
    /\ pair \in [Connections -> Seq(Connections)]
    /\ arrivals \in [Expected -> [Clients -> Connections \cup {Nobody}]]
    /\ completed \in Seq(Expected)
    /\ retained \subseteq Connections
    /\ released \subseteq Connections

(* A request is made once, before its handler exists; a handler that has    *)
(* one to announce holds a parsed request.                                  *)
Requested ==
    \A k \in Connections :
        /\ peer[k] = "unused" => handler[k] = "none"
        /\ handler[k] = "arriving" => request[k] # Malformed

(* The table holds a retained connection of the right party, of a barrier   *)
(* that is open and whose other party has not come.                         *)
TableIsRight ==
    \A b \in Expected, c \in Clients :
        arrivals[b][c] # Nobody =>
            /\ arrivals[b][c] \in retained
            /\ request[arrivals[b][c]] = <<b, c>>
            /\ b \notin Completed
            /\ arrivals[b][1 - c] = Nobody

(* A connection is retained once per party: it waits in the table, or its   *)
(* barrier is completed.                                                    *)
RetainedOnce ==
    /\ \A k \in retained :
         /\ handler[k] \in Retaining
         /\ request[k] \in Expected \X Clients
         /\ \/ arrivals[request[k][1]][request[k][2]] = k
            \/ request[k][1] \in Completed
    /\ \A j, k \in retained : request[j] = request[k] => j = k

(* Both parties of a completed barrier are retained.                        *)
CompletedByBoth ==
    \A b \in Completed, c \in Clients : \E k \in retained : request[k] = <<b, c>>

(* The two sockets a handler releases are the parties of one completed      *)
(* barrier.                                                                 *)
PairIsRight ==
    \A j \in Connections : handler[j] \in Releasing =>
        /\ j \in retained
        /\ Len(pair[j]) = 2
        /\ \A i \in {1, 2} :
             pair[j][i] \in retained /\ request[pair[j][i]][1] \in Completed

ReleasedRetained ==
    \A k \in released : k \in retained /\ request[k][1] \in Completed

(* A party of a completed barrier is told to go, or will be, or some        *)
(* handler has failed to tell it.                                           *)
Told(k) ==
    \/ k \in released
    \/ \E j \in Connections : handler[j] = "releasing0" /\ k \in {pair[j][1], pair[j][2]}
    \/ \E j \in Connections : handler[j] = "releasing1" /\ k = pair[j][2]
    \/ failed # {}
AllTold == \A k \in retained : request[k][1] \in Completed => Told(k)

(* A failure is in the errors list once the handler's loop is over, and a   *)
(* handler that ends without retaining its connection has recorded why.     *)
ErrorsKept ==
    /\ \A j \in failed : j \in Connections /\ (j \in errors \/ handler[j] = "releasing1")
    /\ \A k \in Connections :
         handler[k] \in {"final", "done"} => k \in retained \cup errors

(* Where the socket of a retained connection is.                            *)
SocketKept ==
    /\ \A j \in Connections : handler[j] = "releasing1" => pair[j][1] \in closed
    /\ \A k \in Connections :
         handler[k] = "done" /\ k \notin retained => k \in closed
    /\ \A k \in retained : request[k][1] \in Completed =>
         \/ k \in closed
         \/ \E j \in Connections :
              handler[j] \in Releasing /\ k \in {pair[j][1], pair[j][2]}

IInv ==
    /\ TypeOK /\ Requested /\ TableIsRight /\ RetainedOnce /\ CompletedByBoth
    /\ PairIsRight /\ ReleasedRetained /\ AllTold /\ ErrorsKept /\ SocketKept

-----------------------------------------------------------------------------
(* Appending a barrier to completed adds just that barrier to the set.      *)
LEMMA CompletedAppend ==
    ASSUME completed \in Seq(Expected), NEW b \in Expected,
           completed' = Append(completed, b)
    PROVE  Completed' = Completed \cup {b}
  BY DEF Completed

(* A request that was parsed and names an expected barrier is of one of its *)
(* two parties.                                                             *)
LEMMA ParsedRequest ==
    ASSUME NEW r \in Requests, r # Malformed, r[1] \in Expected
    PROVE  r \in Expected \X Clients
  BY BarrierAssumption DEF Requests, Clients

(* A server that has only been started satisfies the invariant.             *)
LEMMA InitInv == Init => IInv
  <1> SUFFICES ASSUME Init PROVE IInv
    OBVIOUS
  <1>1. TypeOK
    BY DEF Init, TypeOK, Places, Requests, Clients
  <1>2. Completed = {}
    BY DEF Init, Completed
  <1> QED
    BY <1>1, <1>2 DEF Init, IInv, Requested, TableIsRight, RetainedOnce,
       CompletedByBoth, PairIsRight, ReleasedRetained, AllTold, Told, ErrorsKept,
       SocketKept, Releasing, Retaining, Clients

(* What the steps have in common that touch neither table nor sends.        *)
LEMMA OutsideStep ==
    ASSUME IInv, UNCHANGED <<tableVars, sendVars>>,
           UNCHANGED request, peer' \in [Connections -> {"unused", "there", "gone"}],
           handler' \in [Connections -> Places],
           errors \subseteq errors', closed \subseteq closed',
           \A k \in Connections :
               /\ peer'[k] = "unused" => handler'[k] = "none"
               /\ handler'[k] = "arriving" => request[k] # Malformed
               /\ \/ handler'[k] = handler[k]
                  \/ handler[k] \notin Retaining /\ handler'[k] \notin Retaining
                  \/ handler[k] \notin Retaining /\ handler'[k] = "final" /\ k \in errors'
                  \/ handler[k] = "final" /\ handler'[k] = "done"
                       /\ (k \notin retained => k \in closed')
    PROVE  IInv'
  <1>1. TypeOK'
    BY DEF IInv, TypeOK, tableVars, sendVars
  <1>2. Completed' = Completed
    BY DEF Completed, tableVars
  <1>3. Requested'
    BY DEF Requested
  <1>4. TableIsRight'
    BY <1>2 DEF IInv, TableIsRight, tableVars
  <1>10. CompletedByBoth'
    BY <1>2 DEF IInv, CompletedByBoth, tableVars
  <1>11. ReleasedRetained'
    BY <1>2 DEF IInv, ReleasedRetained, tableVars, sendVars
  <1>5. \A k \in Connections :
            /\ handler[k] \in Retaining => handler'[k] \in Retaining
            /\ (handler'[k] = "releasing0") <=> (handler[k] = "releasing0")
            /\ (handler'[k] = "releasing1") <=> (handler[k] = "releasing1")
    BY DEF Retaining
  <1>6. RetainedOnce'
    BY <1>2, <1>5 DEF IInv, TypeOK, RetainedOnce, tableVars
  <1>7. PairIsRight' /\ AllTold'
    BY <1>2, <1>5 DEF IInv, PairIsRight, AllTold, Told, Releasing, tableVars, sendVars
  <1>8. ErrorsKept'
    BY <1>5 DEF IInv, ErrorsKept, tableVars, sendVars, Retaining
  <1>9. SocketKept'
    <2>1. \A j \in Connections : handler'[j] = "releasing1" => pair'[j][1] \in closed'
      BY <1>5 DEF IInv, SocketKept, tableVars
    <2>2. \A k \in Connections : handler'[k] = "done" /\ k \notin retained' => k \in closed'
      BY DEF IInv, SocketKept, tableVars, Retaining
    <2>3. \A k \in retained' : request'[k][1] \in Completed' =>
             \/ k \in closed'
             \/ \E j \in Connections :
                  handler'[j] \in Releasing /\ k \in {pair'[j][1], pair'[j][2]}
      BY <1>2, <1>5 DEF IInv, SocketKept, tableVars, Releasing
    <2> QED
      BY <2>1, <2>2, <2>3 DEF SocketKept
  <1> QED
    BY <1>1, <1>3, <1>4, <1>6, <1>7, <1>8, <1>9, <1>10, <1>11 DEF IInv

(* The first party of an open barrier arrives and waits in the table.       *)
LEMMA FirstArrives ==
    ASSUME IInv, NEW k \in Connections, handler[k] = "arriving",
           NEW b \in Expected, NEW c \in Clients, request[k] = <<b, c>>,
           b \notin Completed, arrivals[b][c] = Nobody, arrivals[b][1 - c] = Nobody,
           arrivals' = [arrivals EXCEPT ![b][c] = k],
           handler' = [handler EXCEPT ![k] = "final"],
           retained' = retained \cup {k},
           UNCHANGED <<peer, request, completed, pair, errors, sendVars, closed>>
    PROVE  IInv'
  <1>1. Completed' = Completed
    BY DEF Completed
  <1>2. TypeOK'
    BY DEF IInv, TypeOK, Places, sendVars
  <1>3. Requested'
    BY DEF IInv, Requested, TypeOK
  <1>4. k \notin retained /\ k # Nobody
    BY BarrierAssumption DEF IInv, RetainedOnce, Retaining
  <1>5. TableIsRight'
    <2> SUFFICES ASSUME NEW d \in Expected, NEW e \in Clients, arrivals'[d][e] # Nobody
                 PROVE  /\ arrivals'[d][e] \in retained'
                        /\ request[arrivals'[d][e]] = <<d, e>>
                        /\ d \notin Completed
                        /\ arrivals'[d][1 - e] = Nobody
      BY <1>1 DEF TableIsRight
    <2>1. CASE d = b /\ e = c
      BY <2>1 DEF IInv, TypeOK, Clients
    <2>2. CASE ~(d = b /\ e = c)
      <3>1. arrivals'[d][e] = arrivals[d][e]
        BY <2>2 DEF IInv, TypeOK
      <3>2. d # b
        BY <2>2, <3>1 DEF Clients
      <3> QED
        BY <3>1, <3>2 DEF IInv, TypeOK, TableIsRight
    <2> QED
      BY <2>1, <2>2
  <1>6. \A j \in retained : handler'[j] = handler[j] /\ request[j] # <<b, c>>
    <2>1. \A j \in retained : handler'[j] = handler[j]
      BY <1>4 DEF IInv, TypeOK
    <2>2. ASSUME NEW j \in retained, request[j] = <<b, c>> PROVE FALSE
      <3>1. arrivals[b][c] = j \/ b \in Completed
        BY <2>2 DEF IInv, RetainedOnce
      <3> QED
        BY <3>1, BarrierAssumption DEF IInv, TypeOK
    <2> QED
      BY <2>1, <2>2
  <1>7. RetainedOnce'
    <2>1. arrivals'[b][c] = k
      BY DEF IInv, TypeOK
    <2>2. ASSUME NEW j \in retained
          PROVE  /\ request[j] \in Expected \X Clients
                 /\ \/ arrivals'[request[j][1]][request[j][2]] = j
                    \/ request[j][1] \in Completed
      <3>1. PICK d \in Expected, e \in Clients : request[j] = <<d, e>>
        BY DEF IInv, RetainedOnce
      <3>2. ~(d = b /\ e = c)
        BY <1>6, <3>1
      <3>3. arrivals'[d][e] = arrivals[d][e]
        BY <3>2 DEF IInv, TypeOK
      <3>4. arrivals[d][e] = j \/ d \in Completed
        BY <3>1 DEF IInv, RetainedOnce
      <3> QED
        BY <3>1, <3>3, <3>4
    <2>3. \A j \in retained' : handler'[j] \in Retaining
      BY <1>6 DEF IInv, TypeOK, RetainedOnce, Retaining
    <2>4. \A i, j \in retained' : request[j] = request[i] => j = i
      BY <1>6 DEF IInv, RetainedOnce
    <2> QED
      BY <1>1, <2>1, <2>2, <2>3, <2>4 DEF RetainedOnce
  <1>8. CompletedByBoth'
    BY <1>1, Zenon DEF IInv, CompletedByBoth
  <1>9. \A j \in Connections : handler'[j] \in Releasing <=> handler[j] \in Releasing
    BY DEF IInv, TypeOK, Releasing
  <1>10. PairIsRight'
    BY <1>1, <1>9 DEF IInv, PairIsRight
  <1>11. ReleasedRetained'
    BY <1>1 DEF IInv, ReleasedRetained, sendVars
  <1>12. AllTold'
    <2> SUFFICES ASSUME NEW j \in retained', request[j][1] \in Completed PROVE Told(j)'
      BY <1>1 DEF AllTold
    <2>1. Told(j)
      BY DEF IInv, AllTold
    <2>2. \A i \in Connections \ {k} : handler'[i] = handler[i]
      BY DEF IInv, TypeOK
    <2> QED
      BY <2>1, <2>2 DEF Told, sendVars
  <1>13. ErrorsKept'
    BY DEF IInv, TypeOK, ErrorsKept, sendVars
  <1>14. SocketKept'
    BY <1>1, <1>9 DEF IInv, TypeOK, SocketKept
  <1> QED
    BY <1>2, <1>3, <1>5, <1>7, <1>8, <1>10, <1>11, <1>12, <1>13, <1>14 DEF IInv

(* The second party arrives and completes the barrier.                      *)
LEMMA SecondArrives ==
    ASSUME IInv, NEW k \in Connections, handler[k] = "arriving",
           NEW b \in Expected, NEW c \in Clients, request[k] = <<b, c>>,
           b \notin Completed, arrivals[b][c] = Nobody,
           NEW other, other = arrivals[b][1 - c], other # Nobody,
           arrivals' = [arrivals EXCEPT ![b][1 - c] = Nobody],
           completed' = Append(completed, b),
           pair' = [pair EXCEPT ![k] = IF c = 0 THEN <<k, other>> ELSE <<other, k>>],
           handler' = [handler EXCEPT ![k] = "releasing0"],
           retained' = retained \cup {k},
           UNCHANGED <<peer, request, errors, sendVars, closed>>
    PROVE  IInv'
  <1>1. Completed' = Completed \cup {b}
    BY CompletedAppend DEF IInv, TypeOK
  <1>2. 1 - c \in Clients /\ 1 - (1 - c) = c /\ 1 - c # c
    BY DEF Clients
  <1>3. other \in retained /\ other \in Connections /\ request[other] = <<b, 1 - c>>
    BY <1>2 DEF IInv, TypeOK, TableIsRight
  <1>4. k \notin retained /\ k # Nobody /\ k # other
    BY <1>3, BarrierAssumption DEF IInv, RetainedOnce, Retaining
  <1>5. /\ pair'[k] \in Seq(Connections) /\ Len(pair'[k]) = 2
        /\ {pair'[k][1], pair'[k][2]} = {k, other}
        /\ pair'[k][1] \in {k, other} /\ pair'[k][2] \in {k, other}
        /\ \A j \in Connections \ {k} : pair'[j] = pair[j] /\ handler'[j] = handler[j]
        /\ handler'[k] = "releasing0"
    BY <1>3 DEF IInv, TypeOK
  <1>6. TypeOK'
    <2>1. pair' \in [Connections -> Seq(Connections)]
      BY <1>5 DEF IInv, TypeOK
    <2>2. arrivals' \in [Expected -> [Clients -> Connections \cup {Nobody}]]
      BY <1>2 DEF IInv, TypeOK
    <2>3. completed' \in Seq(Expected)
      BY DEF IInv, TypeOK
    <2> QED
      BY <2>1, <2>2, <2>3 DEF IInv, TypeOK, Places, sendVars
  <1>7. Requested'
    BY DEF IInv, Requested, TypeOK
  <1>8. /\ \A e \in Clients : arrivals'[b][e] = Nobody
        /\ \A d \in Expected \ {b} : arrivals'[d] = arrivals[d]
    BY <1>2 DEF IInv, TypeOK, Clients
  <1>9. TableIsRight'
    <2> SUFFICES ASSUME NEW d \in Expected, NEW e \in Clients, arrivals'[d][e] # Nobody
                 PROVE  /\ arrivals'[d][e] \in retained'
                        /\ request[arrivals'[d][e]] = <<d, e>>
                        /\ d \notin Completed'
                        /\ arrivals'[d][1 - e] = Nobody
      BY DEF TableIsRight
    <2>1. d # b /\ arrivals'[d] = arrivals[d]
      BY <1>8
    <2> QED
      BY <1>1, <2>1 DEF IInv, TableIsRight
  <1>10. \A j \in retained : handler'[j] = handler[j] /\ request[j] # <<b, c>>
    <2>1. \A j \in retained : handler'[j] = handler[j]
      BY <1>4 DEF IInv, TypeOK
    <2>2. ASSUME NEW j \in retained, request[j] = <<b, c>> PROVE FALSE
      <3>1. arrivals[b][c] = j \/ b \in Completed
        BY <2>2 DEF IInv, RetainedOnce
      <3> QED
        BY <3>1, BarrierAssumption DEF IInv, TypeOK
    <2> QED
      BY <2>1, <2>2
  <1>11. RetainedOnce'
    <2>1. \A j \in retained' : request[j][1] = b => request[j][1] \in Completed'
      BY <1>1
    <2>2. \A j \in retained : request[j][1] # b =>
             \/ arrivals'[request[j][1]][request[j][2]] = j
             \/ request[j][1] \in Completed'
      BY <1>1, <1>8 DEF IInv, RetainedOnce
    <2>3. \A j \in retained' : /\ handler'[j] \in Retaining
                               /\ request[j] \in Expected \X Clients
      BY <1>10, <1>5 DEF IInv, RetainedOnce, Retaining
    <2>4. \A i, j \in retained' : request[j] = request[i] => j = i
      BY <1>10 DEF IInv, RetainedOnce
    <2> QED
      BY <2>1, <2>2, <2>3, <2>4 DEF RetainedOnce
  <1>12. CompletedByBoth'
    <2>1. \A e \in Clients : \E j \in retained' : request[j] = <<b, e>>
      BY <1>3 DEF Clients
    <2> QED
      BY <1>1, <2>1, Zenon DEF IInv, CompletedByBoth
  <1>13. PairIsRight'
    <2>1. \A i \in {1, 2} :
             pair'[k][i] \in retained' /\ request'[pair'[k][i]][1] \in Completed'
      BY <1>1, <1>3, <1>5
    <2> QED
      BY <1>1, <1>5, <2>1 DEF IInv, PairIsRight
  <1>14. ReleasedRetained'
    BY <1>1 DEF IInv, ReleasedRetained, sendVars
  <1>15. \A j \in retained : request[j][1] = b => j = other
    BY <1>2, <1>3, <1>10 DEF IInv, RetainedOnce, Clients
  <1>16. AllTold'
    <2> SUFFICES ASSUME NEW j \in retained', request[j][1] \in Completed' PROVE Told(j)'
      BY DEF AllTold
    <2>1. CASE j = k \/ j = other
      BY <2>1, <1>5, Zenon DEF Told
    <2>2. CASE j # k /\ j # other
      <3>1. j \in retained /\ request[j][1] \in Completed
        BY <2>2, <1>1, <1>15
      <3>2. Told(j)
        BY <3>1 DEF IInv, AllTold
      <3> QED
        BY <3>2, <1>5 DEF Told, sendVars
    <2> QED
      BY <2>1, <2>2
  <1>17. ErrorsKept'
    BY <1>5 DEF IInv, ErrorsKept, sendVars
  <1>18. SocketKept'
    <2>1. \A j \in Connections : handler'[j] = "releasing1" => pair'[j][1] \in closed'
      BY <1>5 DEF IInv, SocketKept
    <2>2. \A j \in Connections : handler'[j] = "done" /\ j \notin retained' => j \in closed'
      BY <1>5 DEF IInv, SocketKept
    <2>3. ASSUME NEW j \in retained', request[j][1] \in Completed'
          PROVE  \/ j \in closed'
                 \/ \E i \in Connections :
                      handler'[i] \in Releasing /\ j \in {pair'[i][1], pair'[i][2]}
      <3>1. CASE j = k \/ j = other
        BY <3>1, <1>5, Zenon DEF Releasing
      <3>2. CASE j # k /\ j # other
        <4>1. j \in retained /\ request[j][1] \in Completed
          BY <2>3, <3>2, <1>1, <1>15
        <4>2. \/ j \in closed
              \/ \E i \in Connections :
                   handler[i] \in Releasing /\ j \in {pair[i][1], pair[i][2]}
          BY <4>1 DEF IInv, SocketKept
        <4> QED
          BY <4>2, <1>5 DEF Releasing
      <3> QED
        BY <3>1, <3>2
    <2> QED
      BY <2>1, <2>2, <2>3 DEF SocketKept
  <1> QED
    BY <1>6, <1>7, <1>9, <1>11, <1>12, <1>13, <1>14, <1>16, <1>17, <1>18 DEF IInv

(* A turn of the release loop: whatever sendall did, the target is told or  *)
(* the failure is kept, and its socket is closed.                           *)
LEMMA ReleaseStep ==
    ASSUME IInv, NEW k \in Connections, NEW i \in {0, 1}, Release(k, i)
    PROVE  IInv'
  <1> DEFINE target == pair[k][i + 1]
  <1>1. /\ handler[k] = IF i = 1 THEN "releasing1" ELSE "releasing0"
        /\ handler' = [handler EXCEPT ![k] = IF i = 1 THEN "final" ELSE "releasing1"]
        /\ closed' = closed \cup {target}
        /\ errors' = IF i = 1 /\ k \in failed' THEN errors \cup {k} ELSE errors
        /\ UNCHANGED <<peer, request, tableVars>>
    BY DEF Release, Goto, CloseAfterSend, ReleaseErrors
  <1>2. \/ released' = released \cup {target} /\ failed' = failed
        \/ released' = released /\ failed' = failed \cup {k}
    BY DEF Release
  <1>3. target \in retained /\ target \in Connections
    BY <1>1 DEF IInv, TypeOK, PairIsRight, Releasing
  <1>4. Completed' = Completed
    BY <1>1 DEF Completed, tableVars
  <1>5. k \in retained
    BY <1>1 DEF IInv, PairIsRight, RetainedOnce, Releasing
  <1>6. TypeOK'
    BY <1>1, <1>2, <1>3 DEF IInv, TypeOK, tableVars, Places
  <1>7. Requested'
    BY <1>1 DEF IInv, TypeOK, Requested
  <1>8. TableIsRight'
    BY <1>1, <1>4 DEF IInv, TableIsRight, tableVars
  <1>9. \A j \in Connections \ {k} : handler'[j] = handler[j]
    BY <1>1 DEF IInv, TypeOK
  <1>10. handler'[k] = IF i = 1 THEN "final" ELSE "releasing1"
    BY <1>1 DEF IInv, TypeOK
  <1>11. RetainedOnce'
    BY <1>1, <1>4, <1>9, <1>10 DEF IInv, TypeOK, RetainedOnce, Retaining, tableVars
  <1>12. CompletedByBoth'
    BY <1>1, <1>4, Zenon DEF IInv, CompletedByBoth, tableVars
  <1>13. PairIsRight'
    BY <1>1, <1>4, <1>9 DEF IInv, PairIsRight, Releasing, tableVars
  <1>14. request[target][1] \in Completed
    BY <1>1 DEF IInv, PairIsRight, Releasing
  <1>15. ReleasedRetained'
    BY <1>1, <1>2, <1>3, <1>4, <1>14 DEF IInv, ReleasedRetained, tableVars
  <1>16. AllTold'
    <2> SUFFICES ASSUME NEW j \in retained, request[j][1] \in Completed PROVE Told(j)'
      BY <1>1, <1>4 DEF AllTold, tableVars
    <2>1. Told(j)
      BY DEF IInv, AllTold
    <2>2. CASE failed' # {}
      BY <2>2 DEF Told
    <2>3. CASE failed' = {}
      <3>1. released' = released \cup {target} /\ failed = {}
        BY <2>3, <1>2
      <3>2. CASE j \in released
        BY <3>1, <3>2 DEF Told
      <3>3. ASSUME NEW h \in Connections, handler[h] = "releasing0",
                   j \in {pair[h][1], pair[h][2]}
            PROVE  Told(j)'
        <4>1. CASE h # k
          BY <3>3, <4>1, <1>1, <1>9 DEF Told, tableVars
        <4>2. CASE h = k
          <5>1. i = 0 /\ target = pair[k][1] /\ handler'[k] = "releasing1"
            BY <3>3, <4>2, <1>1, <1>10
          <5> QED
            BY <3>1, <3>3, <4>2, <5>1, <1>1 DEF Told, tableVars
        <4> QED
          BY <4>1, <4>2
      <3>4. ASSUME NEW h \in Connections, handler[h] = "releasing1", j = pair[h][2]
            PROVE  Told(j)'
        <4>1. CASE h # k
          BY <3>4, <4>1, <1>1, <1>9 DEF Told, tableVars
        <4>2. CASE h = k
          <5>1. target = pair[k][2]
            BY <3>4, <4>2, <1>1
          <5> QED
            BY <3>1, <3>4, <4>2, <5>1 DEF Told
        <4> QED
          BY <4>1, <4>2
      <3> QED
        BY <2>1, <3>1, <3>2, <3>3, <3>4 DEF Told
    <2> QED
      BY <2>2, <2>3
  <1>17. ErrorsKept'
    <2>1. \A j \in failed' : j \in Connections /\ (j \in errors' \/ handler'[j] = "releasing1")
      BY <1>1, <1>2, <1>9, <1>10 DEF IInv, ErrorsKept
    <2>2. \A j \in Connections :
             handler'[j] \in {"final", "done"} => j \in retained' \cup errors'
      BY <1>1, <1>5, <1>9 DEF IInv, ErrorsKept, tableVars
    <2> QED
      BY <2>1, <2>2 DEF ErrorsKept
  <1>18. SocketKept'
    <2>1. \A j \in Connections : handler'[j] = "releasing1" => pair'[j][1] \in closed'
      BY <1>1, <1>9, <1>10 DEF IInv, SocketKept, tableVars
    <2>2. \A j \in Connections : handler'[j] = "done" /\ j \notin retained' => j \in closed'
      BY <1>1, <1>9, <1>10 DEF IInv, SocketKept, tableVars
    <2>3. ASSUME NEW j \in retained, request[j][1] \in Completed
          PROVE  \/ j \in closed'
                 \/ \E h \in Connections :
                      handler'[h] \in Releasing /\ j \in {pair'[h][1], pair'[h][2]}
      <3>1. CASE j \in closed
        BY <3>1, <1>1
      <3>2. ASSUME NEW h \in Connections, handler[h] \in Releasing,
                   j \in {pair[h][1], pair[h][2]}
            PROVE  \/ j \in closed'
                   \/ handler'[h] \in Releasing /\ j \in {pair'[h][1], pair'[h][2]}
        <4>1. CASE h # k \/ i = 0
          BY <3>2, <4>1, <1>1, <1>9, <1>10 DEF Releasing, tableVars
        <4>2. CASE h = k /\ i = 1
          <5>1. target = pair[k][2] /\ pair[k][1] \in closed
            BY <4>2, <1>1 DEF IInv, SocketKept
          <5> QED
            BY <3>2, <4>2, <5>1, <1>1
        <4> QED
          BY <4>1, <4>2
      <3> QED
        BY <2>3, <3>1, <3>2 DEF IInv, SocketKept
    <2> QED
      BY <2>1, <2>2, <2>3, <1>1, <1>4 DEF SocketKept, tableVars
  <1> QED
    BY <1>6, <1>7, <1>8, <1>11, <1>12, <1>13, <1>15, <1>16, <1>17, <1>18 DEF IInv

(* A connection is made: its request is new, but nothing is known of it.    *)
LEMMA ConnectStep ==
    ASSUME IInv, NEW k \in Connections, NEW r \in Requests, Connect(k, r)
    PROVE  IInv'
  <1>1. /\ peer[k] = "unused" /\ handler[k] = "none"
        /\ peer' = [peer EXCEPT ![k] = "there"]
        /\ request' = [request EXCEPT ![k] = r]
        /\ UNCHANGED <<handler, tableVars, sendVars, errors, closed>>
    BY DEF Connect, IInv, Requested
  <1>2. Completed' = Completed
    BY <1>1 DEF Completed, tableVars
  <1>3. k \notin retained
    BY <1>1 DEF IInv, RetainedOnce, Retaining
  <1>4. \A j \in retained : request'[j] = request[j]
    BY <1>1, <1>3 DEF IInv, TypeOK
  <1>5. TypeOK'
    BY <1>1 DEF IInv, TypeOK, tableVars, sendVars
  <1>6. Requested'
    BY <1>1 DEF IInv, TypeOK, Requested
  <1>7. TableIsRight'
    BY <1>1, <1>2, <1>4 DEF IInv, TableIsRight, tableVars
  <1>8. RetainedOnce'
    BY <1>1, <1>2, <1>4 DEF IInv, RetainedOnce, tableVars
  <1>9. CompletedByBoth'
    <2>1. retained' = retained /\ CompletedByBoth
      BY <1>1 DEF IInv, tableVars
    <2> QED
      BY <1>2, <1>4, <2>1, Zenon DEF CompletedByBoth
  <1>10. PairIsRight'
    BY <1>1, <1>2, <1>4 DEF IInv, PairIsRight, tableVars
  <1>11. ReleasedRetained'
    BY <1>1, <1>2, <1>4 DEF IInv, ReleasedRetained, tableVars, sendVars
  <1>12. AllTold'
    BY <1>1, <1>2, <1>4 DEF IInv, AllTold, Told, tableVars, sendVars
  <1>13. ErrorsKept'
    BY <1>1 DEF IInv, ErrorsKept, tableVars, sendVars
  <1>14. SocketKept'
    BY <1>1, <1>2, <1>4 DEF IInv, SocketKept, tableVars
  <1> QED
    BY <1>5, <1>6, <1>7, <1>8, <1>9, <1>10, <1>11, <1>12, <1>13, <1>14 DEF IInv

(* The section under the lock.                                              *)
LEMMA ArriveStep ==
    ASSUME IInv, NEW k \in Connections, Arrive(k)
    PROVE  IInv'
  <1> DEFINE b == request[k][1]
             c == request[k][2]
             other == arrivals[b][1 - c]
  <1>1. handler[k] = "arriving" /\ UNCHANGED <<peer, request, sendVars, closed>>
    BY DEF Arrive
  <1>2. CASE /\ errors' = errors \cup {k}
             /\ handler' = [handler EXCEPT ![k] = "final"]
             /\ UNCHANGED tableVars
    BY <1>1, <1>2, OutsideStep DEF IInv, TypeOK, Requested, Places, Retaining
  <1>3. CASE /\ ~Refused(b, c)
             /\ retained' = retained \cup {k}
             /\ UNCHANGED errors
    <2>1. b \in Expected /\ b \notin Completed /\ arrivals[b][c] = Nobody
      BY <1>3 DEF Refused
    <2>2. request[k] \in Expected \X Clients
      BY <1>1, <2>1, ParsedRequest DEF IInv, TypeOK, Requested
    <2>3. c \in Clients /\ request[k] = <<b, c>>
      BY <2>2
    <2>4. CASE /\ other = Nobody
               /\ arrivals' = [arrivals EXCEPT ![b][c] = k]
               /\ handler' = [handler EXCEPT ![k] = "final"]
               /\ UNCHANGED <<completed, pair>>
      <3> HIDE DEF b, c
      <3> QED
        BY <1>1, <1>3, <2>1, <2>3, <2>4, FirstArrives, Zenon
    <2>5. CASE /\ other # Nobody
               /\ arrivals' = [arrivals EXCEPT ![b][1 - c] = Nobody]
               /\ completed' = Append(completed, b)
               /\ pair' = [pair EXCEPT ![k] =
                             IF c = 0 THEN <<k, other>> ELSE <<other, k>>]
               /\ handler' = [handler EXCEPT ![k] = "releasing0"]
      <3> HIDE DEF b, c
      <3> QED
        BY <1>1, <1>3, <2>1, <2>3, <2>5, SecondArrives, Zenon
    <2>6. \/ /\ other = Nobody
             /\ arrivals' = [arrivals EXCEPT ![b][c] = k]
             /\ handler' = [handler EXCEPT ![k] = "final"]
             /\ UNCHANGED <<completed, pair>>
          \/ /\ other # Nobody
             /\ arrivals' = [arrivals EXCEPT ![b][1 - c] = Nobody]
             /\ completed' = Append(completed, b)
             /\ pair' = [pair EXCEPT ![k] =
                           IF c = 0 THEN <<k, other>> ELSE <<other, k>>]
             /\ handler' = [handler EXCEPT ![k] = "releasing0"]
      BY <1>3 DEF Arrive, Goto
    <2> QED
      BY <2>4, <2>5, <2>6
  <1> QED
    BY <1>2, <1>3 DEF Arrive, Goto

(* The accept thread holds a connection no handler has started for.         *)
AcceptorHolds ==
    \A k \in Connections : acceptor = k => handler[k] = "accepted"

(* Only Register takes a connection from the accept thread to a handler.    *)
LEMMA AcceptorStep == IInv /\ AcceptorHolds /\ [Next]_vars => AcceptorHolds'
  <1> SUFFICES ASSUME IInv, AcceptorHolds, [Next]_vars PROVE AcceptorHolds'
    OBVIOUS
  <1>1. /\ {"accepting", "ended"} \cap Connections = {}
        /\ handler \in [Connections -> Places]
    BY BarrierAssumption DEF IInv, TypeOK
  <1> USE DEF AcceptorHolds
  <1>2. ASSUME NEW k \in Connections, Accept(k) \/ Register(k) PROVE AcceptorHolds'
    BY <1>1, <1>2 DEF Accept, Register
  <1>3. ASSUME NEW k \in Connections, Handle(k) PROVE AcceptorHolds'
    <2>1. CASE Receive(k) \/ ReceiveFails(k) \/ Finally(k)
      BY <2>1, <1>1 DEF Receive, ReceiveFails, Finally, Goto, acceptVars
    <2>2. CASE Arrive(k)
      <3>1. UNCHANGED acceptor /\ handler[k] = "arriving"
            /\ \A j \in Connections \ {k} : handler'[j] = handler[j]
        BY <2>2, <1>1 DEF Arrive, Goto, acceptVars
      <3> QED
        BY <3>1
    <2>3. ASSUME NEW i \in {0, 1}, Release(k, i) PROVE AcceptorHolds'
      BY <2>3, <1>1 DEF Release, Goto, acceptVars
    <2> QED
      BY <1>3, <2>1, <2>2, <2>3 DEF Handle
  <1>4. CASE AcceptorEnds
    BY <1>1, <1>4 DEF AcceptorEnds
  <1>5. ASSUME NEW k \in Connections, NEW r \in Requests, Connect(k, r) \/ PeerGone(k)
        PROVE AcceptorHolds'
    BY <1>5 DEF Connect, PeerGone, acceptVars
  <1>6. CASE Close
    BY <1>6 DEF Close, Stop, CloseListener, Collect, CloseConnection, CloseReturns,
       acceptVars
  <1>7. CASE UNCHANGED vars
    BY <1>7, Zenon DEF vars, acceptVars
  <1> QED
    BY <1>2, <1>3, <1>4, <1>5, <1>6, <1>7 DEF Next, Requests

(* Every step of every thread and peer preserves the invariant.             *)
LEMMA StepInv == IInv /\ AcceptorHolds /\ [Next]_vars => IInv'
  <1> SUFFICES ASSUME IInv, AcceptorHolds, [Next]_vars PROVE IInv'
    OBVIOUS
  <1> USE DEF IInv, TypeOK, Requested, Places, Retaining
  <1>1. ASSUME NEW k \in Connections, NEW r \in Requests, Connect(k, r) PROVE IInv'
    BY <1>1, ConnectStep
  <1>2. ASSUME NEW k \in Connections, PeerGone(k) PROVE IInv'
    BY <1>2, OutsideStep DEF PeerGone
  <1>3. ASSUME NEW k \in Connections, Accept(k) PROVE IInv'
    BY <1>3, OutsideStep DEF Accept
  <1>4. ASSUME NEW k \in Connections, Register(k) PROVE IInv'
    BY <1>4, OutsideStep DEF Register, AcceptorHolds
  <1>5. ASSUME NEW k \in Connections, Receive(k) PROVE IInv'
    BY <1>5, OutsideStep, Zenon DEF Receive, Goto
  <1>6. ASSUME NEW k \in Connections, ReceiveFails(k) PROVE IInv'
    BY <1>6, OutsideStep DEF ReceiveFails, Goto
  <1>7. ASSUME NEW k \in Connections, Arrive(k) PROVE IInv'
    BY <1>7, ArriveStep
  <1>8. ASSUME NEW k \in Connections, NEW i \in {0, 1}, Release(k, i) PROVE IInv'
    BY <1>8, ReleaseStep
  <1>9. ASSUME NEW k \in Connections, Finally(k) PROVE IInv'
    BY <1>9, OutsideStep DEF Finally, Goto, CloseUnlessRetained
  <1>10. CASE AcceptorEnds
    BY <1>10, OutsideStep DEF AcceptorEnds
  <1>11. CASE Stop \/ CloseListener \/ Collect \/ CloseReturns
    BY <1>11, OutsideStep DEF Stop, CloseListener, Collect, CloseReturns
  <1>12. ASSUME NEW k \in Connections, CloseConnection(k) PROVE IInv'
    BY <1>12, OutsideStep DEF CloseConnection
  <1>13. CASE UNCHANGED vars
    BY <1>13, OutsideStep DEF vars
  <1> QED
    BY <1>1, <1>2, <1>3, <1>4, <1>5, <1>6, <1>7, <1>8, <1>9, <1>10, <1>11, <1>12,
       <1>13, Zenon DEF Next, Handle, Close

(* What close() has copied: from then on a connection that is being served  *)
(* and has not been released, or that waits, is closed, about to be closed, *)
(* or was registered late, by the accept thread's last step.                *)
Serving(k) == handler[k] \in {"receiving", "arriving"}
CloseKnows ==
    /\ closer # "serving" => stopping
    /\ \A k \in Connections : Serving(k) => k \in active
    /\ closer \in {"closing", "returned"} =>
         \A k \in Connections : Serving(k) \/ k \in Waiting => k \in closed \cup toClose \cup late
    /\ late # {} => closer \in {"closing", "returned"} /\ acceptor = "ended"
    /\ \A j, k \in late : j = k
    /\ closer = "returned" => toClose = {}

(* What is in a table of connections.                                       *)
Entries(f) == UNION { { f[b][c] : c \in Clients } : b \in Expected }
LEMMA InTable ==
    ASSUME NEW f, NEW w
    PROVE  w \in Entries(f) <=> \E a \in Expected, d \in Clients : w = f[a][d]
  <1>1. ASSUME NEW a \in Expected, NEW d \in Clients, w = f[a][d]
        PROVE  w \in UNION { { f[b][c] : c \in Clients } : b \in Expected }
    <2>1. w \in { f[a][c] : c \in Clients }
      BY <1>1
    <2>2. { f[a][c] : c \in Clients } \in { { f[b][c] : c \in Clients } : b \in Expected }
      OBVIOUS
    <2> QED
      BY <2>1, <2>2, Zenon
  <1>2. ASSUME w \in UNION { { f[b][c] : c \in Clients } : b \in Expected }
        PROVE  \E a \in Expected, d \in Clients : w = f[a][d]
    BY <1>2, Zenon
  <1> QED
    BY <1>1, <1>2, Zenon DEF Entries

(* The waiting connections are the entries of the table, now and next.      *)
LEMMA WaitingIs ==
    ASSUME NEW w
    PROVE  /\ w \in Waiting <=> w # Nobody /\ \E a \in Expected, d \in Clients : w = arrivals[a][d]
           /\ w \in Waiting' <=> w # Nobody /\ \E a \in Expected, d \in Clients : w = arrivals'[a][d]
  <1>1. Waiting = Entries(arrivals) \ {Nobody} /\ Waiting' = Entries(arrivals') \ {Nobody}
    BY DEF Waiting, Entries
  <1> QED
    BY <1>1, InTable

(* A connection joins the waiting ones only in its own handler's Arrive.    *)
LEMMA WaitingGrows ==
    ASSUME IInv, NEW k \in Connections, Arrive(k)
    PROVE  Waiting' \subseteq Waiting \cup {k}
  <1> DEFINE b == request[k][1]
             c == request[k][2]
  <1>1. arrivals \in [Expected -> [Clients -> Connections \cup {Nobody}]]
    BY DEF IInv, TypeOK
  <1>2. CASE UNCHANGED arrivals
    BY <1>2, WaitingIs
  <1>3. CASE \/ arrivals' = [arrivals EXCEPT ![b][c] = k]
             \/ arrivals' = [arrivals EXCEPT ![b][1 - c] = Nobody]
    <2>1. ASSUME NEW a \in Expected, NEW d \in Clients
          PROVE  arrivals'[a][d] \in {arrivals[a][d], k, Nobody}
      <3>1. CASE arrivals' = [arrivals EXCEPT ![b][c] = k]
        BY <1>1, <3>1
      <3>2. CASE arrivals' = [arrivals EXCEPT ![b][1 - c] = Nobody]
        BY <1>1, <3>2
      <3> QED
        BY <1>3, <3>1, <3>2
    <2>2. ASSUME NEW w \in Waiting' PROVE w \in Waiting \cup {k}
      <3>1. w # Nobody /\ \E a \in Expected, d \in Clients : w = arrivals'[a][d]
        BY <2>2, WaitingIs, Zenon
      <3>2. w = k \/ \E a \in Expected, d \in Clients : w = arrivals[a][d]
        BY <3>1, <2>1
      <3> QED
        BY <3>1, <3>2, WaitingIs, Zenon
    <2> QED
      BY <2>2, Zenon
  <1> QED
    BY <1>2, <1>3, Zenon DEF Arrive, tableVars

(* A step of one connection's handler that registers nothing and closes or  *)
(* keeps sockets leaves what close() knows.                                 *)
LEMMA HandlerKnows ==
    ASSUME CloseKnows, NEW k \in Connections,
           UNCHANGED <<acceptVars, closeVars>>, closed \subseteq closed',
           \A j \in Connections : Serving(j)' => Serving(j),
           active \ {k} \subseteq active', Serving(k)' => k \in active',
           Waiting' \subseteq Waiting \cup {k}, k \in Waiting' \ Waiting => Serving(k)
    PROVE  CloseKnows'
  <1> USE DEF acceptVars, closeVars
  <1>1. \A j \in Connections : Serving(j)' => j \in active'
    BY DEF CloseKnows
  <1>2. closer \in {"closing", "returned"} =>
          \A j \in Connections : (Serving(j) \/ j \in Waiting)' => j \in (closed \cup toClose \cup late)'
    BY DEF CloseKnows
  <1> QED
    BY <1>1, <1>2 DEF CloseKnows

(* Every step of every thread leaves what close() knows.                    *)
LEMMA CloseStep == IInv /\ AcceptorHolds /\ CloseKnows /\ [Next]_vars => CloseKnows'
  <1> SUFFICES ASSUME IInv, AcceptorHolds, CloseKnows, [Next]_vars PROVE CloseKnows'
    OBVIOUS
  <1>1. /\ {"accepting", "ended"} \cap Connections = {}
        /\ handler \in [Connections -> Places]
    BY BarrierAssumption DEF IInv, TypeOK
  <1>2. ASSUME UNCHANGED arrivals PROVE Waiting' = Waiting
    BY <1>2, WaitingIs
  <1>3. ASSUME NEW k \in Connections, (\E r \in Requests : Connect(k, r)) \/ PeerGone(k)
        PROVE CloseKnows'
    <2>1. UNCHANGED <<acceptVars, closeVars, handler, active, closed, arrivals>>
      BY <1>3, Zenon DEF Connect, PeerGone, tableVars
    <2> QED
      BY <2>1, <1>2 DEF CloseKnows, Serving, acceptVars, closeVars
  <1>4. ASSUME NEW k \in Connections, Accept(k) PROVE CloseKnows'
    <2>1. /\ UNCHANGED <<closeVars, stopping, active, closed, arrivals>>
          /\ closer \in {"serving", "stopping"}
          /\ handler' = [handler EXCEPT ![k] = "accepted"]
      BY <1>4, Zenon DEF Accept, tableVars
    <2> QED
      BY <2>1, <1>1 DEF CloseKnows, Serving, closeVars
  <1>5. ASSUME NEW k \in Connections, Register(k) PROVE CloseKnows'
    <2>1. /\ UNCHANGED <<closer, toClose, stopping, closed, arrivals>>
          /\ handler' = [handler EXCEPT ![k] = "receiving"] /\ acceptor = k
          /\ active' = active \cup {k}
          /\ acceptor' = IF stopping THEN "ended" ELSE "accepting"
          /\ late' = IF closer \in {"closing", "returned"} THEN late \cup {k} ELSE late
      BY <1>5, Zenon DEF Register, tableVars
    <2>2. Waiting' = Waiting /\ late = {}
      BY <2>1, <1>1, <1>2 DEF CloseKnows
    <2>3. \A j \in Connections : Serving(j)' => Serving(j) \/ j = k
      BY <2>1, <1>1 DEF Serving
    <2>4. \A j \in Connections : Serving(j)' => j \in active'
      BY <2>1, <2>3 DEF CloseKnows
    <2>5. closer \in {"closing", "returned"} =>
            \A j \in Connections : (Serving(j) \/ j \in Waiting)' => j \in (closed \cup toClose \cup late)'
      BY <2>1, <2>2, <2>3 DEF CloseKnows
    <2> QED
      BY <2>1, <2>2, <2>4, <2>5 DEF CloseKnows
  <1>6. ASSUME NEW k \in Connections, Receive(k) \/ ReceiveFails(k) PROVE CloseKnows'
    <2>1. /\ UNCHANGED <<acceptVars, closeVars, active, closed, arrivals>>
          /\ handler[k] = "receiving"
          /\ \E p \in {"final", "arriving"} : handler' = [handler EXCEPT ![k] = p]
      BY <1>6 DEF Receive, ReceiveFails, Goto, tableVars
    <2>2. (\A j \in Connections : Serving(j)' => Serving(j)) /\ k \in active
      BY <2>1, <1>1 DEF Serving, CloseKnows
    <2> QED
      BY <2>1, <2>2, <1>2, HandlerKnows
  <1>7. ASSUME NEW k \in Connections, Arrive(k) PROVE CloseKnows'
    <2>1. /\ UNCHANGED <<acceptVars, closeVars, active, closed>>
          /\ handler[k] = "arriving"
          /\ \E p \in {"final", "releasing0"} : handler' = [handler EXCEPT ![k] = p]
      BY <1>7 DEF Arrive, Goto
    <2>2. (\A j \in Connections : Serving(j)' => Serving(j)) /\ k \in active /\ Serving(k)
      BY <2>1, <1>1 DEF Serving, CloseKnows
    <2> QED
      BY <2>1, <2>2, <1>7, WaitingGrows, HandlerKnows
  <1>8. ASSUME NEW k \in Connections, (\E i \in {0, 1} : Release(k, i)) \/ Finally(k)
        PROVE CloseKnows'
    <2>1. /\ UNCHANGED <<acceptVars, closeVars, arrivals>>
          /\ active' \in {active, active \ {k}} /\ closed \subseteq closed'
          /\ \E p \in {"final", "releasing1", "done"} : handler' = [handler EXCEPT ![k] = p]
      BY <1>8 DEF Release, Finally, Goto, CloseAfterSend, CloseUnlessRetained, tableVars
    <2>2. (\A j \in Connections : Serving(j)' => Serving(j)) /\ ~Serving(k)'
      BY <2>1, <1>1 DEF Serving
    <2> QED
      BY <2>1, <2>2, <1>2, HandlerKnows
  <1>9. CASE AcceptorEnds
    <2>1. UNCHANGED <<closeVars, stopping, handler, active, closed, arrivals>> /\ acceptor' = "ended"
      BY <1>9, Zenon DEF AcceptorEnds, tableVars
    <2> QED
      BY <2>1, <1>2 DEF CloseKnows, Serving, closeVars
  <1>10. CASE Stop \/ CloseListener \/ CloseReturns
    <2>1. /\ UNCHANGED <<acceptor, toClose, late, handler, active, closed, arrivals>>
          /\ \/ closer = "serving" /\ closer' = "stopping" /\ stopping' = TRUE
             \/ closer = "stopping" /\ closer' = "collecting" /\ stopping' = stopping
             \/ closer = "closing" /\ closer' = "returned" /\ stopping' = stopping /\ toClose = {}
      BY <1>10, Zenon DEF Stop, CloseListener, CloseReturns, acceptVars, tableVars
    <2>2. Waiting' = Waiting /\ \A j \in Connections : Serving(j)' <=> Serving(j)
      BY <2>1, <1>2 DEF Serving
    <2> QED
      BY <2>1, <2>2 DEF CloseKnows
  <1>11. CASE Collect
    <2>1. /\ UNCHANGED <<acceptVars, late, handler, active, closed, arrivals>>
          /\ closer = "collecting" /\ closer' = "closing" /\ toClose' = active \cup Waiting
      BY <1>11, Zenon DEF Collect, Collected, tableVars
    <2>2. Waiting' = Waiting /\ \A j \in Connections : Serving(j)' <=> Serving(j)
      BY <2>1, <1>2 DEF Serving
    <2> QED
      BY <2>1, <2>2 DEF CloseKnows, acceptVars
  <1>12. ASSUME NEW k \in Connections, CloseConnection(k) PROVE CloseKnows'
    <2>1. /\ UNCHANGED <<acceptVars, late, closer, handler, active, arrivals>> /\ closer = "closing"
          /\ closed' = closed \cup {k} /\ toClose' = toClose \ {k}
      BY <1>12, Zenon DEF CloseConnection, tableVars
    <2>2. Waiting' = Waiting /\ \A j \in Connections : Serving(j)' <=> Serving(j)
      BY <2>1, <1>2 DEF Serving
    <2> QED
      BY <2>1, <2>2 DEF CloseKnows, acceptVars
  <1>13. CASE UNCHANGED vars
    <2>1. UNCHANGED <<acceptVars, closeVars, handler, active, closed, arrivals>>
      BY <1>13, Zenon DEF vars, tableVars
    <2> QED
      BY <2>1, <1>2 DEF CloseKnows, Serving, acceptVars, closeVars
  <1> QED
    BY <1>3, <1>4, <1>5, <1>6, <1>7, <1>8, <1>9, <1>10, <1>11, <1>12, <1>13, Zenon
       DEF Next, Handle, Close

(* The invariant, the accept thread's and what close() knows hold for every  *)
(* behaviour.                                                               *)
THEOREM Invariant == Spec => [](IInv /\ AcceptorHolds /\ CloseKnows)
  <1>1. Init => IInv /\ AcceptorHolds
    BY InitInv, BarrierAssumption DEF Init, AcceptorHolds
  <1>2. Init => CloseKnows
    BY DEF Init, CloseKnows, Serving
  <1>3. IInv /\ AcceptorHolds /\ CloseKnows /\ [Next]_vars => (IInv /\ AcceptorHolds /\ CloseKnows)'
    BY StepInv, AcceptorStep, CloseStep
  <1> QED
    BY <1>1, <1>2, <1>3, PTL DEF Spec

(* For any barriers and any number of connections: GO is sent on a          *)
(* connection only when the other party of its barrier has arrived too, and *)
(* at most once per party.                                                  *)
THEOREM OneReleaseAlways == Spec => []OneReleasePerParty
  <1>1. IInv => OneReleasePerParty
    <2> SUFFICES ASSUME IInv, NEW k \in released
                 PROVE  /\ \E j \in retained : request[j] = <<request[k][1], 1 - request[k][2]>>
                        /\ \A j \in released : request[j] = request[k] => j = k
      BY DEF OneReleasePerParty
    <2>1. k \in retained /\ request[k][1] \in Completed
      BY Zenon DEF IInv, ReleasedRetained
    <2>2. request[k][2] \in Clients
      BY <2>1, Zenon DEF IInv, RetainedOnce
    <2>3. 1 - request[k][2] \in Clients
      BY <2>2 DEF Clients
    <2> QED
      BY <2>1, <2>3, Zenon DEF IInv, CompletedByBoth, RetainedOnce, ReleasedRetained
  <1> QED
    BY <1>1, Invariant, PTL

(* For any barriers and any number of connections: assert_complete passes   *)
(* between handlers only when both parties of every barrier were told to go *)
(* and no other connection was served.                                      *)
THEOREM VerdictAlways == Spec => []VerdictIsTruthful
  <1>1. IInv => VerdictIsTruthful
    <2> SUFFICES ASSUME IInv, Quiet, AssertComplete
                 PROVE  /\ \A b \in Expected, c \in Clients :
                             \E k \in released : request[k] = <<b, c>>
                        /\ \A k \in Connections : handler[k] = "done" => k \in released
      BY Zenon DEF VerdictIsTruthful
    <2>1. errors = {} /\ Completed = Expected
      BY DEF AssertComplete
    <2>2. failed = {}
      BY <2>1 DEF IInv, ErrorsKept, Quiet
    <2>3. \A k \in retained : request[k][1] \in Completed => k \in released
      BY <2>2 DEF IInv, AllTold, Told, Quiet
    <2>4. \A k \in retained : request[k][1] \in Completed
      BY <2>1 DEF IInv, RetainedOnce
    <2>5. \A k \in Connections : handler[k] = "done" => k \in released
      BY <2>1, <2>3, <2>4 DEF IInv, ErrorsKept
    <2>6. \A b \in Expected, c \in Clients : \E k \in released : request[k] = <<b, c>>
      BY <2>1, <2>3, <2>4 DEF IInv, CompletedByBoth
    <2> QED
      BY <2>5, <2>6, Zenon
  <1> QED
    BY <1>1, Invariant, PTL

(* For any barriers and any number of connections: a connection whose       *)
(* handler has ended is closed, waits in the table, or is in the hands of   *)
(* the handler that completed its barrier; and when close() has returned, a *)
(* waiting connection is closed, except for the only one that was           *)
(* registered after close() had copied the tables.                          *)
THEOREM SocketsAlways == Spec => []NoSocketForgotten
  <1> DEFINE Released(k) == \E j \in Connections :
                              /\ handler[j] \in {"releasing0", "releasing1"}
                              /\ k \in {pair[j][1], pair[j][2]}
  <1>1. IInv => \A k \in Connections :
                  handler[k] = "done" => k \in closed \/ k \in Waiting \/ Released(k)
    <2> SUFFICES ASSUME IInv, NEW k \in Connections, handler[k] = "done",
                        k \notin closed, k \notin Waiting
                 PROVE  Released(k)
      OBVIOUS
    <2>1. k \in retained
      BY DEF IInv, SocketKept
    <2>2. request[k] \in Expected \X Clients
      BY <2>1 DEF IInv, RetainedOnce
    <2>3. arrivals[request[k][1]][request[k][2]] # k
      <3>1. PICK b \in Expected, c \in Clients : request[k] = <<b, c>>
        BY <2>2
      <3>2. k \notin { arrivals[b][d] : d \in Clients }
        <4>1. k # Nobody
          BY BarrierAssumption
        <4>2. k \notin UNION { { arrivals[a][d] : d \in Clients } : a \in Expected }
          BY <4>1, Zenon DEF Waiting
        <4> QED
          BY <4>2, Zenon
      <3>3. k # arrivals[b][c]
        BY <3>2
      <3> QED
        BY <3>1, <3>3
    <2>4. request[k][1] \in Completed
      BY <2>1, <2>3 DEF IInv, RetainedOnce
    <2> QED
      BY <2>1, <2>4 DEF IInv, SocketKept, Releasing
  <1>2. IInv /\ CloseKnows => (closer = "returned" => Waiting \ closed \subseteq late)
    <2>1. IInv => Waiting \subseteq Connections
      <3> SUFFICES ASSUME IInv, NEW w \in Waiting PROVE w \in Connections
        OBVIOUS
      <3>1. w # Nobody /\ \E a \in Expected, d \in Clients : w = arrivals[a][d]
        BY WaitingIs, Zenon
      <3> QED
        BY <3>1 DEF IInv, TypeOK
    <2> QED
      BY <2>1 DEF CloseKnows
  <1>3. IInv /\ CloseKnows => NoSocketForgotten
    BY <1>1, <1>2, Zenon DEF NoSocketForgotten, CloseKnows
  <1> QED
    BY <1>3, Invariant, PTL
=============================================================================
