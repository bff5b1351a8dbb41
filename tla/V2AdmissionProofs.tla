------------------------- MODULE V2AdmissionProofs -------------------------
(***************************************************************************)
(* For any cohort, any number of console waits at once and any number of   *)
(* failing daemons and workloads: no client of the cohort is left unasked  *)
(* while others wait at their gates, the evidence of an admission finds    *)
(* what it needs, and a run passes only when its workloads did.  First what the steps do   *)
(* to the consoles: which lines are printed, shown and recorded, why a guest *)
(* prints what it prints, and what each kind of step leaves alone.          *)
(***************************************************************************)
EXTENDS V2Admission, TLAPS

(* Facts about the naturals and sequences that the proofs below cite.       *)
LEMMA OneBack ==
  ASSUME NEW n \in Nat
  PROVE  (n + 1) - 1 = n
  OBVIOUS

(* The indices of a sequence.                                               *)
LEMMA Indices ==
  ASSUME NEW S, NEW s \in Seq(S)
  PROVE  DOMAIN s = 1 .. Len(s)
  OBVIOUS

-----------------------------------------------------------------------------
(* Types, consoles and lines.                                               *)

Places == {"start", "layout", "ready", "recovering", "admit", "work", "evidence",
           "stop", "reading", "passed", "failed", "refused"}
Names == {"server-start", "server-admit", "server-stop", "client-start", "client-wait",
          "client-run"}
Texts == EchoesRead \cup {"FATAL", "LAYOUT", "RECOVERING", "READY", "STOPPED", "WAITING",
                          "PHASE", "EXIT", "FAILED"}

TypeOK ==
    /\ setup \in Setups
    /\ pc \in Places
    /\ waiter \in [Clients -> {"none", "queued", "waiting", "ok", "raised"}]
    /\ command \in [Guests -> Names \cup {"none"}]
    /\ script \in [Guests -> Names \cup {"shell"}]
    /\ workload \in [Clients -> {"none", "ready", "expired", "0", "1"}]
    /\ rc \in [Clients -> {"absent", "empty", "0", "1"}]

(* What is recorded is a part of what is shown, and that of what is printed. *)
ConsolesOK ==
    /\ printed \in [Guests -> Seq(Texts)]
    /\ shown \in [Guests -> Nat] /\ recorded \in [Guests -> Nat]
    /\ \A g \in Guests : recorded[g] <= shown[g] /\ shown[g] <= Len(printed[g])

(* The line is on the console of g; and b is on it only after a.            *)
Has(g, line) == \E i \in 1 .. Len(printed[g]) : printed[g][i] = line
After(g, a, b) ==
    \A i \in 1 .. Len(printed[g]) :
        printed[g][i] = b => \E j \in 1 .. i - 1 : printed[g][j] = a

-----------------------------------------------------------------------------
(* Consoles.                                                                *)

(* A run keeps its setup.                                                   *)
LEMMA SameSetup ==
  ASSUME UNCHANGED setup
  PROVE  Clients' = Clients /\ Guests' = Guests /\ Mode' = Mode
  BY DEF Clients, Guests, Mode

(* The server's console is not a client's.                                  *)
LEMMA ServerIsNoClient ==
  ASSUME TypeOK
  PROVE  Server \in Guests /\ Server \notin Clients /\ Clients \subseteq Guests
  BY DEF TypeOK, Clients, Guests, Server

(* A console on which a line is printed.                                    *)
LEMMA Printing ==
  ASSUME ConsolesOK, UNCHANGED setup, NEW g \in Guests, NEW line \in Texts, Prints(g, line)
  PROVE  /\ ConsolesOK'
         /\ \A h \in Guests : \A l \in Texts :
               /\ Has(h, l)' <=> (Has(h, l) \/ (h = g /\ l = line))
               /\ IsRecorded(h, l) => IsRecorded(h, l)'
         /\ \A h \in Guests : \A a, b \in Texts :
               After(h, a, b) /\ (h = g /\ b = line => Has(h, a)) => After(h, a, b)'
<1>1. Guests' = Guests  BY SameSetup
<1>2. /\ printed' \in [Guests -> Seq(Texts)]
      /\ \A h \in Guests : h # g => printed'[h] = printed[h]
      /\ Len(printed'[g]) = Len(printed[g]) + 1
      /\ \A i \in 1 .. Len(printed[g]) : printed'[g][i] = printed[g][i]
      /\ printed'[g][Len(printed[g]) + 1] = line
  BY DEF Prints, ConsolesOK
<1>3. ConsolesOK'
  BY <1>1, <1>2 DEF Prints, ConsolesOK
<1>4. ASSUME NEW h \in Guests, NEW l \in Texts
      PROVE  Has(h, l)' <=> (Has(h, l) \/ (h = g /\ l = line))
  <2>1. CASE h # g  BY <1>2, <2>1 DEF Has
  <2>2. CASE h = g
    <3>1. Len(printed[g]) \in Nat  BY DEF ConsolesOK
    <3>2. 1 .. Len(printed'[g]) = 1 .. Len(printed[g]) \cup {Len(printed[g]) + 1}
      BY <1>2, <3>1
    <3>3. Has(g, l)' <=> (\E i \in 1 .. Len(printed[g]) : printed[g][i] = l) \/ l = line
      BY <1>2, <3>2, Zenon DEF Has
    <3>4. QED  BY <2>2, <3>3 DEF Has
  <2>3. QED  BY <2>1, <2>2
<1>5. ASSUME NEW h \in Guests, NEW l \in Texts, IsRecorded(h, l)
      PROVE  IsRecorded(h, l)'
  BY <1>2, <1>5 DEF IsRecorded, ConsolesOK, Prints
<1>6. ASSUME NEW h \in Guests, NEW a \in Texts, NEW b \in Texts,
             After(h, a, b), h = g /\ b = line => Has(h, a)
      PROVE  After(h, a, b)'
  <2>1. CASE h # g  BY <1>2, <1>6, <2>1, Zenon DEF After
  <2>2. CASE h = g
    <3> SUFFICES ASSUME NEW i \in 1 .. Len(printed'[g]), printed'[g][i] = b
                 PROVE  \E j \in 1 .. i - 1 : printed'[g][j] = a
      BY <2>2 DEF After
    <3>1. CASE i \in 1 .. Len(printed[g])
      <4>1. PICK j \in 1 .. i - 1 : printed[g][j] = a
        BY <1>2, <1>6, <2>2, <3>1, Zenon DEF After
      <4>2. Len(printed[g]) \in Nat  BY DEF ConsolesOK
      <4>3. j \in 1 .. Len(printed[g])  BY <3>1, <4>1, <4>2
      <4>4. QED  BY <1>2, <4>1, <4>3, Zenon
    <3>2. CASE i = Len(printed[g]) + 1
      <4>1. PICK j \in 1 .. Len(printed[g]) : printed[g][j] = a
        BY <1>2, <1>6, <2>2, <3>2 DEF Has
      <4>2. j \in 1 .. i - 1 /\ printed'[g][j] = a  BY <1>2, <3>2, <4>1 DEF ConsolesOK
      <4>3. QED  BY <4>2
    <3>3. QED  BY <1>2, <3>1, <3>2 DEF ConsolesOK
  <2>3. QED  BY <2>1, <2>2
<1>7. QED  BY <1>3, <1>4, <1>5, <1>6

(* A console on which nothing is printed.                                   *)
LEMMA Silence ==
  ASSUME ConsolesOK, UNCHANGED <<setup, printed, shown, recorded>>
  PROVE  /\ ConsolesOK'
         /\ \A h \in Guests : \A l \in Texts :
               (Has(h, l)' <=> Has(h, l)) /\ (IsRecorded(h, l)' <=> IsRecorded(h, l))
         /\ \A h \in Guests : \A a, b \in Texts : After(h, a, b)' <=> After(h, a, b)
  BY SameSetup DEF ConsolesOK, Has, IsRecorded, After

(* The reader of a console.                                                 *)
LEMMA ReadingOn ==
  ASSUME ConsolesOK, UNCHANGED setup, NEW g \in Guests, ReaderShows(g) \/ ReaderRecords(g)
  PROVE  /\ ConsolesOK' /\ UNCHANGED printed
         /\ \A h \in Guests : \A l \in Texts :
               (Has(h, l)' <=> Has(h, l)) /\ (IsRecorded(h, l) => IsRecorded(h, l)')
         /\ \A h \in Guests : \A a, b \in Texts : After(h, a, b)' <=> After(h, a, b)
<1>1. Guests' = Guests  BY SameSetup
<1>2. UNCHANGED printed  BY DEF ReaderShows, ReaderRecords
<1>3. /\ shown' \in [Guests -> Nat] /\ recorded' \in [Guests -> Nat]
      /\ \A h \in Guests : /\ recorded'[h] <= shown'[h] /\ shown'[h] <= Len(printed[h])
                           /\ recorded[h] <= recorded'[h]
  <2>1. \A h \in Guests : Len(printed[h]) \in Nat  BY DEF ConsolesOK
  <2>2. CASE ReaderShows(g)  BY <2>1, <2>2 DEF ReaderShows, ConsolesOK
  <2>3. CASE ReaderRecords(g)
    <3>1. /\ recorded' = [recorded EXCEPT ![g] = recorded[g] + 1] /\ UNCHANGED shown
          /\ recorded[g] < shown[g]
      BY <2>3 DEF ReaderRecords
    <3>2. QED  BY <2>1, <3>1 DEF ConsolesOK
  <2>4. QED  BY <2>2, <2>3
<1>4. ConsolesOK'  BY <1>1, <1>2, <1>3 DEF ConsolesOK
<1>5. QED  BY <1>2, <1>3, <1>4 DEF Has, IsRecorded, After, ConsolesOK

(* What is recorded has been printed.  What is recorded of one line is also *)
(* recorded of the lines before it.                                         *)
LEMMA RecordedFacts ==
  ASSUME ConsolesOK, NEW g \in Guests, NEW a \in Texts, NEW b \in Texts, IsRecorded(g, b)
  PROVE  Has(g, b) /\ (After(g, a, b) => IsRecorded(g, a))
<1>1. PICK i \in 1 .. recorded[g] : printed[g][i] = b  BY DEF IsRecorded
<1>2. i \in 1 .. Len(printed[g])  BY <1>1 DEF ConsolesOK
<1>3. Has(g, b)  BY <1>1, <1>2 DEF Has
<1>4. ASSUME After(g, a, b)  PROVE IsRecorded(g, a)
  <2>1. PICK j \in 1 .. i - 1 : printed[g][j] = a  BY <1>1, <1>2, <1>4 DEF After
  <2>2. j \in 1 .. recorded[g]  BY <1>1, <2>1 DEF ConsolesOK
  <2>3. QED  BY <2>1, <2>2 DEF IsRecorded
<1>5. QED  BY <1>3, <1>4
-----------------------------------------------------------------------------
(* Types, and lines that stay.                                              *)

(* What guests do; what their readers do is ReaderShows and ReaderRecords.  *)
GuestStep ==
    \/ ServerGuest \/ \E c \in Clients : ClientGuest(c)
    \/ \E g \in Guests : Fatal(g)
ReaderStep == \E g \in Guests : ReaderShows(g) \/ ReaderRecords(g)

(* A guest prints one line or none.                                         *)
LEMMA GuestLine ==
  ASSUME TypeOK, GuestStep
  PROVE  UNCHANGED consoleVars \/ \E g \in Guests : \E line \in Texts : Prints(g, line)
<1>1. CASE ServerGuest
  BY <1>1, ServerIsNoClient DEF ServerGuest, BeginsServer, Begins, server_start,
     bounded_server_start, ProviderRecovers, bounded_server_admit, bounded_server_stop,
     Texts, EchoesRead
<1>2. ASSUME NEW c \in Clients, ClientGuest(c)
      PROVE  UNCHANGED consoleVars \/ \E g \in Guests : \E line \in Texts : Prints(g, line)
  <2>1. c \in Guests  BY ServerIsNoClient
  <2>2. QED
    BY <1>2, <2>1 DEF ClientGuest, BeginsClient, Begins, ClientReady, GateExpires,
       LaunchesWorkload, WorkloadRuns, ForwardsPhase, WritesRc, bounded_client_wait,
       client_run, ExitLine, Texts, EchoesRead
<1>3. ASSUME NEW g \in Guests, Fatal(g)
      PROVE  \E line \in Texts : Prints(g, line)
  BY <1>3 DEF Fatal, Texts
<1>4. QED  BY <1>1, <1>2, <1>3 DEF GuestStep

(* The consoles stay well formed, and no line is taken back.                *)
LEMMA LinesStay ==
  ASSUME TypeOK, ConsolesOK, UNCHANGED setup,
         Host \/ GuestStep \/ ReaderStep
  PROVE  /\ ConsolesOK'
         /\ \A h \in Guests : \A l \in Texts :
               (Has(h, l) => Has(h, l)') /\ (IsRecorded(h, l) => IsRecorded(h, l)')
<1>1. CASE UNCHANGED consoleVars  BY <1>1, Silence DEF consoleVars
<1>2. CASE Host
  <2>1. UNCHANGED consoleVars
    BY <1>2, Zenon DEF Host, HostStarts, HostDispatches, HostJoinsReady, HostRunsSingle, HostAdmits,
       HostServes, HostJoinsWork, HostValidates, HostStops, HostReadsTraces, WaiterStarts,
       WaiterEnds
  <2>2. QED  BY <1>1, <2>1
<1>3. CASE \E g \in Guests : \E line \in Texts : Prints(g, line)  BY <1>3, Printing
<1>4. CASE ReaderStep  BY <1>4, ReadingOn DEF ReaderStep
<1>5. QED  BY <1>1, <1>2, <1>3, <1>4, GuestLine

(* The host keeps every variable in its type.                               *)
LEMMA HostTypes ==
  ASSUME TypeOK, UNCHANGED setup, Host
  PROVE  TypeOK'
<1>1. Clients' = Clients /\ Guests' = Guests /\ Mode' = Mode  BY SameSetup
<1>2. UNCHANGED <<script, workload, rc>>
  BY Zenon DEF Host, HostStarts, HostDispatches, HostJoinsReady, HostRunsSingle, HostAdmits,
     HostServes, HostJoinsWork, HostValidates, HostStops, HostReadsTraces, WaiterStarts,
     WaiterEnds, clientVars
<1>3. pc' \in Places
  BY Zenon DEF Host, HostStarts, HostDispatches, HostJoinsReady, HostRunsSingle, HostAdmits,
     HostServes, HostJoinsWork, HostValidates, HostStops, HostReadsTraces, WaiterStarts,
     WaiterEnds, Steps, Raise, Raises, TypeOK, Places
<1>4. waiter' \in [Clients -> {"none", "queued", "waiting", "ok", "raised"}]
  <2>1. \/ UNCHANGED waiter
        \/ waiter' = [c \in Clients |-> "queued"]
        \/ waiter' = [c \in Clients |-> "waiting"]
        \/ \E c \in Clients : \E w \in {"waiting", "ok", "raised"} :
              waiter' = [waiter EXCEPT ![c] = w]
    BY Zenon DEF Host, HostStarts, HostDispatches, HostJoinsReady, HostRunsSingle, HostAdmits,
       HostServes, HostJoinsWork, HostValidates, HostStops, HostReadsTraces, WaiterStarts,
       WaiterEnds, Steps, Raise, Raises
  <2>2. QED  BY <2>1 DEF TypeOK
<1>5. command' \in [Guests -> Names \cup {"none"}]
  <2>1. \/ UNCHANGED command
        \/ \E g : \E name \in Names : command' = [command EXCEPT ![g] = name]
        \/ \E name \in Names : command' = [g \in Guests |-> IF g = Server THEN "none" ELSE name]
    BY Zenon DEF Host, HostStarts, HostDispatches, HostJoinsReady, HostRunsSingle, HostAdmits,
       HostServes, HostJoinsWork, HostValidates, HostStops, HostReadsTraces, WaiterStarts,
       WaiterEnds, Steps, Raise, Raises, Sends, dispatch_bounded_client_commands, Names
  <2>2. QED  BY <2>1 DEF TypeOK
<1>6. QED  BY <1>1, <1>2, <1>3, <1>4, <1>5 DEF TypeOK

(* So do the guests.                                                        *)
LEMMA GuestTypes ==
  ASSUME TypeOK, UNCHANGED setup, GuestStep
  PROVE  TypeOK'
<1>1. Clients' = Clients /\ Guests' = Guests /\ Mode' = Mode  BY SameSetup
<1>2. UNCHANGED <<pc, waiter>>
  BY DEF GuestStep, ServerGuest, ClientGuest, BeginsServer, BeginsClient, Begins,
     server_start, bounded_server_start, ProviderRecovers, bounded_server_admit,
     bounded_server_stop, ClientReady, GateExpires, LaunchesWorkload, WorkloadRuns,
     ForwardsPhase, WritesRc, bounded_client_wait, client_run, Fatal, hostVars
<1>3. command' \in [Guests -> Names \cup {"none"}] /\ script' \in [Guests -> Names \cup {"shell"}]
  <2>1. UNCHANGED command \/ \E g \in Guests : command' = [command EXCEPT ![g] = "none"]
    BY ServerIsNoClient DEF GuestStep, ServerGuest, ClientGuest, BeginsServer, BeginsClient,
       Begins,
       server_start, bounded_server_start, ProviderRecovers, bounded_server_admit,
       bounded_server_stop, ClientReady, GateExpires, LaunchesWorkload, WorkloadRuns,
       ForwardsPhase, WritesRc, bounded_client_wait, client_run, Fatal
  <2>2. \/ UNCHANGED script
        \/ \E g \in Guests : \E name \in Names \cup {"shell"} : script' = [script EXCEPT ![g] = name]
    BY ServerIsNoClient DEF GuestStep, ServerGuest, ClientGuest, BeginsServer, BeginsClient,
       Begins,
       server_start, bounded_server_start, ProviderRecovers, bounded_server_admit,
       bounded_server_stop, ClientReady, GateExpires, LaunchesWorkload, WorkloadRuns,
       ForwardsPhase, WritesRc, bounded_client_wait, client_run, Fatal, Names
  <2>3. QED  BY <2>1, <2>2 DEF TypeOK
<1>4. workload' \in [Clients -> {"none", "ready", "expired", "0", "1"}]
  BY DEF GuestStep, ServerGuest, ClientGuest, BeginsServer, BeginsClient, Begins,
     server_start, bounded_server_start, ProviderRecovers, bounded_server_admit,
     bounded_server_stop, ClientReady, GateExpires, LaunchesWorkload, WorkloadRuns,
     ForwardsPhase, WritesRc, bounded_client_wait, client_run, Fatal, TypeOK, clientVars
<1>5. rc' \in [Clients -> {"absent", "empty", "0", "1"}]
  BY DEF GuestStep, ServerGuest, ClientGuest, BeginsServer, BeginsClient, Begins,
     server_start, bounded_server_start, ProviderRecovers, bounded_server_admit,
     bounded_server_stop, ClientReady, GateExpires, LaunchesWorkload, WorkloadRuns,
     ForwardsPhase, WritesRc, bounded_client_wait, client_run, Fatal, TypeOK, clientVars
<1>6. QED  BY <1>1, <1>2, <1>3, <1>4, <1>5 DEF TypeOK
-----------------------------------------------------------------------------
(* What each step leaves alone.                                             *)

(* What a step of the server's guest leaves alone.                          *)
LEMMA ServerGuestFrame ==
  ASSUME TypeOK, ServerGuest
  PROVE  /\ UNCHANGED <<pc, waiter, workload, fifo, rc>>
         /\ \A c \in Clients : command'[c] = command[c] /\ script'[c] = script[c]
<1>1. UNCHANGED <<pc, waiter, workload, fifo, rc>>
  BY DEF ServerGuest, BeginsServer, Begins, server_start, bounded_server_start,
     ProviderRecovers, bounded_server_admit, bounded_server_stop, hostVars, clientVars
<1>2. /\ UNCHANGED command \/ command' = [command EXCEPT ![Server] = "none"]
      /\ UNCHANGED script \/ \E name \in Names \cup {"shell"} : script' = [script EXCEPT ![Server] = name]
  BY DEF ServerGuest, BeginsServer, Begins, server_start, bounded_server_start,
     ProviderRecovers, bounded_server_admit, bounded_server_stop, Names
<1>3. QED  BY <1>1, <1>2, ServerIsNoClient DEF TypeOK

(* What a step of a client leaves alone.                                    *)
LEMMA ClientGuestFrame ==
  ASSUME TypeOK, NEW c \in Clients, ClientGuest(c)
  PROVE  /\ UNCHANGED <<pc, waiter, layout, provider>>
         /\ \A g \in Guests : g # c => command'[g] = command[g] /\ script'[g] = script[g]
         /\ \A d \in Clients : d # c => workload'[d] = workload[d] /\ rc'[d] = rc[d]
<1>1. UNCHANGED <<pc, waiter, layout, provider>>
  BY DEF ClientGuest, BeginsClient, Begins, ClientReady, GateExpires, LaunchesWorkload,
     WorkloadRuns, ForwardsPhase, WritesRc, bounded_client_wait, client_run, hostVars,
     serverVars
<1>2. /\ UNCHANGED command \/ command' = [command EXCEPT ![c] = "none"]
      /\ UNCHANGED script \/ \E name \in Names \cup {"shell"} : script' = [script EXCEPT ![c] = name]
  BY DEF ClientGuest, BeginsClient, Begins, ClientReady, GateExpires, LaunchesWorkload,
     WorkloadRuns, ForwardsPhase, WritesRc, bounded_client_wait, client_run, Names
<1>3. UNCHANGED workload \/ \E w \in {"none", "ready", "expired", "0", "1"} :
                              workload' = [workload EXCEPT ![c] = w]
  BY DEF ClientGuest, BeginsClient, Begins, ClientReady, GateExpires, LaunchesWorkload,
     WorkloadRuns, ForwardsPhase, WritesRc, bounded_client_wait, client_run, clientVars
<1>4. UNCHANGED rc \/ \E r \in {"absent", "empty", "0", "1"} : rc' = [rc EXCEPT ![c] = r]
  BY DEF ClientGuest, BeginsClient, Begins, ClientReady, GateExpires, LaunchesWorkload,
     WorkloadRuns, ForwardsPhase, WritesRc, bounded_client_wait, client_run, clientVars, TypeOK
<1>5. QED  BY <1>1, <1>2, <1>3, <1>4, ServerIsNoClient DEF TypeOK

(* The host touches neither the guests nor their consoles.                  *)
LEMMA HostFrame ==
  ASSUME Host
  PROVE  UNCHANGED <<printed, shown, recorded, late, layout, provider, script, workload, fifo, rc>>
  BY Zenon DEF Host, HostStarts, HostDispatches, HostJoinsReady, HostRunsSingle, HostAdmits,
       HostServes, HostJoinsWork, HostValidates, HostStops, HostReadsTraces, WaiterStarts,
       WaiterEnds, Steps, Raise, Raises, Sends, dispatch_bounded_client_commands, consoleVars,
       serverVars, clientVars

(* How the host proceeds, and on what condition.                            *)
LEMMA HostMoves ==
  ASSUME Host
  PROVE  \/ pc' = pc
         \/ pc' = "failed" /\ pc # "failed"
         \/ pc = "start" /\ pc' = "layout"
         \/ pc = "layout" /\ pc' = "ready"
         \/ pc = "ready" /\ PoolEnded /\ ~PoolFailed /\ Mode = "single" /\ pc' = "work"
         \/ pc = "ready" /\ PoolEnded /\ ~PoolFailed /\ Mode # "single" /\ pc' = "recovering"
         \/ pc = "recovering" /\ pc' = "admit"
         \/ pc = "admit" /\ wait_recorded_console(Server, "READY") /\ Mode = "admission" /\ pc' = "evidence"
         \/ pc = "admit" /\ wait_recorded_console(Server, "READY") /\ Mode = "workload" /\ pc' = "work"
         \/ pc = "work" /\ PoolEnded /\ ~PoolFailed /\ pc' = "evidence"
         \/ pc = "evidence" /\ pc' = "refused"
         \/ pc = "evidence" /\ Mode = "single" /\ pc' = "reading"
         \/ pc = "evidence" /\ Mode # "single" /\ pc' = "stop"
         \/ pc = "stop" /\ wait_console(Server, "STOPPED") /\ pc' = "reading"
         \/ pc = "reading" /\ pc' = "passed"
<1>1. CASE HostStarts  BY <1>1 DEF HostStarts, Steps, Raise, Raises
<1>2. CASE HostDispatches  BY <1>2 DEF HostDispatches, Steps, Raise, Raises
<1>3. CASE HostJoinsReady  BY <1>3 DEF HostJoinsReady, Steps, Raise, Raises
<1>4. CASE HostRunsSingle  BY <1>4 DEF HostRunsSingle, Steps, Raise, Raises
<1>5. CASE HostAdmits  BY <1>5 DEF HostAdmits, Steps, Raise, Raises
<1>6. CASE HostServes  BY <1>6 DEF HostServes, Steps, Raise, Raises
<1>7. CASE HostJoinsWork  BY <1>7 DEF HostJoinsWork, Steps, Raise, Raises
<1>8. CASE HostValidates  BY <1>8 DEF HostValidates, Steps, Raise, Raises
<1>9. CASE HostStops  BY <1>9 DEF HostStops, Steps, Raise, Raises
<1>10. CASE HostReadsTraces  BY <1>10 DEF HostReadsTraces, Steps, Raise, Raises
<1>11. ASSUME NEW c \in Clients, WaiterStarts(c) \/ WaiterEnds(c)  PROVE pc' = pc
  BY <1>11 DEF WaiterStarts, WaiterEnds
<1>12. QED
  BY <1>1, <1>2, <1>3, <1>4, <1>5, <1>6, <1>7, <1>8, <1>9, <1>10, <1>11 DEF Host

(* The commands that the host sends, and when.                              *)
LEMMA HostCommands ==
  ASSUME Host
  PROVE  \/ UNCHANGED command /\ pc # "start" /\ (pc = "layout" => pc' = "failed")
         \/ UNCHANGED <<command, pc>>
         \/ \E name \in Names :
               /\ command' = [command EXCEPT ![Server] = name]
               /\ name = "server-admit" => pc = "recovering" /\ wait_console(Server, "RECOVERING")
               /\ pc' = "layout" \/ pc \in {"recovering", "evidence"}
         \/ Mode = "single" /\ pc = "ready" /\ command' = [command EXCEPT ![1] = "client-run"]
         \/ /\ pc = "layout" /\ pc' = "ready"
            /\ command' = [g \in Guests |-> IF g = Server THEN "none" ELSE "client-start"]
         \/ /\ pc = "admit"
            /\ command' = [g \in Guests |-> IF g = Server THEN "none" ELSE "client-wait"]
  BY Zenon DEF Names, Sends, dispatch_bounded_client_commands, Host, HostStarts,
     HostDispatches, HostJoinsReady, HostRunsSingle, HostAdmits,
     HostServes, HostJoinsWork, HostValidates, HostStops, HostReadsTraces, WaiterStarts,
     WaiterEnds, Steps, Raise, Raises

(* Nor does a reader touch anything but its console.                        *)
LEMMA ReaderFrame ==
  ASSUME ReaderStep
  PROVE  UNCHANGED <<pc, waiter, command, printed, layout, provider, script, workload, fifo, rc>>
  BY DEF ReaderStep, ReaderShows, ReaderRecords, hostVars, serverVars, clientVars

(* A daemon that fails ends its script, and says so.                        *)
LEMMA FatalFrame ==
  ASSUME TypeOK, ConsolesOK, UNCHANGED setup, NEW g \in Guests, Fatal(g)
  PROVE  /\ UNCHANGED <<pc, waiter, command, layout, provider, workload, fifo, rc, late>>
         /\ script'[g] = "shell" /\ \A h \in Guests : h # g => script'[h] = script[h]
         /\ Has(g, "FATAL")'
         /\ \A h \in Guests : \A l \in Texts : l # "FATAL" => (Has(h, l)' <=> Has(h, l))
         /\ \A h \in Guests : \A a, b \in Texts :
               After(h, a, b) /\ b # "FATAL" => After(h, a, b)'
<1>1. Prints(g, "FATAL") /\ "FATAL" \in Texts  BY DEF Fatal, Texts
<1>2. UNCHANGED <<pc, waiter, command, layout, provider, workload, fifo, rc, late>>
  BY DEF Fatal, Prints, hostVars, serverVars, clientVars
<1>3. script'[g] = "shell" /\ \A h \in Guests : h # g => script'[h] = script[h]
  BY DEF Fatal, TypeOK
<1>4. QED  BY <1>1, <1>2, <1>3, Printing

-----------------------------------------------------------------------------
(* What the lines say.                                                      *)

(* Why a guest prints the line that it prints.                              *)
Reason(g, line) ==
    /\ line \in EchoesRead => script'[g] = line
    /\ provider' = "recovering" /\ provider # "recovering" => g = Server /\ line = "LAYOUT"
    /\ g = Server =>
          /\ line \in EchoesRead => command[Server] = line
          /\ line = "LAYOUT" => script[Server] = "server-start"
          /\ line = "RECOVERING" => provider = "recovering"
          /\ line = "READY" /\ Mode # "single" => script[Server] = "server-admit"
          /\ line = "STOPPED" => provider' = "stopped"
    /\ g \in Clients =>
          /\ line = "WAITING" => script[g] = "client-start" /\ (Mode # "single" => workload'[g] = "ready")
          /\ line = "EXIT" => ExitLine(g) = "EXIT" /\ UNCHANGED workload

(* The server prints a line for its reason, or nothing.                     *)
LEMMA ServerLines ==
  ASSUME TypeOK, ServerGuest
  PROVE  \/ UNCHANGED <<printed, recorded, shown, late, provider>>
         \/ \E line \in Texts : Prints(Server, line) /\ Reason(Server, line)
<1>0. Server \in Guests /\ Server \notin Clients  BY ServerIsNoClient
<1>1. ASSUME NEW name \in {"server-start", "server-admit", "server-stop"}, BeginsServer(name)
      PROVE  \/ UNCHANGED <<printed, recorded, shown, late, provider>>
             \/ name \in Texts /\ name \in EchoesRead /\ Prints(Server, name)
                /\ command[Server] = name /\ script'[Server] = name /\ UNCHANGED provider
  BY <1>0, <1>1 DEF BeginsServer, Begins, serverVars, consoleVars, Texts, EchoesRead, TypeOK
<1>2. ASSUME NEW name \in {"server-start", "server-admit", "server-stop"}, BeginsServer(name)
      PROVE  \/ UNCHANGED <<printed, recorded, shown, late, provider>>
             \/ \E line \in Texts : Prints(Server, line) /\ Reason(Server, line)
  BY <1>0, <1>1, <1>2 DEF Reason, EchoesRead
<1>3. CASE server_start  BY <1>0, <1>3 DEF Reason, server_start, Texts, EchoesRead
<1>4. CASE bounded_server_start
  BY <1>0, <1>4 DEF Reason, bounded_server_start, Texts, EchoesRead
<1>5. CASE ProviderRecovers  BY <1>0, <1>5 DEF Reason, ProviderRecovers, Texts, EchoesRead
<1>6. CASE bounded_server_admit
  BY <1>0, <1>6 DEF Reason, bounded_server_admit, Texts, EchoesRead
<1>7. CASE bounded_server_stop
  BY <1>0, <1>7 DEF Reason, bounded_server_stop, Texts, EchoesRead
<1>8. QED  BY <1>2, <1>3, <1>4, <1>5, <1>6, <1>7, Zenon DEF ServerGuest

(* A client prints a line for its reason, or nothing.                       *)
LEMMA ClientLines ==
  ASSUME TypeOK, ConsolesOK, UNCHANGED setup, NEW c \in Clients, ClientGuest(c)
  PROVE  /\ UNCHANGED provider
         /\ \/ UNCHANGED <<printed, recorded, shown, late>>
            \/ \E line \in Texts : Prints(c, line) /\ Reason(c, line)
<1>0. c \in Guests /\ c # Server  BY ServerIsNoClient
<1>1. UNCHANGED provider  BY ClientGuestFrame
<1>2. ASSUME NEW name \in {"client-start", "client-wait", "client-run"}, BeginsClient(c, name)
      PROVE  \/ UNCHANGED <<printed, recorded, shown, late>>
             \/ \E line \in Texts : Prints(c, line) /\ Reason(c, line)
  <2>1. \/ UNCHANGED <<printed, recorded, shown, late>>
        \/ name \in Texts /\ name \in EchoesRead /\ Prints(c, name) /\ script'[c] = name
    BY <1>0, <1>2 DEF BeginsClient, Begins, consoleVars, Texts, EchoesRead, TypeOK
  <2>2. QED  BY <1>0, <1>1, <2>1 DEF Reason, EchoesRead
<1>3. CASE ClientReady(c)
  BY <1>0, <1>1, <1>3 DEF Reason, ClientReady, Texts, EchoesRead, TypeOK
<1>4. CASE ForwardsPhase(c)
  BY <1>0, <1>1, <1>4 DEF Reason, ForwardsPhase, Texts, EchoesRead
<1>5. CASE bounded_client_wait(c)
  BY <1>0, <1>1, <1>5 DEF Reason, bounded_client_wait, ExitLine, Texts, EchoesRead, clientVars
<1>6. CASE client_run(c)
  BY <1>0, <1>1, <1>6 DEF Reason, client_run, ExitLine, Texts, EchoesRead, clientVars
<1>7. CASE GateExpires(c) \/ LaunchesWorkload(c) \/ WorkloadRuns(c) \/ WritesRc(c)
  <2>1. UNCHANGED consoleVars
    BY <1>7, Zenon DEF GateExpires, LaunchesWorkload, WorkloadRuns, WritesRc
  <2>2. QED  BY <1>1, <2>1 DEF consoleVars
<1>8. QED  BY <1>1, <1>2, <1>3, <1>4, <1>5, <1>6, <1>7, Zenon DEF ClientGuest

(* A step leaves the consoles as they are ...                               *)
Silent ==
    /\ \A h \in Guests : \A l \in Texts : Has(h, l)' => Has(h, l)
    /\ \A h \in Guests : \A a, b \in Texts : After(h, a, b) => After(h, a, b)'
    /\ provider' = "recovering" => provider = "recovering"

(* ... or adds one line to one console, for its reason.                     *)
AddsLine(g, line) ==
    /\ \A h \in Guests : \A l \in Texts : Has(h, l)' <=> (Has(h, l) \/ (h = g /\ l = line))
    /\ \A h \in Guests : \A a, b \in Texts :
          After(h, a, b) /\ (h = g /\ b = line => Has(h, a)) => After(h, a, b)'
    /\ Reason(g, line)

(* There is no other step.                                                  *)
LEMMA EveryLine ==
  ASSUME TypeOK, ConsolesOK, UNCHANGED setup, Host \/ GuestStep \/ ReaderStep
  PROVE  Silent \/ \E g \in Guests : \E line \in Texts : AddsLine(g, line)
<1>0. Server \in Guests /\ Server \notin Clients /\ Clients \subseteq Guests  BY ServerIsNoClient
<1>1. CASE UNCHANGED <<printed, shown, recorded, provider>>
  BY <1>1, Silence DEF Silent
<1>2. ASSUME NEW g \in Guests, NEW line \in Texts, Prints(g, line), Reason(g, line)
      PROVE  AddsLine(g, line)
  BY <1>2, Printing DEF AddsLine
<1>3. CASE Host  BY <1>1, <1>3, HostFrame
<1>4. CASE ServerGuest  BY <1>0, <1>1, <1>2, <1>4, ServerLines
<1>5. ASSUME NEW c \in Clients, ClientGuest(c)
      PROVE  Silent \/ \E g \in Guests : \E line \in Texts : AddsLine(g, line)
  BY <1>0, <1>1, <1>2, <1>5, ClientLines
<1>6. ASSUME NEW g \in Guests, Fatal(g)
      PROVE  \E line \in Texts : AddsLine(g, line)
  <2>1. Prints(g, "FATAL") /\ "FATAL" \in Texts  BY <1>6 DEF Fatal, Texts
  <2>2. UNCHANGED provider  BY <1>6, FatalFrame
  <2>3. Reason(g, "FATAL")  BY <2>2 DEF Reason, EchoesRead
  <2>4. QED  BY <1>2, <2>1, <2>3
<1>7. CASE ReaderStep
  <2>1. UNCHANGED provider  BY <1>7, ReaderFrame
  <2>2. QED  BY <1>7, <2>1, ReadingOn DEF Silent, ReaderStep
<1>8. QED  BY <1>3, <1>4, <1>5, <1>6, <1>7, Zenon DEF GuestStep

(* The host admits the cohort when the provider says that it recovers.      *)
LEMMA AdmitIsAsked ==
  ASSUME TypeOK, ConsolesOK, UNCHANGED setup, Host \/ GuestStep \/ ReaderStep,
         command'[Server] = "server-admit", command[Server] # "server-admit"
  PROVE  pc = "recovering" /\ Has(Server, "RECOVERING")
<1>0. Server \in Guests /\ Server \notin Clients  BY ServerIsNoClient
<1>1. CASE Host
  <2>1. \/ command'[Server] = command[Server] \/ command'[Server] # "server-admit"
        \/ pc = "recovering" /\ wait_console(Server, "RECOVERING")
    BY <1>0, <1>1, HostCommands DEF TypeOK, Server
  <2>2. wait_console(Server, "RECOVERING") => Has(Server, "RECOVERING")
    BY <1>0 DEF wait_console, IsShown, Has, ConsolesOK
  <2>3. QED  BY <2>1, <2>2
<1>2. CASE ServerGuest
  BY <1>2 DEF ServerGuest, BeginsServer, Begins, server_start, bounded_server_start,
     ProviderRecovers, bounded_server_admit, bounded_server_stop, TypeOK
<1>3. ASSUME NEW c \in Clients, ClientGuest(c)  PROVE FALSE
  BY <1>0, <1>3, ClientGuestFrame, Zenon
<1>4. ASSUME NEW g \in Guests, Fatal(g)  PROVE FALSE  BY <1>4, FatalFrame
<1>5. CASE ReaderStep  BY <1>5, ReaderFrame, Zenon
<1>6. QED  BY <1>1, <1>2, <1>3, <1>4, <1>5, Zenon DEF GuestStep

-----------------------------------------------------------------------------
(* The inductive invariant.                                                 *)

(* A client is asked to start once, before which it does nothing ...        *)
AskedOnce ==
    /\ pc \in {"start", "layout"} =>
          \A c \in Clients : workload[c] = "none" /\ script[c] = "shell" /\ command[c] = "none"
    /\ \A c \in Clients :
          /\ command[c] = "client-start" => script[c] = "shell" /\ workload[c] = "none"
          /\ script[c] = "client-start" => command[c] # "client-start" /\ workload[c] = "none"

(* ... and from then on it is on its way, READY or has failed.              *)
OnItsWay ==
    (Mode # "single" /\ pc \notin {"start", "layout", "failed"}) =>
        \A c \in Clients :
            \/ command[c] = "client-start" \/ script[c] = "client-start"
            \/ workload[c] # "none" \/ Has(c, "FATAL")

(* What the lines of a client tell of its workload.                         *)
LinesAreTrue ==
    \A c \in Clients :
        /\ Mode # "single" /\ Has(c, "WAITING") => workload[c] # "none"
        /\ rc[c] \in {"0", "1"} => workload[c] = rc[c]
        /\ Has(c, "EXIT") => workload[c] = "0"

(* The milestones are printed in the order of the scripts.                  *)
EchoedFirst ==
    /\ \A g \in Guests : \A name \in EchoesRead : script[g] = name => Has(g, name)
    /\ \A c \in Clients : After(c, "client-start", "WAITING")
    /\ provider = "recovering" => Has(Server, "LAYOUT")
    /\ After(Server, "server-start", "LAYOUT") /\ After(Server, "LAYOUT", "RECOVERING")
    /\ command[Server] = "server-admit" => Has(Server, "RECOVERING")
    /\ After(Server, "RECOVERING", "server-admit")
    /\ Mode # "single" => After(Server, "server-admit", "READY")

AllWaiting == \A c \in Clients : IsRecorded(c, "WAITING")

(* What the host has waited for, by how far it is.                          *)
Awaited ==
    /\ \A c \in Clients : waiter[c] = "ok" =>
          /\ pc = "ready" /\ Mode # "single" => IsRecorded(c, "WAITING")
          /\ pc = "work" => Has(c, "EXIT")
    /\ Mode # "single" /\ pc \notin {"start", "layout", "ready", "failed"} => AllWaiting
    /\ Mode # "single" /\ pc \in {"work", "evidence"} => IsRecorded(Server, "READY")
    /\ Mode # "admission" /\ pc \in {"evidence", "stop", "reading", "passed"} =>
          \A c \in Clients : Has(c, "EXIT")
    /\ Mode # "single" /\ pc \in {"reading", "passed"} => Has(Server, "STOPPED")

(* The exact cohort is waiting when it is admitted, and recorded first.     *)
AdmittedInOrder ==
    /\ Mode # "single" /\ (command[Server] = "server-admit" \/ Has(Server, "server-admit")) =>
          AllWaiting
    /\ Mode # "single" => AdmissionInOrder

StoppedIsTrue == Mode # "single" /\ Has(Server, "STOPPED") => provider = "stopped"

IInv ==
    /\ TypeOK /\ ConsolesOK
    /\ AskedOnce /\ OnItsWay /\ LinesAreTrue /\ EchoedFirst /\ Awaited
    /\ AdmittedInOrder /\ StoppedIsTrue

-----------------------------------------------------------------------------
(* The cohort.                                                              *)

(* The step of a client, for the client itself.                             *)
LEMMA ClientGuestEffect ==
  ASSUME TypeOK, AskedOnce, NEW c \in Clients, ClientGuest(c)
  PROVE  /\ command[c] = "client-start" =>
               (command'[c] = "client-start" \/ script'[c] = "client-start")
         /\ script[c] = "client-start" =>
               (script'[c] = "client-start" \/ Mode = "single" \/ workload'[c] # "none")
         /\ command'[c] \in {command[c], "none"}
         /\ script'[c] \in {script[c], command[c], "shell"}
         /\ script'[c] = "client-start" /\ script[c] # "client-start" =>
               command[c] = "client-start" /\ command'[c] # "client-start"
         /\ script'[c] = "client-start" => workload'[c] = "none"
         /\ workload'[c] # workload[c] =>
               (workload[c] = "none" /\ script[c] # "shell") \/ workload[c] = "ready"
         /\ workload[c] # "none" => workload'[c] # "none"
  BY ServerIsNoClient DEF AskedOnce, TypeOK, clientVars, ClientGuest, BeginsClient, Begins,
     ClientReady, GateExpires, LaunchesWorkload,
     WorkloadRuns, ForwardsPhase, WritesRc, bounded_client_wait, client_run

(* A client that was not asked does nothing, and is asked once.             *)
LEMMA AskedOnceStep ==
  ASSUME TypeOK, ConsolesOK, AskedOnce,
         UNCHANGED setup, Host \/ GuestStep \/ ReaderStep
  PROVE  AskedOnce'
<1>1. Clients' = Clients /\ Guests' = Guests  BY SameSetup
<1>2. CASE Host
  <2>1. UNCHANGED <<script, workload>>  BY <1>2, HostFrame
  <2>2. pc' \in {"start", "layout"} => \A c \in Clients : command'[c] = command[c]
    BY <1>2, HostMoves, HostCommands, ServerIsNoClient DEF TypeOK
  <2>3. pc' \in {"start", "layout"} => pc \in {"start", "layout"}
    BY <1>2, HostMoves
  <2>4. ASSUME NEW c \in Clients
        PROVE  \/ command'[c] \in {command[c], "client-wait", "client-run"}
               \/ command'[c] = "client-start" /\ pc = "layout"
    BY <1>2, HostCommands, ServerIsNoClient DEF TypeOK
  <2>5. QED  BY <1>1, <2>1, <2>2, <2>3, <2>4 DEF AskedOnce
<1>3. CASE ServerGuest  BY <1>1, <1>3, ServerGuestFrame DEF AskedOnce
<1>4. ASSUME NEW c \in Clients, ClientGuest(c)  PROVE AskedOnce'
  <2>1. script'[c] \in Names \cup {"shell"} /\ command[c] \in Names \cup {"none"}
    <3>1. TypeOK'  BY <1>4, GuestTypes, Zenon DEF GuestStep
    <3>2. c \in Guests /\ c \in Guests'  BY <1>1, ServerIsNoClient, Zenon
    <3>3. QED  BY <3>1, <3>2, Zenon DEF TypeOK
  <2>2. \A d \in Clients : d # c =>
          command'[d] = command[d] /\ script'[d] = script[d] /\ workload'[d] = workload[d]
    BY <1>4, ClientGuestFrame, ServerIsNoClient
  <2>3. UNCHANGED pc  BY <1>4, ClientGuestFrame, Zenon
  <2>4. pc \in {"start", "layout"} =>
          workload'[c] = "none" /\ script'[c] = "shell" /\ command'[c] = "none"
    BY <1>4, <2>1, ClientGuestEffect, Zenon DEF AskedOnce, Names
  <2>5. command'[c] = "client-start" => script'[c] = "shell" /\ workload'[c] = "none"
    BY <1>4, ClientGuestEffect DEF AskedOnce
  <2>6. script'[c] = "client-start" => command'[c] # "client-start" /\ workload'[c] = "none"
    BY <1>4, ClientGuestEffect, Zenon DEF AskedOnce
  <2>7. QED  BY <1>1, <2>2, <2>3, <2>4, <2>5, <2>6 DEF AskedOnce
<1>5. ASSUME NEW g \in Guests, Fatal(g)  PROVE AskedOnce'
  BY <1>1, <1>5, FatalFrame, ServerIsNoClient, Zenon DEF AskedOnce
<1>6. CASE ReaderStep  BY <1>1, <1>6, ReaderFrame DEF AskedOnce
<1>7. QED  BY <1>2, <1>3, <1>4, <1>5, <1>6 DEF GuestStep

(* Every client of a dispatched cohort stays on its way.                    *)
LEMMA OnItsWayStep ==
  ASSUME TypeOK, ConsolesOK, AskedOnce, OnItsWay, LinesAreTrue, Awaited,
         UNCHANGED setup, Host \/ GuestStep \/ ReaderStep
  PROVE  OnItsWay'
<1>1. Clients' = Clients /\ Guests' = Guests /\ Mode' = Mode  BY SameSetup
<1>2. \A c \in Clients : Has(c, "FATAL") => Has(c, "FATAL")'
  BY LinesStay, ServerIsNoClient DEF Texts
<1>3. CASE Host
  <2> SUFFICES ASSUME Mode # "single", pc' \notin {"start", "layout", "failed"}, NEW c \in Clients
               PROVE  \/ command'[c] = "client-start" \/ script[c] = "client-start"
                      \/ workload[c] # "none" \/ Has(c, "FATAL")
    BY <1>1, <1>2, <1>3, HostFrame, Zenon DEF OnItsWay
  <2>1. \/ command'[c] = "client-start"
        \/ pc = "admit"
        \/ pc \notin {"start", "layout", "failed"} /\ command'[c] = command[c]
    BY <1>3, HostMoves, HostCommands, ServerIsNoClient, Zenon DEF TypeOK
  <2>2. CASE pc = "admit"
    BY <2>2, RecordedFacts, ServerIsNoClient DEF Awaited, AllWaiting, LinesAreTrue, Texts
  <2>3. QED  BY <2>1, <2>2 DEF OnItsWay
<1>4. CASE ServerGuest  BY <1>1, <1>2, <1>4, ServerGuestFrame, Zenon DEF OnItsWay
<1>5. ASSUME NEW c \in Clients, ClientGuest(c)  PROVE OnItsWay'
  <2>1. \A d \in Clients : d # c =>
          command'[d] = command[d] /\ script'[d] = script[d] /\ workload'[d] = workload[d]
    BY <1>5, ClientGuestFrame, ServerIsNoClient, Zenon
  <2>2. QED  BY <1>1, <1>2, <1>5, <2>1, ClientGuestFrame, ClientGuestEffect DEF OnItsWay
<1>6. ASSUME NEW g \in Guests, Fatal(g)  PROVE OnItsWay'
  BY <1>1, <1>2, <1>6, FatalFrame, ServerIsNoClient, Zenon DEF OnItsWay
<1>7. CASE ReaderStep  BY <1>1, <1>2, <1>7, ReaderFrame, Zenon DEF OnItsWay
<1>8. QED  BY <1>3, <1>4, <1>5, <1>6, <1>7 DEF GuestStep

-----------------------------------------------------------------------------
(* What the lines say.                                                      *)

(* A client's lines stay true of its workload.                              *)
LEMMA LinesAreTrueStep ==
  ASSUME TypeOK, ConsolesOK, AskedOnce, LinesAreTrue,
         UNCHANGED setup, Host \/ GuestStep \/ ReaderStep
  PROVE  LinesAreTrue'
<1>1. Clients' = Clients /\ Guests' = Guests /\ Mode' = Mode  BY SameSetup
<1>2. "WAITING" \in Texts /\ "EXIT" \in Texts  BY DEF Texts
<1>3. Clients \subseteq Guests  BY ServerIsNoClient
<1>4. ASSUME NEW c \in Clients
      PROVE  /\ Has(c, "WAITING")' => Has(c, "WAITING") \/ (Mode # "single" => workload'[c] = "ready")
             /\ Has(c, "EXIT")' => Has(c, "EXIT") \/ (workload[c] = "0" /\ UNCHANGED workload)
  <2>1. ExitLine(c) = "EXIT" => workload[c] = "0"  BY DEF ExitLine, LinesAreTrue
  <2>2. CASE Silent  BY <1>2, <1>3, <2>2, Zenon DEF Silent
  <2>3. ASSUME NEW g \in Guests, NEW line \in Texts, AddsLine(g, line)
        PROVE  /\ Has(c, "WAITING")' =>
                     Has(c, "WAITING") \/ (Mode # "single" => workload'[c] = "ready")
               /\ Has(c, "EXIT")' => Has(c, "EXIT") \/ (workload[c] = "0" /\ UNCHANGED workload)
    BY <1>2, <1>3, <2>1, <2>3 DEF AddsLine, Reason
  <2>4. QED  BY <2>2, <2>3, EveryLine
<1>5. ASSUME NEW c \in Clients
      PROVE  /\ workload[c] # "none" => workload'[c] # "none"
             /\ workload[c] \in {"0", "1"} => workload'[c] = workload[c]
             /\ rc'[c] = rc[c] \/ (rc'[c] \in {"empty", workload[c]} /\ UNCHANGED workload)
  <2>1. CASE UNCHANGED <<workload, rc>>  BY <2>1
  <2>2. CASE ClientGuest(c)
    <3>1. rc'[c] = rc[c] \/ (rc'[c] \in {"empty", workload[c]} /\ UNCHANGED workload)
      BY <2>2, Zenon DEF ClientGuest, BeginsClient, Begins, ClientReady, GateExpires, LaunchesWorkload,
         WorkloadRuns, ForwardsPhase, WritesRc, bounded_client_wait, client_run, clientVars,
         TypeOK
    <3>2. QED  BY <2>2, <3>1, ClientGuestEffect, Zenon
  <2>3. ASSUME NEW d \in Clients, d # c, ClientGuest(d)
        PROVE  workload'[c] = workload[c] /\ rc'[c] = rc[c]
    BY <1>3, <2>3, ClientGuestFrame, Zenon
  <2>4. QED
    BY <2>1, <2>2, <2>3, HostFrame, ServerGuestFrame, FatalFrame, ReaderFrame, Zenon DEF GuestStep
<1>6. ASSUME NEW c \in Clients
      PROVE  /\ Mode # "single" /\ Has(c, "WAITING")' => workload'[c] # "none"
             /\ rc'[c] \in {"0", "1"} => workload'[c] = rc'[c]
             /\ Has(c, "EXIT")' => workload'[c] = "0"
  BY <1>4, <1>5 DEF LinesAreTrue
<1>7. QED  BY <1>1, <1>6, Zenon DEF LinesAreTrue

(* A provider that said it stopped has stopped.                             *)
LEMMA StoppedIsTrueStep ==
  ASSUME TypeOK, ConsolesOK, StoppedIsTrue,
         UNCHANGED setup, Host \/ GuestStep \/ ReaderStep
  PROVE  StoppedIsTrue'
<1>1. Mode' = Mode  BY SameSetup
<1>2. "STOPPED" \in Texts /\ Server \in Guests  BY ServerIsNoClient DEF Texts
<1>3. Has(Server, "STOPPED")' => Has(Server, "STOPPED") \/ provider' = "stopped"
  <2>1. CASE Silent  BY <1>2, <2>1, Zenon DEF Silent
  <2>2. ASSUME NEW g \in Guests, NEW line \in Texts, AddsLine(g, line)
        PROVE  <1>3!:
    BY <1>2, <2>2 DEF AddsLine, Reason
  <2>3. QED  BY <2>1, <2>2, EveryLine
<1>4. Mode # "single" /\ provider = "stopped" => provider' = "stopped"
  <2>1. CASE ServerGuest
    BY <2>1 DEF ServerGuest, BeginsServer, Begins, server_start, bounded_server_start,
       ProviderRecovers, bounded_server_admit, bounded_server_stop, serverVars
  <2>2. QED
    BY <2>1, HostFrame, ClientGuestFrame, FatalFrame, ReaderFrame, Zenon DEF GuestStep
<1>5. QED  BY <1>1, <1>3, <1>4 DEF StoppedIsTrue

(* A script that the evidence reads has been echoed.                        *)
LEMMA EchoStep ==
  ASSUME TypeOK, ConsolesOK, EchoedFirst,
         UNCHANGED setup, Host \/ GuestStep \/ ReaderStep,
         NEW g \in Guests, NEW name \in EchoesRead, script'[g] = name
  PROVE  Has(g, name)'
<1>1. name \in Texts /\ name # "shell"  BY Zenon DEF Texts, EchoesRead
<1>2. CASE script[g] = name
  BY <1>1, <1>2, LinesStay DEF EchoedFirst
<1>3. CASE script[g] # name
  <2>1. PICK h \in Guests, n \in Names : Begins(h, n) /\ g = h /\ n = name
    <3>1. ~Host /\ ~ReaderStep  BY <1>3, HostFrame, ReaderFrame
    <3>2. CASE ServerGuest
      <4>1. g = Server
        BY <1>3, <3>2, ServerGuestFrame, ServerIsNoClient, Zenon DEF Guests, Clients, Server, TypeOK
      <4>2. \E n \in Names : Begins(Server, n) /\ n = name
        BY <1>1, <1>3, <3>2, <4>1, ServerIsNoClient DEF ServerGuest, BeginsServer, Begins,
           server_start, bounded_server_start,
       ProviderRecovers, bounded_server_admit, bounded_server_stop, TypeOK, Names
      <4>3. QED  BY <4>1, <4>2
    <3>3. ASSUME NEW c \in Clients, ClientGuest(c)
          PROVE  \E h \in Guests, n \in Names : Begins(h, n) /\ g = h /\ n = name
      <4>1. g = c  BY <1>3, <3>3, ClientGuestFrame, Zenon
      <4>2. \E n \in Names : Begins(c, n) /\ n = name
        BY <1>1, <1>3, <3>3, <4>1, ServerIsNoClient DEF ClientGuest, BeginsClient, Begins,
           ClientReady, GateExpires, LaunchesWorkload,
       WorkloadRuns, ForwardsPhase, WritesRc, bounded_client_wait, client_run, TypeOK, Names
      <4>3. QED  BY <4>1, <4>2
    <3>4. ASSUME NEW h \in Guests, Fatal(h)  PROVE FALSE
      BY <1>1, <1>3, <3>4, FatalFrame, Zenon
    <3>5. QED  BY <3>1, <3>2, <3>3, <3>4 DEF GuestStep
  <2>2. Prints(g, name)  BY <2>1 DEF Begins
  <2>3. QED  BY <1>1, <2>2, Printing
<1>4. QED  BY <1>2, <1>3

(* The milestones keep their order.                                         *)
LEMMA EchoedFirstStep ==
  ASSUME TypeOK, ConsolesOK, EchoedFirst,
         UNCHANGED setup, Host \/ GuestStep \/ ReaderStep
  PROVE  EchoedFirst'
<1>1. Clients' = Clients /\ Guests' = Guests /\ Mode' = Mode  BY SameSetup
<1>2. /\ "server-start" \in EchoesRead \cap Texts /\ "server-admit" \in EchoesRead \cap Texts
      /\ "client-start" \in EchoesRead \cap Texts
      /\ "LAYOUT" \in Texts /\ "RECOVERING" \in Texts /\ "READY" \in Texts /\ "WAITING" \in Texts
  BY DEF Texts, EchoesRead
<1>3. Server \in Guests /\ Clients \subseteq Guests  BY ServerIsNoClient
<1>4. \A g \in Guests : \A name \in EchoesRead : script'[g] = name => Has(g, name)'
  BY EchoStep
<1>5. command'[Server] = "server-admit" => Has(Server, "RECOVERING")'
  <2>1. Has(Server, "RECOVERING") => Has(Server, "RECOVERING")'  BY <1>2, <1>3, LinesStay
  <2>2. QED  BY <2>1, AdmitIsAsked, Zenon DEF EchoedFirst
<1>6. /\ \A c \in Clients : After(c, "client-start", "WAITING")'
      /\ provider' = "recovering" => Has(Server, "LAYOUT")'
      /\ After(Server, "server-start", "LAYOUT")' /\ After(Server, "LAYOUT", "RECOVERING")'
      /\ After(Server, "RECOVERING", "server-admit")'
      /\ Mode # "single" => After(Server, "server-admit", "READY")'
  <2>1. Has(Server, "LAYOUT") => Has(Server, "LAYOUT")'  BY <1>2, <1>3, LinesStay, Zenon
  <2>2. CASE Silent  BY <1>2, <1>3, <2>1, <2>2 DEF Silent, EchoedFirst
  <2>3. ASSUME NEW g \in Guests, NEW line \in Texts, AddsLine(g, line)
        PROVE  <1>6!:
    <3>1. ASSUME NEW c \in Clients  PROVE After(c, "client-start", "WAITING")'
      <4>1. g = c /\ line = "WAITING" => Has(c, "client-start")
        BY <1>2, <1>3, <2>3, Zenon DEF AddsLine, Reason, EchoedFirst
      <4>2. QED  BY <1>2, <1>3, <2>3, <4>1, Zenon DEF AddsLine, EchoedFirst
    <3>2. provider' = "recovering" => Has(Server, "LAYOUT")'
      BY <1>2, <1>3, <2>1, <2>3, Zenon DEF AddsLine, Reason, EchoedFirst
    <3>3. g = Server =>
            /\ line = "LAYOUT" => Has(Server, "server-start")
            /\ line = "RECOVERING" => Has(Server, "LAYOUT")
            /\ line = "server-admit" => Has(Server, "RECOVERING")
            /\ line = "READY" /\ Mode # "single" => Has(Server, "server-admit")
      BY <1>2, <1>3, <2>3, Zenon DEF AddsLine, Reason, EchoedFirst
    <3>4. /\ After(Server, "server-start", "LAYOUT")' /\ After(Server, "LAYOUT", "RECOVERING")'
          /\ After(Server, "RECOVERING", "server-admit")'
          /\ Mode # "single" => After(Server, "server-admit", "READY")'
      BY <1>2, <1>3, <2>3, <3>3, Zenon DEF AddsLine, EchoedFirst
    <3>5. QED  BY <3>1, <3>2, <3>4
  <2>4. QED  BY <2>2, <2>3, EveryLine
<1>7. QED  BY <1>1, <1>4, <1>5, <1>6, Zenon DEF EchoedFirst

-----------------------------------------------------------------------------
(* What the host has waited for.                                            *)

(* A wait that ends well has seen its marker.                               *)
LEMMA WaitsSee ==
  ASSUME TypeOK, ConsolesOK, Awaited,
         Host, NEW c \in Clients, waiter'[c] = "ok"
  PROVE  /\ pc' = "ready" /\ Mode # "single" => IsRecorded(c, "WAITING")
         /\ pc' = "work" => Has(c, "EXIT")
<1>1. CASE WaiterEnds(c) /\ waiter[c] = "waiting"
  <2>1. WaiterSatisfied(c) /\ pc' = pc  BY <1>1 DEF WaiterEnds, TypeOK
  <2>2. pc = "ready" /\ Mode # "single" => IsRecorded(c, "WAITING")
    BY <2>1 DEF WaiterSatisfied, wait_recorded_console, Marker
  <2>3. pc = "work" => IsShown(c, "EXIT")
    BY <2>1 DEF WaiterSatisfied, wait_recorded_console, wait_console, Marker
  <2>4. IsShown(c, "EXIT") => Has(c, "EXIT")
    BY ServerIsNoClient DEF IsShown, Has, ConsolesOK
  <2>5. QED  BY <2>1, <2>2, <2>3, <2>4
<1>2. CASE waiter[c] = "ok" /\ (pc' \in {"ready", "work"} => pc' = pc)
  BY <1>2 DEF Awaited
<1>3. \/ \E b \in Clients : WaiterEnds(b) /\ waiter[b] = "waiting"
      \/ UNCHANGED waiter /\ (pc' \in {"ready", "work"} => pc' = pc)
      \/ waiter' = [b \in Clients |-> "queued"] \/ waiter' = [b \in Clients |-> "waiting"]
      \/ \E b \in Clients : waiter' = [waiter EXCEPT ![b] = "waiting"] /\ pc' = pc
  BY Zenon DEF Host, HostStarts, HostDispatches, HostJoinsReady, HostRunsSingle, HostAdmits,
     HostServes, HostJoinsWork, HostValidates, HostStops, HostReadsTraces, WaiterStarts,
     WaiterEnds, Steps, Raise, Raises
<1>4. ASSUME NEW b \in Clients, b # c, WaiterEnds(b)  PROVE waiter'[c] = waiter[c] /\ pc' = pc
  BY <1>4 DEF WaiterEnds, TypeOK
<1>5. ASSUME NEW b \in Clients, waiter' = [waiter EXCEPT ![b] = "waiting"]
      PROVE  waiter'[c] = waiter[c]
  BY <1>5 DEF TypeOK
<1>6. QED  BY <1>1, <1>2, <1>3, <1>4, <1>5

(* What the host waited for is still there.                                 *)
LEMMA AwaitedStep ==
  ASSUME TypeOK, ConsolesOK, Awaited,
         UNCHANGED setup, Host \/ GuestStep \/ ReaderStep
  PROVE  Awaited'
<1> Clients' = Clients /\ Guests' = Guests /\ Mode' = Mode  BY SameSetup
<1> /\ "WAITING" \in Texts /\ "EXIT" \in Texts /\ "READY" \in Texts
    /\ "STOPPED" \in Texts
  BY DEF Texts
<1> Server \in Guests /\ Clients \subseteq Guests  BY ServerIsNoClient
<1>1. /\ \A c \in Clients : IsRecorded(c, "WAITING") => IsRecorded(c, "WAITING")'
      /\ \A c \in Clients : Has(c, "EXIT") => Has(c, "EXIT")'
      /\ IsRecorded(Server, "READY") => IsRecorded(Server, "READY")'
      /\ Has(Server, "STOPPED") => Has(Server, "STOPPED")'
  BY LinesStay
<1>2. CASE ~Host
  <2>1. UNCHANGED <<pc, waiter>>
    BY <1>2, ServerGuestFrame, ClientGuestFrame, FatalFrame, ReaderFrame, Zenon DEF GuestStep
  <2>2. QED  BY <1>1, <2>1 DEF Awaited, AllWaiting
<1>3. CASE Host
  <2>1. \A c \in Clients : waiter'[c] = "ok" =>
          /\ pc' = "ready" /\ Mode # "single" => IsRecorded(c, "WAITING")
          /\ pc' = "work" => Has(c, "EXIT")
    BY <1>3, WaitsSee
  <2>2. PoolEnded /\ ~PoolFailed => \A c \in Clients : waiter[c] = "ok"
    BY DEF PoolEnded, PoolFailed
  <2>3. Mode # "single" /\ pc' \notin {"start", "layout", "ready", "failed"} => AllWaiting
    <3>1. ASSUME Mode # "single", pc' \notin {"start", "layout", "ready", "failed"}
          PROVE  \/ pc \notin {"start", "layout", "ready", "failed"}
                 \/ pc = "ready" /\ PoolEnded /\ ~PoolFailed
      BY <1>3, <3>1, HostMoves
    <3>2. QED  BY <2>2, <3>1 DEF Awaited, AllWaiting
  <2>4. Mode # "single" /\ pc' \in {"work", "evidence"} => IsRecorded(Server, "READY")
    <3>1. ASSUME Mode # "single", pc' \in {"work", "evidence"}
          PROVE  pc \in {"work", "evidence"} \/ wait_recorded_console(Server, "READY")
      BY <1>3, <3>1, HostMoves
    <3>2. QED  BY <3>1 DEF Awaited, wait_recorded_console
  <2>5. Mode # "admission" /\ pc' \in {"evidence", "stop", "reading", "passed"} =>
          \A c \in Clients : Has(c, "EXIT")
    <3>1. ASSUME Mode # "admission", pc' \in {"evidence", "stop", "reading", "passed"}
          PROVE  \/ pc \in {"evidence", "stop", "reading", "passed"}
                 \/ pc = "work" /\ PoolEnded /\ ~PoolFailed
      BY <1>3, <3>1, HostMoves
    <3>2. QED  BY <2>2, <3>1 DEF Awaited
  <2>6. Mode # "single" /\ pc' \in {"reading", "passed"} => Has(Server, "STOPPED")
    <3>1. ASSUME Mode # "single", pc' \in {"reading", "passed"}
          PROVE  pc \in {"reading", "passed"} \/ wait_console(Server, "STOPPED")
      BY <1>3, <3>1, HostMoves
    <3>2. wait_console(Server, "STOPPED") => Has(Server, "STOPPED")
      BY DEF wait_console, IsShown, Has, ConsolesOK
    <3>3. QED  BY <3>1, <3>2 DEF Awaited
  <2>7. QED  BY <1>1, <2>1, <2>3, <2>4, <2>5, <2>6, Zenon DEF Awaited, AllWaiting
<1>4. QED  BY <1>2, <1>3

(* The cohort is admitted when all of it is recorded to wait, and admission *)
(* is recorded after that.                                                  *)
LEMMA AdmittedInOrderStep ==
  ASSUME TypeOK, ConsolesOK, EchoedFirst, Awaited, AdmittedInOrder,
         UNCHANGED setup, Host \/ GuestStep \/ ReaderStep
  PROVE  AdmittedInOrder'
<1> Clients' = Clients /\ Guests' = Guests /\ Mode' = Mode  BY SameSetup
<1> /\ "WAITING" \in Texts /\ "server-admit" \in Texts /\ "RECOVERING" \in Texts
    /\ "READY" \in Texts /\ "FATAL" \in Texts
  BY DEF Texts, EchoesRead
<1> Server \in Guests /\ Server \notin Clients /\ Clients \subseteq Guests
  BY ServerIsNoClient
<1>1. AllWaiting => AllWaiting'  BY LinesStay DEF AllWaiting
<1>2. ASSUME Mode # "single", command'[Server] = "server-admit" \/ Has(Server, "server-admit")'
      PROVE  \/ command[Server] = "server-admit" \/ Has(Server, "server-admit")
             \/ pc = "recovering"
  <2>1. CASE command'[Server] = "server-admit"  BY <2>1, AdmitIsAsked
  <2>2. Has(Server, "server-admit")' => Has(Server, "server-admit") \/ command[Server] = "server-admit"
    <3>1. CASE Silent  BY <3>1, Zenon DEF Silent
    <3>2. ASSUME NEW g \in Guests, NEW line \in Texts, AddsLine(g, line)
          PROVE  <2>2!:
      BY <3>2 DEF AddsLine, Reason, EchoesRead
    <3>3. QED  BY <3>1, <3>2, EveryLine
  <2>3. QED  BY <1>2, <2>1, <2>2
<1>3. Mode # "single" /\ (command'[Server] = "server-admit" \/ Has(Server, "server-admit")') => AllWaiting'
  <2>1. Mode # "single" /\ pc = "recovering" => AllWaiting  BY DEF Awaited
  <2>2. QED  BY <1>1, <1>2, <2>1, Zenon DEF AdmittedInOrder
<1>4. CASE UNCHANGED late
  BY <1>3, <1>4, Zenon DEF AdmittedInOrder, AdmissionInOrder
<1>5. ASSUME NEW g \in Guests, ReaderRecords(g), Mode # "single"  PROVE AdmissionInOrder'
  <2> DEFINE i == recorded[g] + 1
             m == <<g, printed[g][i]>>
  <2>1. /\ late' = IF \A f \in Follows(m) : IsRecorded(f[1], f[2]) THEN late ELSE late \cup {m}
        /\ i \in 1 .. Len(printed[g]) /\ recorded[g] \in Nat
    BY <1>5 DEF ReaderRecords, ConsolesOK
  <2>2. CASE m = <<Server, "server-admit">>
    <3>1. g = Server /\ printed[Server][i] = "server-admit"  BY <2>2, Zenon
    <3>2. AllWaiting  BY <1>5, <2>1, <3>1 DEF AdmittedInOrder, Has
    <3>3. IsRecorded(Server, "RECOVERING")
      <4>1. PICK j \in 1 .. i - 1 : printed[Server][j] = "RECOVERING"
        BY <2>1, <3>1, Zenon DEF EchoedFirst, After
      <4>2. j \in 1 .. recorded[Server]
        <5>1. i - 1 = recorded[Server]  BY <2>1, <3>1, OneBack, Zenon
        <5>2. QED  BY <4>1, <5>1, Zenon
      <4>3. QED  BY <4>1, <4>2, Zenon DEF IsRecorded
    <3>4. \A f \in Follows(m) : IsRecorded(f[1], f[2])
      <4>1. Follows(m) = {<<Server, "RECOVERING">>} \cup Clients \X {"WAITING"}
        BY <2>2 DEF Follows
      <4>2. \A f \in Clients \X {"WAITING"} : f[1] \in Clients /\ f[2] = "WAITING"  BY Zenon
      <4>3. QED  BY <3>2, <3>3, <4>1, <4>2 DEF AllWaiting
    <3>5. QED  BY <1>5, <2>1, <3>4, Zenon DEF AdmittedInOrder, AdmissionInOrder
  <2>3. CASE m = <<Server, "READY">>
    <3>1. g = Server /\ printed[Server][i] = "READY"  BY <2>3
    <3>2. IsRecorded(Server, "server-admit")
      <4>1. PICK j \in 1 .. i - 1 : printed[Server][j] = "server-admit"
        BY <1>5, <2>1, <3>1, Zenon DEF EchoedFirst, After
      <4>2. j \in 1 .. recorded[Server]
        <5>1. i - 1 = recorded[Server]  BY <2>1, <3>1, OneBack, Zenon
        <5>2. QED  BY <4>1, <5>1, Zenon
      <4>3. QED  BY <4>1, <4>2, Zenon DEF IsRecorded
    <3>3. Follows(m) = {<<Server, "server-admit">>}  BY <2>3 DEF Follows
    <3>4. \A f \in Follows(m) : IsRecorded(f[1], f[2])  BY <3>2, <3>3
    <3>5. QED  BY <1>5, <2>1, <3>4 DEF AdmittedInOrder, AdmissionInOrder
  <2>4. CASE m \notin {Server} \X {"server-admit", "READY"}
    BY <1>5, <2>1, <2>4, Zenon DEF AdmittedInOrder, AdmissionInOrder
  <2>5. QED  BY <2>2, <2>3, <2>4, Zenon
<1>6. ASSUME NEW g \in Guests, ReaderRecords(g)  PROVE AdmittedInOrder'
  BY <1>3, <1>5, <1>6 DEF AdmittedInOrder
<1>7. UNCHANGED late \/ \E g \in Guests : ReaderRecords(g)
  <2>1. ASSUME NEW g \in Guests, NEW line \in Texts, Prints(g, line)  PROVE UNCHANGED late
    BY <2>1 DEF Prints
  <2>2. CASE GuestStep  BY <2>1, <2>2, GuestLine DEF consoleVars
  <2>3. QED  BY <2>2, HostFrame, Zenon DEF ReaderStep, ReaderShows
<1>8. QED  BY <1>4, <1>6, <1>7
-----------------------------------------------------------------------------
(* The theorems.                                                            *)

(* IInv is an inductive invariant of every run with every cohort.           *)
THEOREM Invariance == Spec => []IInv
<1>1. Init => IInv
  <2> SUFFICES ASSUME Init PROVE IInv  OBVIOUS
  <2>1. TypeOK  BY DEF Init, TypeOK, Places
  <2>2. ConsolesOK /\ \A g \in Guests : Len(printed[g]) = 0  BY DEF Init, ConsolesOK
  <2>3. \A g \in Guests : \A l \in Texts : ~Has(g, l)  BY <2>2 DEF Has
  <2>4. \A g \in Guests : \A a, b \in Texts : After(g, a, b)  BY <2>2 DEF After
  <2>5. Server \in Guests /\ Clients \subseteq Guests  BY <2>1, ServerIsNoClient
  <2>6. AskedOnce /\ OnItsWay
    BY <2>5 DEF Init, AskedOnce, OnItsWay
  <2>7. LinesAreTrue  BY <2>3, <2>5 DEF Init, LinesAreTrue, Texts
  <2>8. EchoedFirst  BY <2>4, <2>5 DEF Init, EchoedFirst, Texts, EchoesRead
  <2>9. Awaited  BY DEF Init, Awaited
  <2>10. AdmittedInOrder
    BY <2>3, <2>5 DEF Init, AdmittedInOrder, AdmissionInOrder, Texts, EchoesRead
  <2>11. StoppedIsTrue  BY <2>3, <2>5 DEF StoppedIsTrue, Texts
  <2>12. QED  BY <2>1, <2>2, <2>6, <2>7, <2>8, <2>9, <2>10, <2>11 DEF IInv
<1>2. IInv /\ [Next]_vars => IInv'
  <2> SUFFICES ASSUME IInv, [Next]_vars PROVE IInv'  OBVIOUS
  <2>1. CASE UNCHANGED vars
    <3>0. /\ UNCHANGED <<setup, pc, waiter, command, printed, shown, recorded, script, workload, rc>>
          /\ Clients' = Clients /\ Guests' = Guests /\ Mode' = Mode
      BY <2>1, SameSetup DEF vars, hostVars, consoleVars, clientVars
    <3>1. TypeOK' /\ ConsolesOK' /\ AskedOnce' /\ OnItsWay'
      <4>1. TypeOK'  BY <3>0 DEF IInv, TypeOK
      <4>2. ConsolesOK'  BY <3>0 DEF IInv, ConsolesOK
      <4>3. AskedOnce'  BY <3>0 DEF IInv, AskedOnce
      <4>4. OnItsWay'  BY <3>0 DEF IInv, OnItsWay, Has
      <4>5. QED  BY <4>1, <4>2, <4>3, <4>4
    <3>2. LinesAreTrue' /\ EchoedFirst'
      <4>1. LinesAreTrue'  BY <3>0 DEF IInv, LinesAreTrue, Has
      <4>2. UNCHANGED provider  BY <2>1, Zenon DEF vars, serverVars
      <4>3. EchoedFirst'
        <5>1. \A g, l : Has(g, l)' <=> Has(g, l)  BY <3>0 DEF Has
        <5>2. \A g, a, b : After(g, a, b)' <=> After(g, a, b)  BY <3>0 DEF After
        <5>3. EchoedFirst  BY DEF IInv
        <5>4. QED  BY <3>0, <4>2, <5>1, <5>2, <5>3 DEF EchoedFirst
      <4>4. QED  BY <4>1, <4>3
    <3>3. Awaited' /\ AdmittedInOrder'
      <4>1. AllWaiting' <=> AllWaiting  BY <3>0 DEF AllWaiting, IsRecorded
      <4>2. \A g \in Guests : \A l \in Texts :
              (Has(g, l)' <=> Has(g, l)) /\ (IsRecorded(g, l)' <=> IsRecorded(g, l))
        BY <3>0, Silence DEF IInv
      <4>3. {"WAITING", "EXIT", "READY", "STOPPED"} \subseteq Texts  BY DEF Texts
      <4>4. Awaited'  BY <3>0, <4>1, <4>2, <4>3, ServerIsNoClient DEF IInv, Awaited
      <4>5. UNCHANGED late  BY <2>1 DEF vars, consoleVars
      <4>6. AdmittedInOrder'
        BY <3>0, <4>1, <4>5, Zenon DEF IInv, AdmittedInOrder, AdmissionInOrder, Has
      <4>7. QED  BY <4>4, <4>6
    <3>4. StoppedIsTrue'
      <4>1. UNCHANGED provider  BY <2>1 DEF vars, serverVars
      <4>2. QED  BY <3>0, <4>1, Zenon DEF IInv, StoppedIsTrue, Has
    <3>5. QED  BY <3>1, <3>2, <3>3, <3>4 DEF IInv
  <2>2. ASSUME UNCHANGED setup, Host \/ GuestStep \/ ReaderStep  PROVE IInv'
    <3>1. TypeOK'
      <4>1. CASE ReaderStep
        BY <2>2, <4>1, ReaderFrame, SameSetup DEF IInv, TypeOK
      <4>2. QED  BY <2>2, <4>1, HostTypes, GuestTypes DEF IInv
    <3>2. ConsolesOK'  BY <2>2, LinesStay DEF IInv
    <3>3. AskedOnce' /\ OnItsWay'  BY <2>2, AskedOnceStep, OnItsWayStep DEF IInv
    <3>4. LinesAreTrue' /\ EchoedFirst' /\ StoppedIsTrue'
      BY <2>2, LinesAreTrueStep, EchoedFirstStep, StoppedIsTrueStep DEF IInv
    <3>5. Awaited' /\ AdmittedInOrder'  BY <2>2, AwaitedStep, AdmittedInOrderStep DEF IInv
    <3>6. QED  BY <3>1, <3>2, <3>3, <3>4, <3>5 DEF IInv
  <2>3. Next => UNCHANGED vars \/ (UNCHANGED setup /\ (Host \/ GuestStep \/ ReaderStep))
    BY DEF Next, Ended, GuestStep, ReaderStep
  <2>4. QED  BY <2>1, <2>2, <2>3
<1>3. QED  BY <1>1, <1>2, PTL DEF Spec

(* For every cohort, pool size and number of failures: from the moment the   *)
(* host begins to wait for the cohort, none of it is left unasked, which a  *)
(* READY client would wait for at its gate in vain: each client has its     *)
(* command, is starting, has a workload, or has said that it failed.        *)
THEOREM CohortUnderWayAlways == Spec => []OnItsWay
<1>1. IInv => OnItsWay  BY DEF IInv
<1>2. QED  BY <1>1, Invariance, PTL

(* When the evidence is built, the milestones are recorded and admission is *)
(* recorded in order: the recorded waits bring the last line of each        *)
(* console, and a console is recorded in the order in which it printed.     *)
THEOREM EvidenceIsRecordedAlways == Spec => []EvidenceIsRecorded
<1>1. IInv => EvidenceIsRecorded
  <2> SUFFICES ASSUME IInv, pc = "evidence", Mode # "single"
               PROVE  MilestonesRecorded /\ AdmissionInOrder
    BY DEF EvidenceIsRecorded
  <2>1. Server \in Guests /\ Clients \subseteq Guests  BY ServerIsNoClient DEF IInv
  <2>2. {"server-start", "LAYOUT", "RECOVERING", "server-admit", "READY", "client-start",
         "WAITING"} \subseteq Texts
    BY DEF Texts, EchoesRead
  <2>3. ConsolesOK /\ EchoedFirst /\ Awaited  BY DEF IInv
  <2>4. IsRecorded(Server, "READY") /\ AllWaiting  BY <2>3 DEF Awaited
  <2>5. \A c \in Clients : IsRecorded(c, "WAITING") /\ IsRecorded(c, "client-start")
    BY <2>1, <2>2, <2>3, <2>4, RecordedFacts, Zenon DEF AllWaiting, EchoedFirst
  <2>6. IsRecorded(Server, "server-admit")
    BY <2>1, <2>2, <2>3, <2>4, RecordedFacts, Zenon DEF EchoedFirst
  <2>7. IsRecorded(Server, "RECOVERING")
    BY <2>1, <2>2, <2>3, <2>6, RecordedFacts, Zenon DEF EchoedFirst
  <2>8. IsRecorded(Server, "LAYOUT")
    BY <2>1, <2>2, <2>3, <2>7, RecordedFacts, Zenon DEF EchoedFirst
  <2>9. IsRecorded(Server, "server-start")
    BY <2>1, <2>2, <2>3, <2>8, RecordedFacts DEF EchoedFirst
  <2>10. MilestonesRecorded
    <3> SUFFICES ASSUME NEW m \in Milestones  PROVE IsRecorded(m[1], m[2])
      BY DEF MilestonesRecorded
    <3>1. CASE m \in Clients \X {"client-start", "WAITING"}
      <4>1. m[1] \in Clients /\ m[2] \in {"client-start", "WAITING"}  BY <3>1
      <4>2. QED  BY <2>5, <4>1
    <3>2. CASE m \notin Clients \X {"client-start", "WAITING"}
      <4>1. m[1] = Server /\ m[2] \in {"server-start", "LAYOUT", "RECOVERING", "server-admit", "READY"}
        BY <3>2 DEF Milestones
      <4>2. QED  BY <2>4, <2>6, <2>7, <2>8, <2>9, <4>1
    <3>3. QED  BY <3>1, <3>2
  <2>11. QED  BY <2>10 DEF IInv, AdmittedInOrder
<1>2. QED  BY <1>1, Invariance, PTL

(* A run passes only when every workload ended with status 0 and, with a    *)
(* bounded cohort, the provider has stopped: the lines the host has waited  *)
(* for are true of what they speak of.                                      *)
THEOREM SuccessIsRealAlways == Spec => []SuccessIsReal
<1>1. IInv => SuccessIsReal
  BY DEF IInv, SuccessIsReal, Awaited, LinesAreTrue, StoppedIsTrue
<1>2. QED  BY <1>1, Invariance, PTL
=============================================================================
