--------------------------- MODULE LocalRpcProofs ---------------------------
(***************************************************************************)
(* Proofs about LocalRpc, for any number of calls and of unread lines and  *)
(* whatever numbers the server uses itself.  What makes the properties     *)
(* inductive is what may stand in the output (LinesAreEarned) and what the *)
(* handshake has been told so far (HandshakeSoFar).                        *)
(***************************************************************************)
EXTENDS LocalRpc, Integers, TLAPS

\* Numbers a line of the present process may carry.
Earned == (heard \cap said) \cup ServerId

LinesAreEarned ==
  \A line \in stdout : line.kind # "scalar" => line.id \in Earned

HandshakeSoFar ==
  /\ stage \in {"init", "list"} => nextId > 0 /\ (call[Last] \in Accepted => Last \in Earned)
  /\ stage = "list" => nextId > 1 /\ nextId - 2 \in Earned

\* Until a client is connected, only its handshake can be waiting.
OnlyHandshakeWaits ==
  /\ stage \in {"init", "list"} => Waiting \subseteq {Last}
  /\ stage \in {"spawn", "settle", "failed"} \/ (stage = "cleanup" /\ then # "closed")
       => Waiting = {}

IInv ==
  /\ TypeOK /\ LinesAreEarned /\ HandshakeSoFar /\ OnlyHandshakeWaits
  /\ WaitersAreHeeded

-----------------------------------------------------------------------------
(* Lines of output.                                                         *)

LEMMA LineTyped ==
  ASSUME NEW line \in Line, line.kind # "scalar"
  PROVE  line.id \in Id /\ line.kind \in {"answer", "error", "request"}
<1>1. line \in [kind : {"answer", "error", "request"}, id : Id]
  BY DEF Line
<1>2. QED
  BY <1>1

LEMMA ChatterTyped == stdout \subseteq Line /\ Chatters => stdout' \subseteq Line
<1>1. [kind |-> "scalar"] \in Line /\ \A i \in ServerId : [kind |-> "request", id |-> i] \in Line
  BY LocalRpcAssumption DEF Line, Id
<1>2. ASSUME NEW line \in Line, stdout \subseteq Line, Prints(line) PROVE stdout' \subseteq Line
  BY <1>2 DEF Prints
<1>3. QED
  BY <1>1, <1>2, Zenon DEF Chatters

-----------------------------------------------------------------------------
(* One lemma for each group of conjuncts, one step for each action.         *)

\* Every step keeps the types, and numbers are given out in order.
LEMMA TypeStep == TypeOK /\ [Next]_vars => TypeOK'
<1>1. SUFFICES ASSUME TypeOK, [Next]_vars PROVE TypeOK'
  OBVIOUS
<1> USE LocalRpcAssumption DEF TypeOK, Id, Line
<1>2. ASSUME NEW line \in stdout, Reads(line) PROVE TypeOK'
  <2>1. line.id \in Id /\ line.kind \in {"answer", "error", "request"}
    BY <1>1, <1>2, LineTyped DEF Reads
  <2>2. QED
    BY <1>1, <1>2, <2>1 DEF Reads, Addressee, Resolvable, process, control, calls
<1>3. CASE ReaderBreaks
  BY <1>1, <1>3 DEF ReaderBreaks, process, control, calls
<1>4. CASE EndOfOutput
  BY <1>1, <1>4 DEF EndOfOutput, EofFails, Resolvable, process, control, calls
<1>5. CASE Spawn
  BY <1>1, <1>5 DEF Spawn, FirstId, process, control, calls
<1>6. CASE SpawnFails
  BY <1>1, <1>6 DEF SpawnFails, process, control, calls
<1>7. CASE ExitsEarly
  BY <1>1, <1>7 DEF ExitsEarly, Fails, MayRetry, process, control, calls
<1>8. CASE Initialize
  BY <1>1, <1>8 DEF Initialize, Send, process, control, calls
<1>9. CASE ListTools
  BY <1>1, <1>9 DEF ListTools, Send, Last, Accepted, process, control, calls
<1>10. CASE Connected
  BY <1>1, <1>10 DEF Connected, process, control, calls
<1>11. CASE Refused
  BY <1>1, <1>11 DEF Refused, Fails, MayRetry, process, control, calls
<1>12. CASE HandshakeTimesOut
  BY <1>1, <1>12 DEF HandshakeTimesOut, Fails, MayRetry, Diagnosed, process, control, calls
<1>13. CASE HandshakeRaises
  BY <1>1, <1>13 DEF HandshakeRaises, Accepted, Fails, MayRetry, Diagnosed, process, control, calls
<1>14. CASE CleanupReader
  BY <1>1, <1>14 DEF CleanupReader, process, control, calls
<1>15. CASE CleanupProcess
  BY <1>1, <1>15 DEF CleanupProcess, process, control, calls
<1>16. CASE Chatters
  <2>1. stdout' \subseteq Line
    BY <1>1, <1>16, ChatterTyped
  <2>2. QED
    BY <1>1, <1>16, <2>1 DEF Chatters, Prints, process, control, calls
<1>17. CASE Dies
  BY <1>1, <1>17 DEF Dies, process, control, calls
<1>18. CASE Reaped
  BY <1>1, <1>18 DEF Reaped, process, control, calls
<1>19. CASE Invoke
  BY <1>1, <1>19 DEF Invoke, Send, process, control, calls
<1>20. CASE Disconnect
  BY <1>1, <1>20 DEF Disconnect, process, control, calls
<1>21. ASSUME NEW i \in Id, Answers(i) PROVE TypeOK'
  BY <1>1, <1>21 DEF Answers, Prints, process, control, calls
<1>22. ASSUME NEW i \in Id, TimesOut(i) PROVE TypeOK'
  BY <1>1, <1>22 DEF TimesOut, process, control, calls
<1>23. CASE UNCHANGED vars
  BY <1>1, <1>23 DEF vars, process, control, calls
<1>24. QED
  BY <1>1, <1>2, <1>3, <1>4, <1>5, <1>6, <1>7, <1>8, <1>9, <1>10, <1>11, <1>12,
     <1>13, <1>14, <1>15, <1>16, <1>17, <1>18, <1>19, <1>20, <1>21, <1>22, <1>23
     DEF Next, ReaderStep, ClientStep

\* A process answers only what it has received.
LEMMA LinesStep == TypeOK /\ LinesAreEarned /\ [Next]_vars => LinesAreEarned'
<1>1. SUFFICES ASSUME TypeOK, LinesAreEarned, [Next]_vars PROVE LinesAreEarned'
  OBVIOUS
<1> USE LocalRpcAssumption DEF TypeOK, Id, Line, LinesAreEarned, Earned
<1>2. ASSUME NEW line \in stdout, Reads(line) PROVE LinesAreEarned'
  BY <1>1, <1>2 DEF Reads, Addressee, Resolvable, process, control, calls
<1>3. CASE ReaderBreaks
  BY <1>1, <1>3 DEF ReaderBreaks, process, control, calls
<1>4. CASE EndOfOutput
  BY <1>1, <1>4 DEF EndOfOutput, EofFails, Resolvable, process, control, calls
<1>5. CASE Spawn
  BY <1>1, <1>5 DEF Spawn, FirstId, process, control, calls
<1>6. CASE SpawnFails
  BY <1>1, <1>6 DEF SpawnFails, process, control, calls
<1>7. CASE ExitsEarly
  BY <1>1, <1>7 DEF ExitsEarly, Fails, MayRetry, process, control, calls
<1>8. CASE Initialize
  BY <1>1, <1>8 DEF Initialize, Send, process, control, calls
<1>9. CASE ListTools
  BY <1>1, <1>9 DEF ListTools, Send, Last, Accepted, process, control, calls
<1>10. CASE Connected
  BY <1>1, <1>10 DEF Connected, process, control, calls
<1>11. CASE Refused
  BY <1>1, <1>11 DEF Refused, Fails, MayRetry, process, control, calls
<1>12. CASE HandshakeTimesOut
  BY <1>1, <1>12 DEF HandshakeTimesOut, Fails, MayRetry, Diagnosed, process, control, calls
<1>13. CASE HandshakeRaises
  BY <1>1, <1>13 DEF HandshakeRaises, Accepted, Fails, MayRetry, Diagnosed, process, control, calls
<1>14. CASE CleanupReader
  BY <1>1, <1>14 DEF CleanupReader, process, control, calls
<1>15. CASE CleanupProcess
  BY <1>1, <1>15 DEF CleanupProcess, process, control, calls
<1>16. CASE Chatters
  <2>1. CASE Prints([kind |-> "scalar"])
    BY <1>1, <1>16, <2>1 DEF Chatters, Prints, process, control, calls
  <2>2. ASSUME NEW i \in ServerId, Prints([kind |-> "request", id |-> i])
        PROVE  LinesAreEarned'
    BY <1>1, <1>16, <2>2 DEF Chatters, Prints, process, control, calls
  <2>3. QED
    BY <1>16, <2>1, <2>2 DEF Chatters
<1>17. CASE Dies
  BY <1>1, <1>17 DEF Dies, process, control, calls
<1>18. CASE Reaped
  BY <1>1, <1>18 DEF Reaped, process, control, calls
<1>19. CASE Invoke
  BY <1>1, <1>19 DEF Invoke, Send, process, control, calls
<1>20. CASE Disconnect
  BY <1>1, <1>20 DEF Disconnect, process, control, calls
<1>21. ASSUME NEW i \in Id, Answers(i) PROVE LinesAreEarned'
  BY <1>1, <1>21 DEF Answers, Prints, process, control, calls
<1>22. ASSUME NEW i \in Id, TimesOut(i) PROVE LinesAreEarned'
  BY <1>1, <1>22 DEF TimesOut, process, control, calls
<1>23. CASE UNCHANGED vars
  BY <1>1, <1>23 DEF vars, process, control, calls
<1>24. QED
  BY <1>1, <1>2, <1>3, <1>4, <1>5, <1>6, <1>7, <1>8, <1>9, <1>10, <1>11, <1>12,
     <1>13, <1>14, <1>15, <1>16, <1>17, <1>18, <1>19, <1>20, <1>21, <1>22, <1>23
     DEF Next, ReaderStep, ClientStep

\* Between spawn and connected, only lines of the spawned process are taken.
LEMMA HandshakeStep == TypeOK /\ LinesAreEarned /\ HandshakeSoFar /\ [Next]_vars => HandshakeSoFar'
<1>1. SUFFICES ASSUME TypeOK, LinesAreEarned, HandshakeSoFar, [Next]_vars PROVE HandshakeSoFar'
  OBVIOUS
<1> USE LocalRpcAssumption DEF TypeOK, Id, Line, LinesAreEarned, HandshakeSoFar, Earned, Last,
        Accepted
<1>2. ASSUME NEW line \in stdout, Reads(line) PROVE HandshakeSoFar'
  BY <1>1, <1>2 DEF Reads, Addressee, Resolvable, process, control, calls
<1>3. CASE ReaderBreaks
  BY <1>1, <1>3 DEF ReaderBreaks, process, control, calls
<1>4. CASE EndOfOutput
  BY <1>1, <1>4 DEF EndOfOutput, EofFails, Resolvable, process, control, calls
<1>5. CASE Spawn
  BY <1>1, <1>5 DEF Spawn, FirstId, process, control, calls
<1>6. CASE SpawnFails
  BY <1>1, <1>6 DEF SpawnFails, process, control, calls
<1>7. CASE ExitsEarly
  BY <1>1, <1>7 DEF ExitsEarly, Fails, MayRetry, process, control, calls
<1>8. CASE Initialize
  BY <1>1, <1>8 DEF Initialize, Send, process, control, calls
<1>9. CASE ListTools
  BY <1>1, <1>9 DEF ListTools, Send, Last, Accepted, process, control, calls
<1>10. CASE Connected
  BY <1>1, <1>10 DEF Connected, process, control, calls
<1>11. CASE Refused
  BY <1>1, <1>11 DEF Refused, Fails, MayRetry, process, control, calls
<1>12. CASE HandshakeTimesOut
  BY <1>1, <1>12 DEF HandshakeTimesOut, Fails, MayRetry, Diagnosed, process, control, calls
<1>13. CASE HandshakeRaises
  BY <1>1, <1>13 DEF HandshakeRaises, Accepted, Fails, MayRetry, Diagnosed, process, control, calls
<1>14. CASE CleanupReader
  BY <1>1, <1>14 DEF CleanupReader, process, control, calls
<1>15. CASE CleanupProcess
  BY <1>1, <1>15 DEF CleanupProcess, process, control, calls
<1>16. CASE Chatters
  BY <1>1, <1>16 DEF Chatters, Prints, process, control, calls
<1>17. CASE Dies
  BY <1>1, <1>17 DEF Dies, process, control, calls
<1>18. CASE Reaped
  BY <1>1, <1>18 DEF Reaped, process, control, calls
<1>19. CASE Invoke
  BY <1>1, <1>19 DEF Invoke, Send, process, control, calls
<1>20. CASE Disconnect
  BY <1>1, <1>20 DEF Disconnect, process, control, calls
<1>21. ASSUME NEW i \in Id, Answers(i) PROVE HandshakeSoFar'
  BY <1>1, <1>21 DEF Answers, Prints, process, control, calls
<1>22. ASSUME NEW i \in Id, TimesOut(i) PROVE HandshakeSoFar'
  BY <1>1, <1>22 DEF TimesOut, process, control, calls
<1>23. CASE UNCHANGED vars
  BY <1>1, <1>23 DEF vars, process, control, calls
<1>24. QED
  BY <1>1, <1>2, <1>3, <1>4, <1>5, <1>6, <1>7, <1>8, <1>9, <1>10, <1>11, <1>12,
     <1>13, <1>14, <1>15, <1>16, <1>17, <1>18, <1>19, <1>20, <1>21, <1>22, <1>23
     DEF Next, ReaderStep, ClientStep

\* A handshake sends one request at a time and goes on when it has ended.
LEMMA WaitStep == TypeOK /\ HandshakeSoFar /\ OnlyHandshakeWaits /\ [Next]_vars => OnlyHandshakeWaits'
<1>1. SUFFICES ASSUME TypeOK, HandshakeSoFar, OnlyHandshakeWaits, [Next]_vars PROVE OnlyHandshakeWaits'
  OBVIOUS
<1> USE LocalRpcAssumption DEF TypeOK, Id, Line, HandshakeSoFar, OnlyHandshakeWaits, Waiting, Last,
        Accepted
<1>2. ASSUME NEW line \in stdout, Reads(line) PROVE OnlyHandshakeWaits'
  BY <1>1, <1>2 DEF Reads, Addressee, Resolvable, process, control, calls
<1>3. CASE ReaderBreaks
  BY <1>1, <1>3 DEF ReaderBreaks, process, control, calls
<1>4. CASE EndOfOutput
  BY <1>1, <1>4 DEF EndOfOutput, EofFails, Resolvable, process, control, calls
<1>5. CASE Spawn
  BY <1>1, <1>5 DEF Spawn, FirstId, process, control, calls
<1>6. CASE SpawnFails
  BY <1>1, <1>6 DEF SpawnFails, process, control, calls
<1>7. CASE ExitsEarly
  BY <1>1, <1>7 DEF ExitsEarly, Fails, MayRetry, process, control, calls
<1>8. CASE Initialize
  BY <1>1, <1>8 DEF Initialize, Send, process, control, calls
<1>9. CASE ListTools
  BY <1>1, <1>9 DEF ListTools, Send, Last, Accepted, process, control, calls
<1>10. CASE Connected
  BY <1>1, <1>10 DEF Connected, process, control, calls
<1>11. CASE Refused
  BY <1>1, <1>11 DEF Refused, Fails, MayRetry, process, control, calls
<1>12. CASE HandshakeTimesOut
  BY <1>1, <1>12 DEF HandshakeTimesOut, Fails, MayRetry, Diagnosed, process, control, calls
<1>13. CASE HandshakeRaises
  BY <1>1, <1>13 DEF HandshakeRaises, Accepted, Fails, MayRetry, Diagnosed, process, control, calls
<1>14. CASE CleanupReader
  BY <1>1, <1>14 DEF CleanupReader, process, control, calls
<1>15. CASE CleanupProcess
  BY <1>1, <1>15 DEF CleanupProcess, process, control, calls
<1>16. CASE Chatters
  BY <1>1, <1>16 DEF Chatters, Prints, process, control, calls
<1>17. CASE Dies
  BY <1>1, <1>17 DEF Dies, process, control, calls
<1>18. CASE Reaped
  BY <1>1, <1>18 DEF Reaped, process, control, calls
<1>19. CASE Invoke
  BY <1>1, <1>19 DEF Invoke, Send, process, control, calls
<1>20. CASE Disconnect
  BY <1>1, <1>20 DEF Disconnect, process, control, calls
<1>21. ASSUME NEW i \in Id, Answers(i) PROVE OnlyHandshakeWaits'
  BY <1>1, <1>21 DEF Answers, Prints, process, control, calls
<1>22. ASSUME NEW i \in Id, TimesOut(i) PROVE OnlyHandshakeWaits'
  BY <1>1, <1>22 DEF TimesOut, process, control, calls
<1>23. CASE UNCHANGED vars
  BY <1>1, <1>23 DEF vars, process, control, calls
<1>24. QED
  BY <1>1, <1>2, <1>3, <1>4, <1>5, <1>6, <1>7, <1>8, <1>9, <1>10, <1>11, <1>12,
     <1>13, <1>14, <1>15, <1>16, <1>17, <1>18, <1>19, <1>20, <1>21, <1>22, <1>23
     DEF Next, ReaderStep, ClientStep

\* Keys leave the table only with their futures done, or in a clean-up.
LEMMA HeedStep == TypeOK /\ OnlyHandshakeWaits /\ WaitersAreHeeded /\ [Next]_vars => WaitersAreHeeded'
<1>1. SUFFICES ASSUME TypeOK, OnlyHandshakeWaits, WaitersAreHeeded, [Next]_vars PROVE WaitersAreHeeded'
  OBVIOUS
<1> USE LocalRpcAssumption DEF TypeOK, Id, Line, WaitersAreHeeded, Waiting, OnlyHandshakeWaits
<1>2. ASSUME NEW line \in stdout, Reads(line) PROVE WaitersAreHeeded'
  BY <1>1, <1>2 DEF Reads, Addressee, Resolvable, process, control, calls
<1>3. CASE ReaderBreaks
  BY <1>1, <1>3 DEF ReaderBreaks, process, control, calls
<1>4. CASE EndOfOutput
  BY <1>1, <1>4 DEF EndOfOutput, EofFails, Resolvable, process, control, calls
<1>5. CASE Spawn
  BY <1>1, <1>5 DEF Spawn, FirstId, process, control, calls
<1>6. CASE SpawnFails
  BY <1>1, <1>6 DEF SpawnFails, process, control, calls
<1>7. CASE ExitsEarly
  BY <1>1, <1>7 DEF ExitsEarly, Fails, MayRetry, process, control, calls
<1>8. CASE Initialize
  BY <1>1, <1>8 DEF Initialize, Send, process, control, calls
<1>9. CASE ListTools
  BY <1>1, <1>9 DEF ListTools, Send, Last, Accepted, process, control, calls
<1>10. CASE Connected
  BY <1>1, <1>10 DEF Connected, process, control, calls
<1>11. CASE Refused
  BY <1>1, <1>11 DEF Refused, Fails, MayRetry, process, control, calls
<1>12. CASE HandshakeTimesOut
  BY <1>1, <1>12 DEF HandshakeTimesOut, Fails, MayRetry, Diagnosed, process, control, calls
<1>13. CASE HandshakeRaises
  BY <1>1, <1>13 DEF HandshakeRaises, Accepted, Fails, MayRetry, Diagnosed, process, control, calls
<1>14. CASE CleanupReader
  BY <1>1, <1>14 DEF CleanupReader, process, control, calls
<1>15. CASE CleanupProcess
  BY <1>1, <1>15 DEF CleanupProcess, process, control, calls
<1>16. CASE Chatters
  BY <1>1, <1>16 DEF Chatters, Prints, process, control, calls
<1>17. CASE Dies
  BY <1>1, <1>17 DEF Dies, process, control, calls
<1>18. CASE Reaped
  BY <1>1, <1>18 DEF Reaped, process, control, calls
<1>19. CASE Invoke
  BY <1>1, <1>19 DEF Invoke, Send, process, control, calls
<1>20. CASE Disconnect
  BY <1>1, <1>20 DEF Disconnect, process, control, calls
<1>21. ASSUME NEW i \in Id, Answers(i) PROVE WaitersAreHeeded'
  BY <1>1, <1>21 DEF Answers, Prints, process, control, calls
<1>22. ASSUME NEW i \in Id, TimesOut(i) PROVE WaitersAreHeeded'
  BY <1>1, <1>22 DEF TimesOut, process, control, calls
<1>23. CASE UNCHANGED vars
  BY <1>1, <1>23 DEF vars, process, control, calls
<1>24. QED
  BY <1>1, <1>2, <1>3, <1>4, <1>5, <1>6, <1>7, <1>8, <1>9, <1>10, <1>11, <1>12,
     <1>13, <1>14, <1>15, <1>16, <1>17, <1>18, <1>19, <1>20, <1>21, <1>22, <1>23
     DEF Next, ReaderStep, ClientStep

-----------------------------------------------------------------------------
(* The client's calls as RpcPromise sees them.                              *)

Answered == {i \in Id : call[i] \in {"answer", "error", "request"}}
Lost     == {i \in Id : call[i] \in {"failed", "timeout"}}

LEMMA Idle == call' = call /\ said' = said => UNCHANGED Promise!vars
BY DEF Promise!vars, Waiting

\* A request is made, and waits or fails at once.
LEMMA Asked == ASSUME TypeOK, Send PROVE Promise!Next
<1>1. PICK n \in Id : n = nextId
  BY LocalRpcAssumption DEF TypeOK, Send, Id
<1>2. call \in [Id -> {"unsent", "waiting", "answer", "error", "request", "failed", "timeout"}]
  BY DEF TypeOK
<1>3. call[n] = "unsent" /\ said' = said
  BY <1>1 DEF TypeOK, Send
<1>4. Answered' = Answered /\ n \notin Waiting \cup Answered \cup Lost
  BY <1>1, <1>2, <1>3 DEF Send, Answered, Waiting, Lost
<1>5. Promise!Ask(n)
  <2>1. CASE call' = [call EXCEPT ![n] = "waiting"]
    BY <1>2, <1>3, <1>4, <2>1 DEF Promise!Ask, Waiting, Answered, Lost
  <2>2. CASE call' = [call EXCEPT ![n] = "failed"]
    BY <1>2, <1>3, <1>4, <2>2 DEF Promise!Ask, Waiting, Answered, Lost
  <2>3. QED
    BY <1>1, <2>1, <2>2 DEF Send
<1>6. QED
  BY <1>5 DEF Promise!Next

\* A waiting call is resolved by a line it has earned.
LEMMA Returned ==
  ASSUME TypeOK, LinesAreEarned, NEW line \in stdout, Reads(line)
  PROVE  Promise!Next \/ UNCHANGED Promise!vars
<1> DEFINE i == line.id
<1>1. i \in Id /\ line.kind \in {"answer", "error", "request"}
  BY LineTyped DEF TypeOK, Reads
<1>2. i \in said \cup ServerId /\ said' = said
  BY <1>1 DEF LinesAreEarned, Earned, Reads
<1>3. call \in [Id -> {"unsent", "waiting", "answer", "error", "request", "failed", "timeout"}]
  BY DEF TypeOK
<1>4. CASE Resolvable(i)
  <2>1. call[i] = "waiting" /\ call' = [call EXCEPT ![i] = line.kind]
    BY <1>4 DEF Reads, Addressee, Resolvable
  <2>2. Waiting' = Waiting \ {i} /\ Answered' = Answered \cup {i} /\ Lost' = Lost /\ i \in Waiting
    BY <1>1, <1>3, <2>1 DEF Waiting, Answered, Lost
  <2>3. Promise!Return(i)
    BY <1>2, <2>2 DEF Promise!Return, Answered, Lost
  <2>4. QED
    BY <1>1, <2>3 DEF Promise!Next
<1>5. CASE ~Resolvable(i)
  BY <1>2, <1>5, Idle DEF Reads, Addressee
<1>6. QED
  BY <1>4, <1>5

\* Calls fail together, and nobody else's fate changes.
LEMMA FailTogether ==
  ASSUME TypeOK, NEW S \in SUBSET Waiting, NEW how \in {"failed", "timeout"},
         call' = [i \in Id |-> IF i \in S THEN how ELSE call[i]], said' = said
  PROVE  Promise!Next
<1>1. call \in [Id -> {"unsent", "waiting", "answer", "error", "request", "failed", "timeout"}]
  BY DEF TypeOK
<1>2. Waiting' = Waiting \ S /\ Answered' = Answered /\ Lost' = Lost \cup S
  BY <1>1 DEF Waiting, Answered, Lost
<1>3. QED
  BY <1>2 DEF Promise!Next, Promise!Fail, Answered, Lost

LEMMA PromiseStep == TypeOK /\ LinesAreEarned /\ [Next]_vars => [Promise!Next]_(Promise!vars)
<1>1. SUFFICES ASSUME TypeOK, LinesAreEarned, [Next]_vars
               PROVE  Promise!Next \/ UNCHANGED Promise!vars
  OBVIOUS
<1>2. ASSUME NEW line \in stdout, Reads(line) PROVE Promise!Next \/ UNCHANGED Promise!vars
  BY <1>1, <1>2, Returned
<1>3. CASE EndOfOutput
  <2> DEFINE S == {i \in Id : Resolvable(i)}
  <2>1. S \in SUBSET Waiting
    BY DEF Resolvable, Waiting
  <2>2. call' = [i \in Id |-> IF i \in S THEN "failed" ELSE call[i]] /\ said' = said
    BY <1>3 DEF EndOfOutput, EofFails
  <2>3. QED
    BY <1>1, <2>1, <2>2, FailTogether
<1>4. ASSUME NEW i \in Id, TimesOut(i) PROVE Promise!Next
  <2>1. {i} \in SUBSET Waiting
    BY <1>4 DEF TimesOut, Waiting
  <2>2. call' = [j \in Id |-> IF j \in {i} THEN "timeout" ELSE call[j]] /\ said' = said
    BY <1>1, <1>4 DEF TimesOut, TypeOK
  <2>3. QED
    BY <1>1, <2>1, <2>2, FailTogether
<1>5. CASE Initialize \/ ListTools \/ Invoke
  <2>1. Send
    BY <1>5 DEF Initialize, ListTools, Invoke
  <2>2. QED
    BY <1>1, <2>1, Asked
<1>6. ASSUME NEW i \in Id, Answers(i) PROVE Promise!Next
  <2>1. call' = call /\ said' = said \cup {i}
    BY <1>6 DEF Answers, Prints, calls
  <2>2. Promise!Say(i)
    BY <2>1 DEF Promise!Say, Waiting
  <2>3. QED
    BY <2>2 DEF Promise!Next
<1>7. CASE \/ ReaderBreaks \/ Spawn \/ SpawnFails \/ ExitsEarly \/ Connected \/ Refused
           \/ HandshakeTimesOut \/ HandshakeRaises \/ CleanupReader \/ CleanupProcess
           \/ Chatters \/ Dies \/ Reaped \/ Disconnect \/ UNCHANGED vars
  <2>1. call' = call /\ said' = said
    BY <1>7 DEF ReaderBreaks, Spawn, SpawnFails, ExitsEarly, Connected, Refused,
       HandshakeTimesOut, HandshakeRaises, CleanupReader, CleanupProcess, Chatters, Prints,
       Dies, Reaped, Disconnect, calls, vars
  <2>2. QED
    BY <2>1, Idle
<1>8. QED
  BY <1>1, <1>2, <1>3, <1>4, <1>5, <1>6, <1>7 DEF Next, ReaderStep, ClientStep

-----------------------------------------------------------------------------
(* The theorems.                                                            *)

LEMMA Initially == Init => IInv
<1>1. Init => TypeOK
  <2>1. Init => retried \in BOOLEAN /\ oom \in BOOLEAN
    BY Zenon DEF Init
  <2>2. Init => nextId \in 0..MaxCalls /\ \A i \in Id : call[i] = "unsent" <=> i >= nextId
    BY LocalRpcAssumption DEF Init, Id
  <2>3. QED
    BY <2>1, <2>2, Zenon DEF Init, TypeOK
<1>2. Init => Waiting = {}
  BY DEF Init, Waiting
<1>3. QED
  BY <1>1, <1>2
     DEF Init, IInv, LinesAreEarned, HandshakeSoFar, OnlyHandshakeWaits, WaitersAreHeeded

\* The inductive invariant.
THEOREM Invariance == Spec => []IInv
<1>1. IInv /\ [Next]_vars => IInv'
  BY TypeStep, LinesStep, HandshakeStep, WaitStep, HeedStep DEF IInv
<1>2. QED
  BY Initially, <1>1, PTL DEF Spec

\* Calls, keys and lines keep to their types, and numbers are given out in
\* order (_send_request), across attempts.
THEOREM TypeCorrect == Spec => []TypeOK
<1>1. IInv => TypeOK
  BY DEF IInv
<1>2. QED
  BY Invariance, <1>1, PTL

\* _read_stdout and _send_request never lose a waiting call, but for the
\* exceptions the property names.
THEOREM WaitersHeeded == Spec => []WaitersAreHeeded
<1>1. IInv => WaitersAreHeeded
  BY DEF IInv
<1>2. QED
  BY Invariance, <1>1, PTL

\* connect succeeds only on answers of the process it has started last.
THEOREM HandshakeAnswered == Spec => HandshakeIsOurs
<1>1. IInv /\ [Next]_vars =>
        [stage = "list" /\ stage' = "connected" =>
           {nextId - 2, nextId - 1} \subseteq (heard \cap said) \cup ServerId]_vars
  <2>1. SUFFICES ASSUME IInv, [Next]_vars, stage = "list", stage' = "connected"
                 PROVE  {nextId - 2, nextId - 1} \subseteq (heard \cap said) \cup ServerId
    OBVIOUS
  <2>2. Connected
    BY <2>1 DEF Next, ReaderStep, ClientStep, Reads, ReaderBreaks, EndOfOutput, Spawn, SpawnFails,
       ExitsEarly, Initialize, ListTools, Refused, HandshakeTimesOut, HandshakeRaises, Fails,
       CleanupReader, CleanupProcess, Chatters, Prints, Dies, Reaped, Invoke, Disconnect,
       Answers, TimesOut, control, vars
  <2>3. QED
    BY <2>1, <2>2 DEF Connected, IInv, HandshakeSoFar, Earned, Last
<1>2. QED
  BY Invariance, <1>1, PTL DEF Spec, HandshakeIsOurs

\* Each call ends once, and with an answer only when the server answered it:
\* every step of the client is one of RpcPromise or a stutter.
THEOREM RpcImplementsPromise == Spec => ImplementsPromise
<1>1. Init => Promise!Init
  BY DEF Init, Promise!Init, Waiting
<1>2. IInv /\ [Next]_vars => [Promise!Next]_(Promise!vars)
  BY PromiseStep DEF IInv
<1>3. QED
  BY Invariance, <1>1, <1>2, PTL DEF Spec, ImplementsPromise, Promise!Spec

-----------------------------------------------------------------------------
(* Termination: connect and the clean-ups have only so many steps left.     *)

\* What is left of the present attempt.  A second one is behind a clean-up.
StageRank ==
  CASE stage = "spawn" -> 5 [] stage = "settle" -> 4 [] stage = "init" -> 3
    [] stage = "list" -> 2
    [] stage = "cleanup" -> IF then = "spawn" THEN 6 ELSE 1
    [] OTHER -> 0

\* Two for each stage, as many as the second attempt has while it is not taken,
\* and the reader to stop.
StepsLeft ==
  2 * (StageRank + IF retried THEN 0 ELSE 6) + IF reader = "none" THEN 0 ELSE 1

RankTable ==
  /\ StageRank \in 0..6
  /\ stage = "spawn" => StageRank = 5
  /\ stage = "settle" => StageRank = 4
  /\ stage = "init" => StageRank = 3
  /\ stage = "list" => StageRank = 2
  /\ stage = "cleanup" /\ then = "spawn" => StageRank = 6
  /\ stage = "cleanup" /\ then # "spawn" => StageRank = 1
  /\ stage \in {"connected", "failed", "closed"} => StageRank = 0

LEMMA Ranks == RankTable /\ RankTable'
  BY DEF RankTable, StageRank

\* The measure as a number of its parts.
Measure(rank, again, task) ==
  2 * (rank + IF again THEN 6 ELSE 0) + IF task THEN 1 ELSE 0

LEMMA Measured ==
  ASSUME NEW r \in 0..6, NEW a \in BOOLEAN, NEW t \in BOOLEAN
  PROVE  /\ Measure(r, a, t) \in 0..25
         /\ \A q \in 0..6, u \in BOOLEAN : q < r => Measure(q, a, u) < Measure(r, a, t)
         /\ a /\ r > 0 => Measure(6, FALSE, t) < Measure(r, a, t)
         /\ Measure(r, a, FALSE) < Measure(r, a, TRUE)
  BY DEF Measure

LEMMA Counted ==
  ASSUME TypeOK
  PROVE  /\ \E r \in 0..6 : r = StageRank
         /\ \E r \in 0..6 : r = StageRank'
         /\ StepsLeft = Measure(StageRank, ~retried, reader # "none")
         /\ StepsLeft' = Measure(StageRank', ~retried', reader' # "none")
         /\ StepsLeft \in 0..25 /\ StepsLeft' \in 0..25
<1>1. PICK r \in 0..6 : r = StageRank
  BY Ranks DEF RankTable
<1>2. PICK q \in 0..6 : q = StageRank'
  BY Ranks DEF RankTable
<1>3. /\ StepsLeft = Measure(StageRank, ~retried, reader # "none")
      /\ StepsLeft' = Measure(StageRank', ~retried', reader' # "none")
  BY Zenon DEF StepsLeft, Measure
<1>4. /\ Measure(r, ~retried, reader # "none") \in 0..25
      /\ Measure(q, ~retried', reader' # "none") \in 0..25
  BY Measured
<1>5. QED
  BY <1>1, <1>2, <1>3, <1>4

\* A stage further, whatever becomes of the reader.
LEMMA StageFalls ==
  ASSUME TypeOK, UNCHANGED retried, StageRank' < StageRank
  PROVE  StepsLeft' < StepsLeft
<1>1. PICK r \in 0..6 : r = StageRank
  BY Counted
<1>2. PICK q \in 0..6 : q = StageRank'
  BY Counted
<1>3. q < r
  BY <1>1, <1>2
<1>4. Measure(q, ~retried, reader' # "none") < Measure(r, ~retried, reader # "none")
  BY <1>3, Measured
<1>5. QED
  BY <1>1, <1>2, <1>4, Counted, Zenon

\* A failed connect goes on to a clean-up, to the second attempt or to its end.
LEMMA FailureFalls ==
  ASSUME TypeOK, NEW o, NEW cleans, Fails(o, cleans), stage \in {"settle", "init", "list"},
         UNCHANGED reader
  PROVE  StepsLeft' < StepsLeft
<1>1. PICK r \in 2..4 : r = StageRank
  BY Ranks DEF RankTable
<1>2. CASE o /\ MayRetry
  <2>1. ~retried /\ retried' = TRUE /\ stage' = "cleanup" /\ then' = "spawn"
    BY <1>2 DEF Fails, MayRetry
  <2>2. StageRank' = 6
    BY <2>1, Ranks DEF RankTable
  <2>3. Measure(6, FALSE, reader # "none") < Measure(r, TRUE, reader # "none")
    <3>1. r \in 0..6 /\ r > 0
      BY <1>1
    <3>2. \A t \in BOOLEAN : Measure(6, FALSE, t) < Measure(r, TRUE, t)
      BY <3>1, Measured
    <3>3. QED
      BY <3>2
  <2>4. StepsLeft = Measure(r, TRUE, reader # "none") /\ StepsLeft' = Measure(6, FALSE, reader # "none")
    BY <1>1, <2>1, <2>2, Counted
  <2>5. QED
    BY <2>3, <2>4
<1>3. CASE ~(o /\ MayRetry)
  <2>1. UNCHANGED retried /\ StageRank' \in {0, 1}
    BY <1>3, Ranks DEF Fails, RankTable
  <2>2. StageRank' < StageRank
    BY <1>1, <2>1
  <2>3. QED
    BY <2>1, <2>2, StageFalls
<1>4. QED
  BY <1>2, <1>3

LEMMA ClientStepShrinks ==
  ASSUME TypeOK, ClientStep
  PROVE  StepsLeft' < StepsLeft
<1>1. CASE Spawn \/ SpawnFails
  BY <1>1, Ranks, StageFalls DEF Spawn, SpawnFails, RankTable
<1>2. CASE ExitsEarly
  BY <1>2, FailureFalls DEF ExitsEarly
<1>3. CASE Initialize \/ ListTools \/ Connected
  BY <1>3, Ranks, StageFalls DEF Initialize, ListTools, Connected, RankTable
<1>4. CASE Refused
  BY <1>4, FailureFalls DEF Refused
<1>5. CASE HandshakeTimesOut
  BY <1>5, FailureFalls DEF HandshakeTimesOut
<1>6. CASE HandshakeRaises
  BY <1>6, FailureFalls DEF HandshakeRaises
<1>7. CASE CleanupReader
  <2>1. UNCHANGED <<stage, then, retried>> /\ reader # "none" /\ reader' = "none"
    BY <1>7 DEF CleanupReader, control
  <2>2. PICK r \in 0..6 : r = StageRank
    BY Counted
  <2>3. StageRank' = r
    BY <2>1, <2>2 DEF StageRank
  <2>4. Measure(r, ~retried, FALSE) < Measure(r, ~retried, TRUE)
    BY Measured
  <2>5. StepsLeft = Measure(r, ~retried, TRUE) /\ StepsLeft' = Measure(r, ~retried, FALSE)
    BY <2>1, <2>2, <2>3, Counted
  <2>6. QED
    BY <2>4, <2>5
<1>8. CASE CleanupProcess
  BY <1>8, Ranks, StageFalls DEF CleanupProcess, TypeOK, RankTable
<1>9. QED
  BY <1>1, <1>2, <1>3, <1>4, <1>5, <1>6, <1>7, <1>8 DEF ClientStep

\* The server, the reader, invocations and timeouts give nothing back.
LEMMA OthersLeaveIt ==
  ASSUME TypeOK, Next, ~ClientStep, ~Disconnect
  PROVE  StepsLeft' < StepsLeft \/ StepsLeft' = StepsLeft
<1>1. UNCHANGED control /\ (reader = "none" => reader' = "none")
  <2>1. CASE ReaderStep
    BY <2>1 DEF ReaderStep, Reads, ReaderBreaks, EndOfOutput
  <2>2. CASE Chatters \/ Dies \/ Reaped
    BY <2>2 DEF Chatters, Prints, Dies, Reaped
  <2>3. CASE Invoke
    BY <2>3 DEF Invoke, Send
  <2>4. ASSUME NEW i \in Id, Answers(i) \/ TimesOut(i)
        PROVE  UNCHANGED control /\ (reader = "none" => reader' = "none")
    BY <2>4 DEF Answers, Prints, TimesOut
  <2>5. QED
    BY <2>1, <2>2, <2>3, <2>4 DEF Next
<1>2. UNCHANGED <<stage, then, retried>>
  BY <1>1 DEF control
<1>3. PICK r \in 0..6 : r = StageRank
  BY Counted
<1>4. StageRank' = r
  BY <1>2, <1>3 DEF StageRank
<1>5. Measure(r, ~retried, FALSE) < Measure(r, ~retried, TRUE)
  BY Measured
<1>6. /\ StepsLeft = Measure(r, ~retried, reader # "none")
      /\ StepsLeft' = Measure(r, ~retried, reader' # "none")
  BY <1>2, <1>3, <1>4, Counted
<1>7. CASE (reader # "none") = (reader' # "none")
  BY <1>6, <1>7
<1>8. CASE reader # "none" /\ reader' = "none"
  BY <1>5, <1>6, <1>8
<1>9. QED
  BY <1>1, <1>7, <1>8

\* Between two calls of disconnect the client takes at most 25 steps, the second
\* attempt, the clean-ups and both handshakes included, however the server behaves:
\* connect cannot go round in circles, nor wait for more than its own requests.
THEOREM ConnectShrinks ==
  Spec => /\ [](StepsLeft \in 0..25)
          /\ [][ClientStep => StepsLeft' < StepsLeft]_vars
          /\ [][Disconnect \/ StepsLeft' <= StepsLeft]_vars
<1>1. TypeOK /\ [Next]_vars => [ClientStep => StepsLeft' < StepsLeft]_vars
  BY ClientStepShrinks
<1>2. TypeOK /\ [Next]_vars => [Disconnect \/ StepsLeft' <= StepsLeft]_vars
  <2>1. SUFFICES ASSUME TypeOK, Next, ~Disconnect PROVE StepsLeft' <= StepsLeft
    OBVIOUS
  <2>2. StepsLeft' < StepsLeft \/ StepsLeft' = StepsLeft
    BY <2>1, ClientStepShrinks, OthersLeaveIt
  <2>3. PICK m \in 0..25 : m = StepsLeft
    BY <2>1, Counted
  <2>4. PICK n \in 0..25 : n = StepsLeft'
    BY <2>1, Counted
  <2>5. n <= m
    BY <2>2, <2>3, <2>4
  <2>6. QED
    BY <2>3, <2>4, <2>5
<1>3. TypeOK => StepsLeft \in 0..25
  BY Counted
<1>4. QED
  BY TypeCorrect, <1>1, <1>2, <1>3, PTL DEF Spec
=============================================================================
