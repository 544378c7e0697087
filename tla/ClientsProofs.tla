---------------------------- MODULE ClientsProofs ----------------------------
(***************************************************************************)
(* Proofs about the programs of MCClients, for every value of their            *)
(* constants.  Each program has an inductive invariant of its own; a step of   *)
(* the run is a step of one program and a stutter of the others, so the        *)
(* conjunction of the invariants is an invariant of the run.                   *)
(***************************************************************************)
EXTENDS MCClients, Induction, SequenceTheorems, FiniteSetTheorems, TLAPS

-----------------------------------------------------------------------------
(* Sequences that grow at one end and shrink at the other *)

\* No element comes twice or after a larger one.
Increasing(q) == \A x, y \in 1..Len(q) : x < y => q[x] < q[y]

\* An element is appended behind the others.
LEMMA Appended ==
  ASSUME NEW S, NEW q \in Seq(S), NEW e \in S
  PROVE  /\ Append(q, e) \in Seq(S) /\ Len(Append(q, e)) = Len(q) + 1 /\ Len(q) \in Nat
         /\ \A k \in 1..Len(q) : Append(q, e)[k] = q[k]
         /\ Append(q, e)[Len(q) + 1] = e
  OBVIOUS

\* A larger element may be appended to an increasing sequence.
LEMMA IncreasingAppend ==
  ASSUME NEW S, S \subseteq Int, NEW q \in Seq(S), NEW e \in S, Increasing(q),
         \A k \in 1..Len(q) : q[k] < e
  PROVE  Increasing(Append(q, e))
<1> DEFINE r == Append(q, e)
<1>1. /\ Len(r) = Len(q) + 1 /\ Len(q) \in Nat /\ r[Len(q) + 1] = e
      /\ \A k \in 1..Len(q) : r[k] = q[k]
  BY Appended
<1> HIDE DEF r
<1> SUFFICES ASSUME NEW x \in 1..Len(r), NEW y \in 1..Len(r), x < y PROVE r[x] < r[y]
  BY DEF Increasing, r
<1>2. CASE y = Len(q) + 1
  BY <1>1, <1>2
<1>3. CASE y # Len(q) + 1
  BY <1>1, <1>3 DEF Increasing
<1> QED
  BY <1>2, <1>3

-----------------------------------------------------------------------------
(* select_client.py *)

\* The messages typed are those sent, then those in the queue, then the one main
\* is about to append, as long as the thread lives.
Numbered ==
  /\ \A k \in 1..Len(ssent) : ssent[k] = k
  /\ sloop # "dead" =>
       /\ \A k \in 1..Len(queue) : queue[k] = Len(ssent) + k
       /\ styped = Len(ssent) + Len(queue) + (IF smain = "append" THEN 1 ELSE 0)
  /\ smain = "append" => styped > 0

\* The loop holds the mutex while it drains the queue, and what select told it of
\* the indicator stays true until it takes the byte.
LoopKeeps ==
  /\ mutex <=> sloop = "drain"
  /\ sloop \in {"recv", "ind"} /\ sel.ind => inds > 0
  /\ sdata <= scame

\* The inductive invariant of select_client.py.
SelectInv == Select!TypeOK /\ Numbered /\ LoopKeeps /\ Select!NoStuckMessage

\* What select returns: one flag for each descriptor.
LEMMA Flags ==
  ASSUME NEW a \in BOOLEAN, NEW b \in BOOLEAN, NEW c \in BOOLEAN
  PROVE  [sock |-> a, ind |-> b, out |-> c] \in [{"sock", "ind", "out"} -> BOOLEAN]
  OBVIOUS

\* The variables keep their types: the loop reads a byte only if there is one.
LEMMA SelectTypeStep ==
  ASSUME Select!SelectAssumption, SelectInv, [Select!Next]_(Select!vars)
  PROVE  Select!TypeOK'
<1> USE DEF SelectInv, Select!TypeOK, Select!SelectAssumption, Select!net, Select!mainvars,
        Select!loopvars, Select!LoopAt, Select!NothingReady, Numbered, LoopKeeps
<1>1. CASE Select!Start
  BY <1>1 DEF Select!Start
<1>2. CASE Select!Input
  BY <1>2 DEF Select!Input
<1>3. CASE Select!Exit
  BY <1>3 DEF Select!Exit
<1>4. CASE Select!Append_
  BY <1>4 DEF Select!Append_
<1>5. CASE Select!Indicate
  BY <1>5 DEF Select!Indicate
<1>6. CASE Select!Check
  BY <1>6 DEF Select!Check
<1>7. CASE Select!Select
  <2>1. sel' \in [{"sock", "ind", "out"} -> BOOLEAN]
    <3> DEFINE in == sdata > 0 \/ peer = "closed"
               byte == inds > 0
               space == wlist /\ canwrite
    <3>1. sel' = [sock |-> in, ind |-> byte, out |-> space]
      BY <1>7, Zenon DEF Select!Select
    <3>2. in \in BOOLEAN /\ byte \in BOOLEAN /\ space \in BOOLEAN
      OBVIOUS
    <3> HIDE DEF in, byte, space
    <3> QED
      BY <3>1, <3>2, Flags
  <2>2. /\ sloop' = "recv"
        /\ UNCHANGED <<smain, styped, queue, mutex, ssent, wlist, canwrite, inds, sdata, scame,
                      peer>>
    BY <1>7 DEF Select!Select
  <2> QED
    BY <2>1, <2>2
<1>8. CASE Select!Recv
  BY <1>8 DEF Select!Recv
<1>9. CASE Select!TakeIndicator
  BY <1>9 DEF Select!TakeIndicator
<1>10. CASE Select!LockQueue
  BY <1>10 DEF Select!LockQueue
<1>11. CASE Select!Send
  BY <1>11 DEF Select!Send
<1>12. CASE Select!Drained
  BY <1>12 DEF Select!Drained
<1>13. CASE Select!RecvFails
  BY <1>13 DEF Select!RecvFails
<1>14. CASE Select!SendFails
  <2>1. mutex' = FALSE
    BY <1>14 DEF Select!SendFails
  <2>2. queue' \in Seq(1..MaxMsgs)
    BY <1>14 DEF Select!SendFails
  <2>3. /\ sloop' = "dead"
        /\ UNCHANGED <<smain, styped, ssent, wlist, canwrite, inds, sel, sdata, scame, peer>>
    BY <1>14 DEF Select!SendFails
  <2> QED
    BY <2>1, <2>2, <2>3
<1>15. CASE Select!PeerSends
  BY <1>15 DEF Select!PeerSends
<1>16. CASE Select!PeerCloses
  BY <1>16 DEF Select!PeerCloses
<1>17. CASE Select!NetFills
  BY <1>17 DEF Select!NetFills
<1>18. CASE Select!NetDrains
  BY <1>18 DEF Select!NetDrains
<1>19. CASE UNCHANGED Select!vars
  BY <1>19 DEF Select!vars
<1> QED
  BY <1>1, <1>2, <1>3, <1>4, <1>5, <1>6, <1>7, <1>8, <1>9, <1>10, <1>11, <1>12, <1>13,
     <1>14, <1>15, <1>16, <1>17, <1>18, <1>19
     DEF Select!Next, Select!Main, Select!Loop

\* A message keeps its place from the queue to the socket.
LEMMA NumberedStep ==
  ASSUME Select!SelectAssumption, SelectInv, [Select!Next]_(Select!vars)
  PROVE  Numbered'
<1> USE DEF SelectInv, Select!TypeOK, Select!SelectAssumption, Select!net, Select!mainvars,
        Select!loopvars, Select!LoopAt, Select!NothingReady, Numbered, LoopKeeps
<1>1. CASE Select!Start
  BY <1>1 DEF Select!Start
<1>2. CASE Select!Input
  BY <1>2 DEF Select!Input
<1>3. CASE Select!Exit
  BY <1>3 DEF Select!Exit
<1>4. CASE Select!Append_
  <2>1. /\ queue \in Seq(1..MaxMsgs) /\ queue' = Append(queue, styped) /\ styped \in Int
        /\ ssent' = ssent /\ ssent \in Seq(1..MaxMsgs) /\ styped' = styped
        /\ sloop' = sloop /\ smain = "append" /\ smain' = "indicate"
    BY <1>4 DEF Select!Append_
  <2>2. /\ Len(queue') = Len(queue) + 1 /\ Len(queue) \in Nat /\ Len(ssent) \in Nat
        /\ \A k \in 1..Len(queue) : queue'[k] = queue[k]
        /\ queue'[Len(queue) + 1] = styped
    BY <2>1
  <2> QED
    BY <2>1, <2>2 DEF Numbered
<1>5. CASE Select!Indicate
  BY <1>5 DEF Select!Indicate
<1>6. CASE Select!Check
  BY <1>6 DEF Select!Check
<1>7. CASE Select!Select
  BY <1>7 DEF Select!Select
<1>8. CASE Select!Recv
  BY <1>8 DEF Select!Recv
<1>9. CASE Select!TakeIndicator
  BY <1>9 DEF Select!TakeIndicator
<1>10. CASE Select!LockQueue
  BY <1>10 DEF Select!LockQueue
<1>11. CASE Select!Send
  BY <1>11 DEF Select!Send
<1>12. CASE Select!Drained
  BY <1>12 DEF Select!Drained
<1>13. CASE Select!RecvFails
  BY <1>13 DEF Select!RecvFails
<1>14. CASE Select!SendFails
  BY <1>14 DEF Select!SendFails
<1>15. CASE Select!PeerSends
  BY <1>15 DEF Select!PeerSends
<1>16. CASE Select!PeerCloses
  BY <1>16 DEF Select!PeerCloses
<1>17. CASE Select!NetFills
  BY <1>17 DEF Select!NetFills
<1>18. CASE Select!NetDrains
  BY <1>18 DEF Select!NetDrains
<1>19. CASE UNCHANGED Select!vars
  BY <1>19 DEF Select!vars
<1> QED
  BY <1>1, <1>2, <1>3, <1>4, <1>5, <1>6, <1>7, <1>8, <1>9, <1>10, <1>11, <1>12, <1>13,
     <1>14, <1>15, <1>16, <1>17, <1>18, <1>19
     DEF Select!Next, Select!Main, Select!Loop

\* Nobody but the loop takes the mutex for the queue, or a byte of the indicator.
LEMMA LoopKeepsStep ==
  ASSUME Select!SelectAssumption, SelectInv, [Select!Next]_(Select!vars)
  PROVE  LoopKeeps'
<1> USE DEF SelectInv, Select!TypeOK, Select!SelectAssumption, Select!net, Select!mainvars,
        Select!loopvars, Select!LoopAt, Select!NothingReady, LoopKeeps
<1>1. CASE Select!Start
  BY <1>1 DEF Select!Start
<1>2. CASE Select!Input
  BY <1>2 DEF Select!Input
<1>3. CASE Select!Exit
  BY <1>3 DEF Select!Exit
<1>4. CASE Select!Append_
  BY <1>4 DEF Select!Append_
<1>5. CASE Select!Indicate
  BY <1>5 DEF Select!Indicate
<1>6. CASE Select!Check
  BY <1>6 DEF Select!Check
<1>7. CASE Select!Select
  BY <1>7 DEF Select!Select
<1>8. CASE Select!Recv
  BY <1>8 DEF Select!Recv
<1>9. CASE Select!TakeIndicator
  BY <1>9 DEF Select!TakeIndicator
<1>10. CASE Select!LockQueue
  BY <1>10 DEF Select!LockQueue
<1>11. CASE Select!Send
  BY <1>11 DEF Select!Send
<1>12. CASE Select!Drained
  BY <1>12 DEF Select!Drained
<1>13. CASE Select!RecvFails
  BY <1>13 DEF Select!RecvFails
<1>14. CASE Select!SendFails
  BY <1>14 DEF Select!SendFails
<1>15. CASE Select!PeerSends
  BY <1>15 DEF Select!PeerSends
<1>16. CASE Select!PeerCloses
  BY <1>16 DEF Select!PeerCloses
<1>17. CASE Select!NetFills
  BY <1>17 DEF Select!NetFills
<1>18. CASE Select!NetDrains
  BY <1>18 DEF Select!NetDrains
<1>19. CASE UNCHANGED Select!vars
  BY <1>19 DEF Select!vars
<1> QED
  BY <1>1, <1>2, <1>3, <1>4, <1>5, <1>6, <1>7, <1>8, <1>9, <1>10, <1>11, <1>12, <1>13,
     <1>14, <1>15, <1>16, <1>17, <1>18, <1>19
     DEF Select!Next, Select!Main, Select!Loop

\* A message that the loop did not see is followed by a byte in the indicator.
LEMMA NoStuckStep ==
  ASSUME Select!SelectAssumption, SelectInv, [Select!Next]_(Select!vars)
  PROVE  Select!NoStuckMessage'
<1> USE DEF SelectInv, Select!TypeOK, Select!SelectAssumption, Select!net, Select!mainvars,
        Select!loopvars, Select!LoopAt, Select!NothingReady, LoopKeeps, Select!NoStuckMessage
<1>1. CASE Select!Start
  BY <1>1 DEF Select!Start
<1>2. CASE Select!Input
  BY <1>2 DEF Select!Input
<1>3. CASE Select!Exit
  BY <1>3 DEF Select!Exit
<1>4. CASE Select!Append_
  BY <1>4 DEF Select!Append_
<1>5. CASE Select!Indicate
  BY <1>5 DEF Select!Indicate
<1>6. CASE Select!Check
  BY <1>6 DEF Select!Check
<1>7. CASE Select!Select
  BY <1>7 DEF Select!Select
<1>8. CASE Select!Recv
  BY <1>8 DEF Select!Recv
<1>9. CASE Select!TakeIndicator
  BY <1>9 DEF Select!TakeIndicator
<1>10. CASE Select!LockQueue
  BY <1>10 DEF Select!LockQueue
<1>11. CASE Select!Send
  BY <1>11 DEF Select!Send
<1>12. CASE Select!Drained
  BY <1>12 DEF Select!Drained
<1>13. CASE Select!RecvFails
  BY <1>13 DEF Select!RecvFails
<1>14. CASE Select!SendFails
  BY <1>14 DEF Select!SendFails
<1>15. CASE Select!PeerSends
  BY <1>15 DEF Select!PeerSends
<1>16. CASE Select!PeerCloses
  BY <1>16 DEF Select!PeerCloses
<1>17. CASE Select!NetFills
  BY <1>17 DEF Select!NetFills
<1>18. CASE Select!NetDrains
  BY <1>18 DEF Select!NetDrains
<1>19. CASE UNCHANGED Select!vars
  BY <1>19 DEF Select!vars
<1> QED
  BY <1>1, <1>2, <1>3, <1>4, <1>5, <1>6, <1>7, <1>8, <1>9, <1>10, <1>11, <1>12, <1>13,
     <1>14, <1>15, <1>16, <1>17, <1>18, <1>19
     DEF Select!Next, Select!Main, Select!Loop

\* select_client.py starts with nothing typed.
LEMMA SelectInitially == ASSUME Select!SelectAssumption, Select!Init PROVE SelectInv
<1> USE DEF Select!Init, Select!SelectAssumption
<1>1. mutex = FALSE /\ wlist = FALSE /\ canwrite = TRUE
  OBVIOUS
<1>2. sel \in [{"sock", "ind", "out"} -> BOOLEAN]
  BY Flags DEF Select!NothingReady
<1>3. queue \in Seq(1..MaxMsgs) /\ ssent \in Seq(1..MaxMsgs) /\ Len(queue) = 0 /\ Len(ssent) = 0
  OBVIOUS
<1>4. /\ smain = "start" /\ sloop = "check" /\ peer = "open" /\ styped \in 0..MaxMsgs
      /\ inds \in 0..IndCap /\ sdata \in 0..MaxData /\ scame \in 0..MaxData
  OBVIOUS
<1>5. Select!TypeOK
  <2> HIDE DEF Select!Init
  <2> QED
    BY <1>1, <1>2, <1>3, <1>4 DEF Select!TypeOK
<1> QED
  BY <1>1, <1>3, <1>5 DEF SelectInv, Numbered, LoopKeeps, Select!NoStuckMessage

\* Every step of select_client.py preserves its invariant.
LEMMA SelectStep ==
  ASSUME Select!SelectAssumption, SelectInv, [Select!Next]_(Select!vars)
  PROVE  SelectInv'
  BY SelectTypeStep, NumberedStep, LoopKeepsStep, NoStuckStep DEF SelectInv

-----------------------------------------------------------------------------
(* chat/client.c *)

Busy == {"remf", "load", "store", "send"}
Taken == {"load", "store", "send"}
Adding == {"load", "store", "write"}

\* Each byte read from the pipe answers to one line typed.
BytesCounted ==
  /\ handled + pipe + (IF cloop \in Busy THEN 1 ELSE 0)
       + (IF cmain \in Adding THEN 1 ELSE 0) <= ctyped
  /\ cdata <= ccame

\* The head of the list is newer than the message last taken, which is newer than
\* those sent, whatever the race on the size made of the list.
NewerAtHead ==
  /\ cloop \in Taken => msg > 0
  /\ cloop \in Taken /\ chead # 0 => msg < chead
  /\ cmain \in {"load", "store"} => chead < ctyped /\ (cloop \in Taken => msg < ctyped)
  /\ chead <= ctyped /\ (cloop \in Taken => msg <= ctyped)
  /\ \A k \in 1..Len(csent) :
       /\ chead # 0 => csent[k] < chead
       /\ cloop \in Taken => csent[k] < msg
       /\ cmain \in {"load", "store"} => csent[k] < ctyped
       /\ csent[k] <= ctyped

\* One message at a time and memory for it: it is being added, on the list, or being sent, and the
\* size is right.
OneAtATime ==
  ~crowded /\ ~nomem =>
    /\ handled >= ctyped - 1
    /\ handled = ctyped => chead = 0 /\ csize = 0
    /\ cmain \in {"load", "store"} => chead = 0 /\ csize = 0
    /\ cmain = "store" => mreg = 0
    /\ pipe > 0 \/ cloop = "remf" \/ cmain = "write" => chead # 0 /\ csize = 1
    /\ cloop \in {"load", "store"} => csize = 1
    /\ cloop = "store" => lreg = 1
    /\ cloop \in Taken => chead = 0
    /\ cloop = "send" => csize = 0

\* The inductive invariant of chat/client.c.
ChatInv ==
  /\ Chat!TypeOK /\ BytesCounted /\ NewerAtHead /\ OneAtATime
  /\ Chat!CrashNeedsCrowd /\ Chat!NoDuplicates

\* A message is sent behind the others, or lost when the server has gone.
LEMMA ChatSends ==
  ASSUME Chat!ChatAssumption, ChatInv, Chat!Send
  PROVE  /\ csent \in Seq(1..MaxMsgs) /\ msg \in 1..MaxMsgs
         /\ csent' = csent \/ csent' = Append(csent, msg)
<1>1. csent \in Seq(1..MaxMsgs) /\ msg \in 1..MaxMsgs
  BY DEF ChatInv, Chat!TypeOK, Chat!ChatAssumption, NewerAtHead, Taken, Chat!Send, Chat!LoopAt
<1>2. csent' = csent \/ csent' = Append(csent, msg)
  BY DEF Chat!Send
<1> QED
  BY <1>1, <1>2

\* The variables keep their types: no more messages are handled than typed.
LEMMA ChatTypeStep ==
  ASSUME Chat!ChatAssumption, ChatInv, [Chat!Next]_(Chat!vars)
  PROVE  Chat!TypeOK'
<1> USE DEF ChatInv, Chat!TypeOK, Chat!ChatAssumption, Chat!NULL, Chat!queue, Chat!others,
        Chat!ghosts, Chat!LoopAt, Chat!Over, Busy, Taken, Adding, BytesCounted, NewerAtHead
<1>1. CASE Chat!Start
  BY <1>1 DEF Chat!Start
<1>2. CASE Chat!ReadLine
  BY <1>2 DEF Chat!ReadLine
<1>3. CASE Chat!Cancel
  BY <1>3 DEF Chat!Cancel
<1>4. CASE Chat!LoadSize
  BY <1>4 DEF Chat!LoadSize
<1>5. CASE Chat!StoreSize
  BY <1>5 DEF Chat!StoreSize
<1>6. CASE Chat!WritePipe
  BY <1>6 DEF Chat!WritePipe
<1>7. CASE Chat!Join
  BY <1>7 DEF Chat!Join
<1>8. CASE Chat!Return
  BY <1>8 DEF Chat!Return
<1>9. CASE Chat!WakeForPipe
  BY <1>9 DEF Chat!WakeForPipe
<1>10. CASE Chat!WakeForData
  BY <1>10 DEF Chat!WakeForData
<1>11. CASE Chat!TakeHead
  BY <1>11 DEF Chat!TakeHead
<1>12. CASE Chat!LoopLoads
  BY <1>12 DEF Chat!LoopLoads
<1>13. CASE Chat!LoopStores
  BY <1>13 DEF Chat!LoopStores
<1>14. CASE Chat!Send
  <2>1. csent' \in Seq(1..MaxMsgs)
    BY <1>14, ChatSends, Appended
  <2>2. handled' \in 0..MaxMsgs /\ cmain' \in {cmain, "killed"} /\ cloop' = "select"
    BY <1>14 DEF Chat!Send
  <2>3. UNCHANGED <<chead, ctail, csize, ctyped, mreg, pipe, lreg, msg, cdata, ccame, server, con,
                    crowded, nomem>>
    BY <1>14 DEF Chat!Send
  <2>4. room' \in BOOLEAN
    BY <1>14 DEF Chat!Send
  <2> QED
    BY <2>1, <2>2, <2>3, <2>4
<1>15. CASE Chat!Cancelled
  BY <1>15 DEF Chat!Cancelled
<1>16. CASE Chat!ServerSends
  BY <1>16 DEF Chat!ServerSends
<1>17. CASE Chat!ServerCloses
  BY <1>17 DEF Chat!ServerCloses
<1>18. CASE Chat!ServerReads
  BY <1>18 DEF Chat!ServerReads
<1>19. CASE Chat!NoMemory
  BY <1>19 DEF Chat!NoMemory
<1>20. CASE UNCHANGED Chat!vars
  BY <1>20 DEF Chat!vars
<1> QED
  BY <1>1, <1>2, <1>3, <1>4, <1>5, <1>6, <1>7, <1>8, <1>9, <1>10, <1>11, <1>12, <1>13,
     <1>14, <1>15, <1>16, <1>17, <1>18, <1>19, <1>20
     DEF Chat!Next, Chat!Main, Chat!Loop

\* Main writes one byte for a line, and the loop reads one for a message.
LEMMA BytesCountedStep ==
  ASSUME Chat!ChatAssumption, ChatInv, [Chat!Next]_(Chat!vars)
  PROVE  BytesCounted'
<1> USE DEF ChatInv, Chat!TypeOK, Chat!ChatAssumption, Chat!NULL, Chat!queue, Chat!others,
        Chat!ghosts, Chat!LoopAt, Chat!Over, Busy, Taken, Adding, BytesCounted
<1>1. CASE Chat!Start
  BY <1>1 DEF Chat!Start
<1>2. CASE Chat!ReadLine
  BY <1>2 DEF Chat!ReadLine
<1>3. CASE Chat!Cancel
  BY <1>3 DEF Chat!Cancel
<1>4. CASE Chat!LoadSize
  BY <1>4 DEF Chat!LoadSize
<1>5. CASE Chat!StoreSize
  BY <1>5 DEF Chat!StoreSize
<1>6. CASE Chat!WritePipe
  BY <1>6 DEF Chat!WritePipe
<1>7. CASE Chat!Join
  BY <1>7 DEF Chat!Join
<1>8. CASE Chat!Return
  BY <1>8 DEF Chat!Return
<1>9. CASE Chat!WakeForPipe
  BY <1>9 DEF Chat!WakeForPipe
<1>10. CASE Chat!WakeForData
  BY <1>10 DEF Chat!WakeForData
<1>11. CASE Chat!TakeHead
  BY <1>11 DEF Chat!TakeHead
<1>12. CASE Chat!LoopLoads
  BY <1>12 DEF Chat!LoopLoads
<1>13. CASE Chat!LoopStores
  BY <1>13 DEF Chat!LoopStores
<1>14. CASE Chat!Send
  BY <1>14 DEF Chat!Send
<1>15. CASE Chat!Cancelled
  BY <1>15 DEF Chat!Cancelled
<1>16. CASE Chat!ServerSends
  BY <1>16 DEF Chat!ServerSends
<1>17. CASE Chat!ServerCloses
  BY <1>17 DEF Chat!ServerCloses
<1>18. CASE Chat!ServerReads
  BY <1>18 DEF Chat!ServerReads
<1>19. CASE Chat!NoMemory
  BY <1>19 DEF Chat!NoMemory
<1>20. CASE UNCHANGED Chat!vars
  BY <1>20 DEF Chat!vars
<1> QED
  BY <1>1, <1>2, <1>3, <1>4, <1>5, <1>6, <1>7, <1>8, <1>9, <1>10, <1>11, <1>12, <1>13,
     <1>14, <1>15, <1>16, <1>17, <1>18, <1>19, <1>20
     DEF Chat!Next, Chat!Main, Chat!Loop

\* Only a line just typed becomes the head, and each of them once.
LEMMA NewerAtHeadStep ==
  ASSUME Chat!ChatAssumption, ChatInv, [Chat!Next]_(Chat!vars)
  PROVE  NewerAtHead'
<1> USE DEF ChatInv, Chat!TypeOK, Chat!ChatAssumption, Chat!NULL, Chat!queue, Chat!others,
        Chat!ghosts, Chat!LoopAt, Chat!Over, Busy, Taken, Adding, NewerAtHead
<1>1. CASE Chat!Start
  BY <1>1 DEF Chat!Start
<1>2. CASE Chat!ReadLine
  BY <1>2 DEF Chat!ReadLine
<1>3. CASE Chat!Cancel
  BY <1>3 DEF Chat!Cancel
<1>4. CASE Chat!LoadSize
  BY <1>4 DEF Chat!LoadSize
<1>5. CASE Chat!StoreSize
  BY <1>5 DEF Chat!StoreSize
<1>6. CASE Chat!WritePipe
  BY <1>6 DEF Chat!WritePipe
<1>7. CASE Chat!Join
  BY <1>7 DEF Chat!Join
<1>8. CASE Chat!Return
  BY <1>8 DEF Chat!Return
<1>9. CASE Chat!WakeForPipe
  BY <1>9 DEF Chat!WakeForPipe
<1>10. CASE Chat!WakeForData
  BY <1>10 DEF Chat!WakeForData
<1>11. CASE Chat!TakeHead
  BY <1>11 DEF Chat!TakeHead
<1>12. CASE Chat!LoopLoads
  BY <1>12 DEF Chat!LoopLoads
<1>13. CASE Chat!LoopStores
  BY <1>13 DEF Chat!LoopStores
<1>14. CASE Chat!Send
  <2>1. /\ cloop = "send" /\ cloop' = "select" /\ cmain' \in {cmain, "killed"}
        /\ UNCHANGED <<chead, ctyped, msg>>
    BY <1>14 DEF Chat!Send
  <2>2. CASE csent' = csent
    BY <2>1, <2>2
  <2>3. CASE csent' = Append(csent, msg)
    <3>1. /\ Len(csent') = Len(csent) + 1 /\ Len(csent) \in Nat /\ csent'[Len(csent) + 1] = msg
          /\ \A k \in 1..Len(csent) : csent'[k] = csent[k]
      BY <1>14, <2>3, ChatSends, Appended
    <3> HIDE DEF Chat!ChatAssumption
    <3> QED
      BY <2>1, <3>1
  <2> QED
    BY <1>14, <2>2, <2>3, ChatSends
<1>15. CASE Chat!Cancelled
  BY <1>15 DEF Chat!Cancelled
<1>16. CASE Chat!ServerSends
  BY <1>16 DEF Chat!ServerSends
<1>17. CASE Chat!ServerCloses
  BY <1>17 DEF Chat!ServerCloses
<1>18. CASE Chat!ServerReads
  BY <1>18 DEF Chat!ServerReads
<1>19. CASE Chat!NoMemory
  BY <1>19 DEF Chat!NoMemory
<1>20. CASE UNCHANGED Chat!vars
  BY <1>20 DEF Chat!vars
<1> QED
  BY <1>1, <1>2, <1>3, <1>4, <1>5, <1>6, <1>7, <1>8, <1>9, <1>10, <1>11, <1>12, <1>13,
     <1>14, <1>15, <1>16, <1>17, <1>18, <1>19, <1>20
     DEF Chat!Next, Chat!Main, Chat!Loop

\* The threads take turns as long as one message is typed at a time.
LEMMA OneAtATimeStep ==
  ASSUME Chat!ChatAssumption, ChatInv, [Chat!Next]_(Chat!vars)
  PROVE  OneAtATime'
<1> USE DEF ChatInv, Chat!TypeOK, Chat!ChatAssumption, Chat!NULL, Chat!queue, Chat!others,
        Chat!ghosts, Chat!LoopAt, Chat!Over, Busy, Taken, Adding, BytesCounted, NewerAtHead,
        OneAtATime, Chat!CrashNeedsCrowd
<1>1. CASE Chat!Start
  BY <1>1 DEF Chat!Start
<1>2. CASE Chat!ReadLine
  <2>1. /\ crowded' = (crowded \/ handled < ctyped) /\ cmain = "fgets" /\ cmain' = "load"
        /\ ctyped' = ctyped + 1
        /\ UNCHANGED <<chead, csize, mreg, pipe, cloop, lreg, handled, nomem>>
    BY <1>2 DEF Chat!ReadLine
  <2> SUFFICES ASSUME ~crowded', ~nomem' PROVE OneAtATime'
    BY DEF OneAtATime
  <2>2. ~crowded /\ ~nomem /\ ~(handled < ctyped)
    BY <2>1, Zenon
  <2>3. handled = ctyped /\ pipe = 0 /\ cloop \notin Busy
    BY <2>1, <2>2
  <2> QED
    BY <2>1, <2>2, <2>3
<1>3. CASE Chat!Cancel
  BY <1>3 DEF Chat!Cancel
<1>4. CASE Chat!LoadSize
  BY <1>4 DEF Chat!LoadSize
<1>5. CASE Chat!StoreSize
  BY <1>5 DEF Chat!StoreSize
<1>6. CASE Chat!WritePipe
  BY <1>6 DEF Chat!WritePipe
<1>7. CASE Chat!Join
  BY <1>7 DEF Chat!Join
<1>8. CASE Chat!Return
  BY <1>8 DEF Chat!Return
<1>9. CASE Chat!WakeForPipe
  BY <1>9 DEF Chat!WakeForPipe
<1>10. CASE Chat!WakeForData
  BY <1>10 DEF Chat!WakeForData
<1>11. CASE Chat!TakeHead
  BY <1>11 DEF Chat!TakeHead
<1>12. CASE Chat!LoopLoads
  BY <1>12 DEF Chat!LoopLoads
<1>13. CASE Chat!LoopStores
  BY <1>13 DEF Chat!LoopStores
<1>14. CASE Chat!Send
  BY <1>14 DEF Chat!Send
<1>15. CASE Chat!Cancelled
  BY <1>15 DEF Chat!Cancelled
<1>16. CASE Chat!ServerSends
  BY <1>16 DEF Chat!ServerSends
<1>17. CASE Chat!ServerCloses
  BY <1>17 DEF Chat!ServerCloses
<1>18. CASE Chat!ServerReads
  BY <1>18 DEF Chat!ServerReads
<1>19. CASE Chat!NoMemory
  BY <1>19 DEF Chat!NoMemory
<1>20. CASE UNCHANGED Chat!vars
  BY <1>20 DEF Chat!vars
<1> QED
  BY <1>1, <1>2, <1>3, <1>4, <1>5, <1>6, <1>7, <1>8, <1>9, <1>10, <1>11, <1>12, <1>13,
     <1>14, <1>15, <1>16, <1>17, <1>18, <1>19, <1>20
     DEF Chat!Next, Chat!Main, Chat!Loop

\* The loop finds the list empty only when two messages were typed before
\* or one was lost.
LEMMA CrashStep ==
  ASSUME Chat!ChatAssumption, ChatInv, [Chat!Next]_(Chat!vars)
  PROVE  Chat!CrashNeedsCrowd'
<1> USE DEF ChatInv, Chat!TypeOK, Chat!ChatAssumption, Chat!NULL, Chat!queue, Chat!others,
        Chat!ghosts, Chat!LoopAt, Chat!Over, Busy, Taken, Adding,
        OneAtATime, Chat!CrashNeedsCrowd
<1>1. CASE Chat!Start
  BY <1>1 DEF Chat!Start
<1>2. CASE Chat!ReadLine
  BY <1>2 DEF Chat!ReadLine
<1>3. CASE Chat!Cancel
  BY <1>3 DEF Chat!Cancel
<1>4. CASE Chat!LoadSize
  BY <1>4 DEF Chat!LoadSize
<1>5. CASE Chat!StoreSize
  BY <1>5 DEF Chat!StoreSize
<1>6. CASE Chat!WritePipe
  BY <1>6 DEF Chat!WritePipe
<1>7. CASE Chat!Join
  BY <1>7 DEF Chat!Join
<1>8. CASE Chat!Return
  BY <1>8 DEF Chat!Return
<1>9. CASE Chat!WakeForPipe
  BY <1>9 DEF Chat!WakeForPipe
<1>10. CASE Chat!WakeForData
  BY <1>10 DEF Chat!WakeForData
<1>11. CASE Chat!TakeHead
  BY <1>11 DEF Chat!TakeHead
<1>12. CASE Chat!LoopLoads
  BY <1>12 DEF Chat!LoopLoads
<1>13. CASE Chat!LoopStores
  BY <1>13 DEF Chat!LoopStores
<1>14. CASE Chat!Send
  BY <1>14 DEF Chat!Send
<1>15. CASE Chat!Cancelled
  BY <1>15 DEF Chat!Cancelled
<1>16. CASE Chat!ServerSends
  BY <1>16 DEF Chat!ServerSends
<1>17. CASE Chat!ServerCloses
  BY <1>17 DEF Chat!ServerCloses
<1>18. CASE Chat!ServerReads
  BY <1>18 DEF Chat!ServerReads
<1>19. CASE Chat!NoMemory
  BY <1>19 DEF Chat!NoMemory
<1>20. CASE UNCHANGED Chat!vars
  BY <1>20 DEF Chat!vars
<1> QED
  BY <1>1, <1>2, <1>3, <1>4, <1>5, <1>6, <1>7, <1>8, <1>9, <1>10, <1>11, <1>12, <1>13,
     <1>14, <1>15, <1>16, <1>17, <1>18, <1>19, <1>20
     DEF Chat!Next, Chat!Main, Chat!Loop

\* The message sent is newer than those sent before.
LEMMA NoDuplicatesStep ==
  ASSUME Chat!ChatAssumption, ChatInv, [Chat!Next]_(Chat!vars)
  PROVE  Chat!NoDuplicates'
<1> USE DEF ChatInv, Chat!TypeOK, Chat!ChatAssumption, Chat!NULL, Chat!queue, Chat!others,
        Chat!ghosts, Chat!LoopAt, Chat!Over, Busy, Taken, Adding,
        NewerAtHead, Chat!NoDuplicates
<1>1. CASE Chat!Start
  BY <1>1 DEF Chat!Start
<1>2. CASE Chat!ReadLine
  BY <1>2 DEF Chat!ReadLine
<1>3. CASE Chat!Cancel
  BY <1>3 DEF Chat!Cancel
<1>4. CASE Chat!LoadSize
  BY <1>4 DEF Chat!LoadSize
<1>5. CASE Chat!StoreSize
  BY <1>5 DEF Chat!StoreSize
<1>6. CASE Chat!WritePipe
  BY <1>6 DEF Chat!WritePipe
<1>7. CASE Chat!Join
  BY <1>7 DEF Chat!Join
<1>8. CASE Chat!Return
  BY <1>8 DEF Chat!Return
<1>9. CASE Chat!WakeForPipe
  BY <1>9 DEF Chat!WakeForPipe
<1>10. CASE Chat!WakeForData
  BY <1>10 DEF Chat!WakeForData
<1>11. CASE Chat!TakeHead
  BY <1>11 DEF Chat!TakeHead
<1>12. CASE Chat!LoopLoads
  BY <1>12 DEF Chat!LoopLoads
<1>13. CASE Chat!LoopStores
  BY <1>13 DEF Chat!LoopStores
<1>14. CASE Chat!Send
  <2>1. /\ csent \in Seq(1..MaxMsgs) /\ msg \in 1..MaxMsgs /\ 1..MaxMsgs \subseteq Int
        /\ csent' = csent \/ csent' = Append(csent, msg)
    BY <1>14, ChatSends
  <2>2. \A k \in 1..Len(csent) : csent[k] < msg
    BY <1>14 DEF Chat!Send
  <2>3. Increasing(csent) => Increasing(Append(csent, msg))
    BY <2>1, <2>2, IncreasingAppend
  <2>4. \A q : Increasing(q) <=> \A j, k \in 1..Len(q) : j < k => q[j] < q[k]
    BY DEF Increasing
  <2>5. Increasing(csent) /\ (Increasing(csent') => Chat!NoDuplicates')
    BY <2>4
  <2> QED
    BY <2>1, <2>3, <2>5
<1>15. CASE Chat!Cancelled
  BY <1>15 DEF Chat!Cancelled
<1>16. CASE Chat!ServerSends
  BY <1>16 DEF Chat!ServerSends
<1>17. CASE Chat!ServerCloses
  BY <1>17 DEF Chat!ServerCloses
<1>18. CASE Chat!ServerReads
  BY <1>18 DEF Chat!ServerReads
<1>19. CASE Chat!NoMemory
  BY <1>19 DEF Chat!NoMemory
<1>20. CASE UNCHANGED Chat!vars
  BY <1>20 DEF Chat!vars
<1> QED
  BY <1>1, <1>2, <1>3, <1>4, <1>5, <1>6, <1>7, <1>8, <1>9, <1>10, <1>11, <1>12, <1>13,
     <1>14, <1>15, <1>16, <1>17, <1>18, <1>19, <1>20
     DEF Chat!Next, Chat!Main, Chat!Loop

\* chat/client.c starts with an empty list.
LEMMA ChatInitially == ASSUME Chat!ChatAssumption, Chat!Init PROVE ChatInv
<1> USE DEF Chat!Init, Chat!ChatAssumption, Chat!NULL
<1>1. crowded = FALSE /\ nomem = FALSE /\ room = TRUE
  OBVIOUS
<1>2. csent \in Seq(1..MaxMsgs) /\ Len(csent) = 0
  OBVIOUS
<1>3. /\ cmain = "start" /\ cloop = "unborn" /\ server = "open" /\ con = "closed"
      /\ {chead, ctail, msg} \subseteq 0..MaxMsgs
      /\ csize \in Int /\ mreg \in Int /\ lreg \in Int
      /\ ctyped \in 0..MaxMsgs /\ pipe \in 0..PipeCap /\ handled \in 0..MaxMsgs
      /\ cdata \in 0..MaxData /\ ccame \in 0..MaxData
  OBVIOUS
<1>4. Chat!TypeOK
  <2> HIDE DEF Chat!Init
  <2> QED
    BY <1>1, <1>2, <1>3 DEF Chat!TypeOK
<1> QED
  BY <1>2, <1>4
     DEF ChatInv, BytesCounted, NewerAtHead, OneAtATime, Busy, Taken, Adding,
         Chat!CrashNeedsCrowd, Chat!NoDuplicates

\* Every step of chat/client.c preserves its invariant.
LEMMA ChatStep ==
  ASSUME Chat!ChatAssumption, ChatInv, [Chat!Next]_(Chat!vars)
  PROVE  ChatInv'
  BY ChatTypeStep, BytesCountedStep, NewerAtHeadStep, OneAtATimeStep, CrashStep, NoDuplicatesStep
     DEF ChatInv

-----------------------------------------------------------------------------
(* misc/mqueue *)

\* A sender that runs has the queue of that name open, the newest there is; a queue
\* that holds points has a name or a receiver.
Opened ==
  /\ queues \in [MQ!Queues -> Seq(1..MaxPoints)]
  /\ runs \in [s : 0..MaxRuns, r : 0..MaxRuns]
  /\ qmade <= runs.s /\ name \in {0, qmade} /\ rq <= qmade
  /\ snd = "idle" => sq = 0
  /\ snd # "idle" => sq = name /\ name # 0
  /\ rcv = "idle" <=> rq = 0
  /\ \A k \in MQ!Queues : k > qmade => queues[k] = <<>>
  /\ \A k \in MQ!Queues : queues[k] # <<>> => k \in {name, rq}

\* A point in flight is newer than all others.
Fresh ==
  /\ snd = "send" => qtyped > 0 /\ qtyped \notin unsent /\ qtyped \notin dropped
  /\ unsent \subseteq 1..qtyped /\ dropped \subseteq 1..qtyped
  /\ \A p \in MQ!Points(received) : p <= qtyped /\ (snd = "send" => p < qtyped)
  /\ \A k \in MQ!Queues : \A p \in MQ!Points(queues[k]) :
       p <= qtyped /\ (snd = "send" => p < qtyped)

\* Every sequence is in order, so are the queues among each other, and the queues
\* that can be opened come after what was received.
Ordered ==
  /\ Increasing(received)
  /\ \A k \in MQ!Queues : Increasing(queues[k])
  /\ \A k, l \in MQ!Queues : k < l =>
       \A p \in MQ!Points(queues[k]), r \in MQ!Points(queues[l]) : p < r
  /\ \A k \in MQ!Queues : k \in {name, rq} =>
       \A p \in MQ!Points(received), r \in MQ!Points(queues[k]) : p < r

\* The point is with nobody yet, came to no queue or is gone with one.
Nowhere(p) == p \in unsent \union dropped \/ (snd = "send" /\ p = qtyped)

\* A point is received, in a queue or nowhere, and only one of these.
Placed ==
  /\ unsent \cap dropped = {}
  /\ \A k \in MQ!Queues : MQ!Points(received) \cap MQ!Points(queues[k]) = {}
  /\ \A p \in 1..qtyped :
       Nowhere(p) <=> p \notin MQ!Points(received) /\ \A k \in MQ!Queues : p \notin MQ!Points(queues[k])

\* A receiver about to print has a point, and those killed had one each.
Counted ==
  /\ rcv = "print" => received # <<>>
  /\ IsFiniteSet(unprinted) /\ MQ!OneLostPerKill

\* The inductive invariant of misc/mqueue.
MQInv == MQ!TypeOK /\ Opened /\ Fresh /\ Ordered /\ Placed /\ Counted

\* The points of a sequence are among those it is made of.
LEMMA PointsIn == ASSUME NEW S, NEW q \in Seq(S) PROVE MQ!Points(q) \subseteq S
  BY DEF MQ!Points

\* The points of a sequence, one behind the others.
LEMMA PointsAppend ==
  ASSUME NEW S, NEW q \in Seq(S), NEW e \in S
  PROVE  MQ!Points(Append(q, e)) = MQ!Points(q) \union {e}
<1> DEFINE r == Append(q, e)
<1>1. /\ DOMAIN r = 1..Len(q) + 1 /\ DOMAIN q = 1..Len(q) /\ Len(q) \in Nat
      /\ r[Len(q) + 1] = e /\ \A k \in 1..Len(q) : r[k] = q[k]
  BY Appended
<1> HIDE DEF r
<1>2. \A x : x \in DOMAIN r <=> x \in DOMAIN q \/ x = Len(q) + 1
  BY <1>1
<1>3. MQ!Points(r) = MQ!Points(q) \union {e}
  BY <1>1, <1>2 DEF MQ!Points
<1> QED
  BY <1>3 DEF r

\* The points of a sequence, without the first.
LEMMA PointsTail ==
  ASSUME NEW S, NEW q \in Seq(S), q # <<>>
  PROVE  /\ Head(q) \in S /\ Tail(q) \in Seq(S) /\ Len(Tail(q)) = Len(q) - 1 /\ Len(q) \in Nat
         /\ MQ!Points(q) = MQ!Points(Tail(q)) \union {Head(q)}
<1> DEFINE r == Tail(q)
<1>1. /\ Head(q) \in S /\ r \in Seq(S) /\ Len(r) = Len(q) - 1 /\ Len(q) \in Nat /\ Len(q) > 0
      /\ Head(q) = q[1] /\ \A k \in 1..Len(q) - 1 : r[k] = q[k + 1]
  OBVIOUS
<1>2. DOMAIN r = 1..Len(q) - 1 /\ DOMAIN q = 1..Len(q)
  BY <1>1
<1> HIDE DEF r
<1>3. MQ!Points(r) \subseteq MQ!Points(q)
  BY <1>1, <1>2, SMTT(30) DEF MQ!Points
<1>4. q[1] \in MQ!Points(q)
  BY <1>1, <1>2 DEF MQ!Points
<1>5. ASSUME NEW k \in DOMAIN q PROVE q[k] = q[1] \/ q[k] \in MQ!Points(r)
  <2>1. CASE k = 1
    BY <2>1
  <2>2. CASE k # 1
    <3>1. k - 1 \in DOMAIN r /\ r[k - 1] = q[k]
      BY <1>1, <1>2, <2>2
    <3> QED
      BY <3>1 DEF MQ!Points
  <2> QED
    BY <2>1, <2>2
<1>6. MQ!Points(q) = MQ!Points(r) \union {Head(q)}
  BY <1>1, <1>3, <1>4, <1>5 DEF MQ!Points
<1> QED
  BY <1>1, <1>6 DEF r

\* The first of an increasing sequence is smaller than the others.
LEMMA IncreasingTail ==
  ASSUME NEW S, S \subseteq Int, NEW q \in Seq(S), q # <<>>, Increasing(q)
  PROVE  Increasing(Tail(q)) /\ \A p \in MQ!Points(Tail(q)) : Head(q) < p
<1> DEFINE r == Tail(q)
<1>1. /\ Len(r) = Len(q) - 1 /\ Len(q) \in Nat /\ Len(q) > 0 /\ r \in Seq(S)
      /\ Head(q) = q[1] /\ \A k \in 1..Len(q) - 1 : r[k] = q[k + 1]
  OBVIOUS
<1>2. DOMAIN r = 1..Len(q) - 1
  BY <1>1
<1> HIDE DEF r
<1>3. Increasing(r)
  BY <1>1 DEF Increasing
<1>4. ASSUME NEW k \in DOMAIN r PROVE Head(q) < r[k]
  BY <1>1, <1>2 DEF Increasing
<1> QED
  BY <1>3, <1>4 DEF r, MQ!Points

\* A point joins the newest queue, as the newest point.
LEMMA QueueGrows ==
  ASSUME MQ!MQueueAssumption, MQInv, MQ!Send
  PROVE  /\ sq \in MQ!Queues /\ sq = name /\ sq = qmade /\ qtyped \in 1..MaxPoints
         /\ queues' \in [MQ!Queues -> Seq(1..MaxPoints)]
         /\ \A k \in MQ!Queues : k # sq => queues'[k] = queues[k]
         /\ queues'[sq] \in Seq(1..MaxPoints) /\ Len(queues'[sq]) <= QUEUE_SIZE
         /\ Increasing(queues[sq]) => Increasing(queues'[sq])
         /\ MQ!Points(queues'[sq]) = MQ!Points(queues[sq]) \union {qtyped}
         /\ snd = "send" /\ snd' \in {"close", "getchar"}
         /\ UNCHANGED <<name, qmade, dropped, sq, runs, qtyped, unsent, rcv, rq, received, unprinted>>
<1> DEFINE Numbers == 1..MaxPoints
           q == queues[sq]
<1>1. /\ sq \in MQ!Queues /\ sq = name /\ sq = qmade /\ qtyped \in Numbers /\ Numbers \subseteq Int
      /\ queues \in [MQ!Queues -> Seq(Numbers)]
      /\ q \in Seq(Numbers) /\ Len(q) \in Nat /\ Len(q) < QUEUE_SIZE /\ QUEUE_SIZE \in Nat
  BY DEF MQInv, MQ!TypeOK, MQ!MQueueAssumption, Opened, Fresh, MQ!Send, MQ!NoQueue, MQ!Queues
<1>2. \A k \in 1..Len(q) : q[k] < qtyped
  <2>1. \A p \in MQ!Points(q) : p < qtyped
    BY <1>1 DEF MQInv, Fresh, MQ!Send
  <2> QED
    BY <1>1, <2>1 DEF MQ!Points
<1>3. queues' = [queues EXCEPT ![sq] = Append(q, qtyped)]
  BY DEF MQ!Send
<1> HIDE DEF Numbers, q
<1>4. /\ Append(q, qtyped) \in Seq(Numbers) /\ Len(Append(q, qtyped)) = Len(q) + 1
      /\ MQ!Points(Append(q, qtyped)) = MQ!Points(q) \union {qtyped}
      /\ Increasing(q) => Increasing(Append(q, qtyped))
  BY <1>1, <1>2, Appended, PointsAppend, IncreasingAppend, ZenonT(60)
<1>5. /\ queues' \in [MQ!Queues -> Seq(Numbers)]
      /\ \A k \in MQ!Queues : k # sq => queues'[k] = queues[k]
      /\ queues'[sq] = Append(q, qtyped)
  BY <1>1, <1>3, <1>4
<1>6. /\ snd = "send" /\ snd' \in {"close", "getchar"}
      /\ UNCHANGED <<name, qmade, dropped, sq, runs, qtyped, unsent, rcv, rq, received, unprinted>>
  BY DEF MQ!Send, MQ!AfterSend, MQ!receiver
<1>7. Len(queues'[sq]) <= QUEUE_SIZE
  BY <1>1, <1>4, <1>5
<1> QED
  BY <1>1, <1>4, <1>5, <1>6, <1>7 DEF Numbers, q

\* The oldest point of the receiver's queue becomes the last received.
LEMMA QueueShrinks ==
  ASSUME MQ!MQueueAssumption, MQInv, MQ!Receive
  PROVE  /\ rq \in MQ!Queues /\ Head(queues[rq]) \in 1..MaxPoints
         /\ queues' \in [MQ!Queues -> Seq(1..MaxPoints)]
         /\ \A k \in MQ!Queues : k # rq => queues'[k] = queues[k]
         /\ queues'[rq] \in Seq(1..MaxPoints) /\ Len(queues'[rq]) <= QUEUE_SIZE
         /\ Increasing(queues'[rq]) /\ \A p \in MQ!Points(queues'[rq]) : Head(queues[rq]) < p
         /\ MQ!Points(queues[rq]) = MQ!Points(queues'[rq]) \union {Head(queues[rq])}
         /\ received' \in Seq(1..MaxPoints) /\ Increasing(received')
         /\ MQ!Points(received') = MQ!Points(received) \union {Head(queues[rq])}
         /\ rcv = "receive" /\ rcv' = "print" /\ queues[rq] # <<>>
         /\ UNCHANGED <<name, qmade, dropped, snd, sq, runs, qtyped, unsent, rq, unprinted>>
<1> DEFINE Numbers == 1..MaxPoints
           q == queues[rq]
           h == Head(queues[rq])
<1>1. /\ rq \in MQ!Queues /\ Numbers \subseteq Int /\ queues \in [MQ!Queues -> Seq(Numbers)]
      /\ q \in Seq(Numbers) /\ q # <<>> /\ received \in Seq(Numbers) /\ Len(q) <= QUEUE_SIZE
      /\ QUEUE_SIZE \in Nat
  BY DEF MQInv, MQ!TypeOK, MQ!MQueueAssumption, Opened, MQ!Receive, MQ!NoQueue, MQ!Queues
<1>2. Increasing(q) /\ Increasing(received)
  BY <1>1 DEF MQInv, Ordered
<1>3. /\ queues' = [queues EXCEPT ![rq] = Tail(q)] /\ received' = Append(received, h)
      /\ rcv = "receive" /\ rcv' = "print"
      /\ UNCHANGED <<name, qmade, dropped, snd, sq, runs, qtyped, unsent, rq, unprinted>>
  BY DEF MQ!Receive, MQ!sender
<1>4. /\ h \in Numbers /\ Tail(q) \in Seq(Numbers) /\ Len(Tail(q)) = Len(q) - 1 /\ Len(q) \in Nat
      /\ MQ!Points(q) = MQ!Points(Tail(q)) \union {h}
      /\ Increasing(Tail(q)) /\ \A p \in MQ!Points(Tail(q)) : h < p
  <2> HIDE DEF Numbers
  <2> QED
    BY <1>1, <1>2, PointsTail, IncreasingTail
<1>5. \A k \in 1..Len(received) : received[k] < h
  <2>1. \A p \in MQ!Points(received) : p < h
    BY <1>1, <1>4 DEF MQInv, Ordered
  <2> QED
    BY <1>1, <2>1 DEF MQ!Points
<1> HIDE DEF Numbers, q, h
<1>6. /\ Append(received, h) \in Seq(Numbers) /\ Increasing(Append(received, h))
      /\ MQ!Points(Append(received, h)) = MQ!Points(received) \union {h}
  <2>1. Append(received, h) \in Seq(Numbers)
    BY <1>1, <1>4, Appended
  <2>2. MQ!Points(Append(received, h)) = MQ!Points(received) \union {h}
    BY <1>1, <1>4, PointsAppend
  <2>3. Increasing(Append(received, h))
    BY <1>1, <1>2, <1>4, <1>5, IncreasingAppend
  <2> QED
    BY <2>1, <2>2, <2>3
<1>7. /\ queues' \in [MQ!Queues -> Seq(Numbers)]
      /\ \A k \in MQ!Queues : k # rq => queues'[k] = queues[k]
      /\ queues'[rq] = Tail(q)
  BY <1>1, <1>3, <1>4
<1>8. Len(queues'[rq]) <= QUEUE_SIZE
  BY <1>1, <1>4, <1>7
<1> QED
  BY <1>1, <1>3, <1>4, <1>6, <1>7, <1>8 DEF Numbers, q, h

\* A queue that is removed is empty from then on, and its points are dropped.
LEMMA OneReleased ==
  ASSUME NEW k \in MQ!Queues \union {0}, NEW S, 0 \notin MQ!Queues,
         queues \in [MQ!Queues -> Seq(1..MaxPoints)], MQ!Release(k, S)
  PROVE  /\ queues' \in [MQ!Queues -> Seq(1..MaxPoints)]
         /\ \A l \in MQ!Queues : queues'[l] = queues[l] \/ queues'[l] = <<>>
         /\ \A p : p \in dropped' <=>
              p \in dropped \/ \E l \in MQ!Queues : p \in MQ!Points(queues[l]) \ MQ!Points(queues'[l])
         /\ k \in MQ!Queues \ S => queues'[k] = <<>>
<1>1. <<>> \in Seq(1..MaxPoints) /\ MQ!Points(<<>>) = {}
  BY DEF MQ!Points
<1>2. CASE k = 0 \/ k \in S
  BY <1>2 DEF MQ!Release, MQ!NoQueue
<1>3. CASE ~(k = 0 \/ k \in S)
  <2>1. /\ queues' = [queues EXCEPT ![k] = <<>>] /\ dropped' = dropped \union MQ!Points(queues[k])
        /\ k \in MQ!Queues
    BY <1>3 DEF MQ!Release, MQ!NoQueue
  <2>2. /\ queues' \in [MQ!Queues -> Seq(1..MaxPoints)] /\ queues'[k] = <<>>
        /\ \A l \in MQ!Queues : l # k => queues'[l] = queues[l]
    BY <1>1, <2>1
  <2> QED
    BY <1>1, <2>1, <2>2
<1> QED
  BY <1>2, <1>3

\* What the steps that close or unlink a queue do to the queues.
LEMMA QueueReleased ==
  ASSUME MQ!MQueueAssumption, MQInv, MQ!Unlink \/ MQ!Test \/ MQ!ReceiverDies
  PROVE  /\ queues' \in [MQ!Queues -> Seq(1..MaxPoints)]
         /\ \A l \in MQ!Queues : queues'[l] = queues[l] \/ queues'[l] = <<>>
         /\ \A p : p \in dropped' <=>
              p \in dropped \/ \E l \in MQ!Queues : p \in MQ!Points(queues[l]) \ MQ!Points(queues'[l])
         /\ \A l \in MQ!Queues : queues'[l] # <<>> => l \in {name', rq'}
         /\ name' \in {0, name} /\ rq' \in {0, rq} /\ sq' \in {0, sq}
         /\ rcv' \in {rcv, "idle", "receive"} /\ (rcv' = "idle" <=> rq' = 0)
         /\ snd' \in {snd, "idle"} /\ (snd' = "idle" => sq' = 0) /\ (snd' # "idle" => sq' = name' /\ name' # 0)
         /\ UNCHANGED <<qmade, runs, qtyped, unsent, received>>
<1> DEFINE Q == MQ!Queues
<1>1. /\ queues \in [Q -> Seq(1..MaxPoints)] /\ 0 \notin Q /\ name \in Q \union {0} /\ rq \in Q \union {0}
      /\ \A l \in Q : queues[l] # <<>> => l \in {name, rq}
      /\ sq \in {0, name} /\ (snd = "idle" => sq = 0) /\ (snd # "idle" => sq = name /\ name # 0)
      /\ rcv = "idle" <=> rq = 0
  BY DEF MQInv, MQ!TypeOK, MQ!MQueueAssumption, MQ!Queues, MQ!NoQueue, Opened
<1> HIDE DEF Q, MQInv, MQ!MQueueAssumption
<1>2. CASE MQ!Unlink
  <2>1. /\ name' = 0 /\ snd' = "idle" /\ sq' = 0 /\ MQ!Release(name, {rq})
        /\ UNCHANGED <<qmade, runs, qtyped, unsent, received, rcv, rq>>
    BY <1>2 DEF MQ!Unlink, MQ!NoQueue, MQ!receiver
  <2>2. PICK k, S : k \in Q \union {0} /\ k = name /\ S = {rq}
    BY <1>1
  <2>3. MQ!Release(k, S)
    BY <2>1, <2>2 DEF MQ!Release
  <2> QED
    BY <1>1, <2>1, <2>2, <2>3, OneReleased DEF Q
<1>3. CASE MQ!Test
  <2>1. CASE g_continue
    <3>1. /\ rcv = "test" /\ rcv' = "receive"
          /\ UNCHANGED <<name, qmade, queues, dropped, snd, sq, runs, qtyped, unsent, rq, received>>
      BY <1>3, <2>1 DEF MQ!Test, MQ!sender
    <3> QED
      BY <1>1, <3>1 DEF Q
  <2>2. CASE ~g_continue
    <3>1. /\ rcv' = "idle" /\ rq' = 0 /\ MQ!Release(rq, {name, sq})
          /\ UNCHANGED <<name, qmade, snd, sq, runs, qtyped, unsent, received>>
      BY <1>3, <2>2 DEF MQ!Test, MQ!sender, MQ!NoQueue
    <3>2. PICK k, S : k \in Q \union {0} /\ k = rq /\ S = {name, sq}
      BY <1>1
    <3>3. MQ!Release(k, S)
      BY <3>1, <3>2 DEF MQ!Release
    <3> QED
      BY <1>1, <3>1, <3>2, <3>3, OneReleased DEF Q
  <2> QED
    BY <2>1, <2>2
<1>4. CASE MQ!ReceiverDies
  <2>1. /\ rcv' = "idle" /\ rq' = 0 /\ MQ!Release(rq, {name, sq})
        /\ UNCHANGED <<name, qmade, snd, sq, runs, qtyped, unsent, received>>
    BY <1>4 DEF MQ!ReceiverDies, MQ!sender, MQ!NoQueue
  <2>2. PICK k, S : k \in Q \union {0} /\ k = rq /\ S = {name, sq}
    BY <1>1
  <2>3. MQ!Release(k, S)
    BY <2>1, <2>2 DEF MQ!Release
  <2> QED
    BY <1>1, <2>1, <2>2, <2>3, OneReleased DEF Q
<1> QED
  BY <1>2, <1>3, <1>4

\* A receiver that is killed takes at most a point it has received.
LEMMA LastReceived ==
  ASSUME MQ!MQueueAssumption, MQInv, MQ!Unlink \/ MQ!Test \/ MQ!ReceiverDies
  PROVE  unprinted' \subseteq MQ!Points(received)
<1>1. unprinted \subseteq MQ!Points(received) /\ received \in Seq(1..MaxPoints)
  BY DEF MQInv, Counted, MQ!OneLostPerKill, MQ!TypeOK
<1>2. CASE rcv = "print" /\ MQ!ReceiverDies
  <2>1. Len(received) \in DOMAIN received
    <3>1. received # <<>>
      BY <1>2 DEF MQInv, Counted
    <3> QED
      BY <1>1, <3>1
  <2>2. unprinted' = unprinted \union {received[Len(received)]}
    BY <1>2 DEF MQ!ReceiverDies
  <2> QED
    BY <1>1, <2>1, <2>2 DEF MQ!Points
<1>3. CASE ~(rcv = "print" /\ MQ!ReceiverDies)
  BY <1>1, <1>3 DEF MQ!Unlink, MQ!Test, MQ!ReceiverDies, MQ!receiver
<1> QED
  BY <1>2, <1>3

\* None of these steps begins or ends a mq_send.
LEMMA SendStays ==
  ASSUME MQ!Unlink \/ MQ!Test \/ MQ!ReceiverDies
  PROVE  snd' = "send" <=> snd = "send"
  BY DEF MQ!Unlink, MQ!Test, MQ!ReceiverDies, MQ!sender

\* These steps keep each part of the invariant.
LEMMA ReleaseKeeps ==
  ASSUME MQ!MQueueAssumption, MQInv, MQ!Unlink \/ MQ!Test \/ MQ!ReceiverDies
  PROVE  MQ!TypeOK' /\ Opened' /\ Fresh' /\ Ordered' /\ Placed'
<1> DEFINE Q == MQ!Queues
           P(k) == MQ!Points(queues[k])
           N(k) == MQ!Points(queues'[k])
<1>1. /\ queues' \in [Q -> Seq(1..MaxPoints)]
      /\ \A l \in Q : queues'[l] = queues[l] \/ queues'[l] = <<>>
      /\ \A p : p \in dropped' <=> p \in dropped \/ \E l \in Q : p \in P(l) \ N(l)
      /\ \A l \in Q : queues'[l] # <<>> => l \in {name', rq'}
      /\ name' \in {0, name} /\ rq' \in {0, rq} /\ sq' \in {0, sq}
      /\ rcv' \in {rcv, "idle", "receive"} /\ (rcv' = "idle" <=> rq' = 0)
      /\ snd' \in {snd, "idle"} /\ (snd' = "idle" => sq' = 0) /\ (snd' # "idle" => sq' = name' /\ name' # 0)
      /\ UNCHANGED <<qmade, runs, qtyped, unsent, received>>
  BY QueueReleased
<1>2. MQ!TypeOK /\ Opened /\ Fresh /\ Ordered /\ Placed
  BY DEF MQInv
<1>3. /\ Q \subseteq Int /\ 0 \notin Q /\ QUEUE_SIZE \in Nat /\ MaxPoints \in Nat
      /\ qtyped \in 0..MaxPoints /\ Len(<<>>) = 0
  BY <1>2 DEF MQ!Queues, MQ!MQueueAssumption, MQ!TypeOK
<1>4. MQ!Points(<<>>) = {} /\ Increasing(<<>>)
  BY DEF MQ!Points, Increasing
<1>5. unprinted' \subseteq 1..MaxPoints
  <2>1. unprinted' \subseteq MQ!Points(received) /\ received \in Seq(1..MaxPoints)
    BY <1>2, LastReceived DEF MQ!TypeOK
  <2>2. MQ!Points(received) \subseteq 1..MaxPoints
    BY <2>1, PointsIn
  <2> QED
    BY <2>1, <2>2
<1>6. \A l \in Q : P(l) \subseteq 1..qtyped /\ (snd = "send" => qtyped \notin P(l))
  <2>1. \A l \in Q : \A p \in P(l) : p <= qtyped /\ (snd = "send" => p < qtyped)
    BY <1>2 DEF Fresh
  <2>2. \A l \in Q : P(l) \subseteq 1..MaxPoints
    BY <1>2, PointsIn DEF MQ!TypeOK
  <2> HIDE DEF Q, P
  <2> QED
    BY <1>3, <2>1, <2>2
<1> HIDE DEF Q, MQInv, MQ!MQueueAssumption
<1>7. MQ!TypeOK'
  <2>1. \A k \in Q : queues'[k] \in Seq(1..MaxPoints) /\ Len(queues'[k]) <= QUEUE_SIZE
    <3>1. \A k \in Q : queues[k] \in Seq(1..MaxPoints) /\ Len(queues[k]) <= QUEUE_SIZE
      BY <1>2 DEF MQ!TypeOK, Q
    <3>2. <<>> \in Seq(1..MaxPoints) /\ Len(<<>>) <= QUEUE_SIZE
      BY <1>3
    <3> QED
      BY <1>1, <3>1, <3>2
  <2>2. dropped' \subseteq 1..MaxPoints
    <3>1. 1..qtyped \subseteq 1..MaxPoints /\ dropped \subseteq 1..MaxPoints
      BY <1>2, <1>3 DEF MQ!TypeOK
    <3> QED
      BY <1>1, <1>6, <3>1
  <2>3. /\ name' \in Q \union {0} /\ {sq', rq'} \subseteq Q \union {0} /\ qmade' \in 0..MaxRuns
        /\ snd' \in {"idle", "getchar", "send", "close"}
        /\ rcv' \in {"idle", "signal", "test", "receive", "print"}
        /\ qtyped' \in 0..MaxPoints /\ unsent' \subseteq 1..MaxPoints
        /\ received' \in Seq(1..MaxPoints)
    BY <1>1, <1>2 DEF MQ!TypeOK, MQ!NoQueue, Q
  <2> QED
    BY <1>5, <2>1, <2>2, <2>3 DEF MQ!TypeOK, MQ!NoQueue, Q
<1>8. Opened'
  <2>1. \A k \in Q : k > qmade => queues'[k] = <<>>
    BY <1>1, <1>2 DEF Opened, Q
  <2>2. name' \in {0, qmade} /\ rq' <= qmade /\ qmade <= runs.s
    BY <1>1, <1>2 DEF Opened, MQ!TypeOK
  <2> QED
    BY <1>1, <1>2, <2>1, <2>2 DEF Opened, Q
<1>9. \A k \in Q : N(k) \subseteq P(k)
  BY <1>1, <1>4
<1>10. Fresh'
  <2>1. dropped' \subseteq 1..qtyped /\ (snd = "send" => qtyped \notin dropped')
    BY <1>1, <1>2, <1>6 DEF Fresh
  <2> HIDE DEF P, N
  <2>2. \A k \in Q : \A p \in N(k) : p <= qtyped /\ (snd = "send" => p < qtyped)
    BY <1>2, <1>9 DEF Fresh, Q, P
  <2>3. snd' = "send" => snd = "send"
    BY <1>1
  <2> QED
    BY <1>1, <1>2, <2>1, <2>2, <2>3 DEF Fresh, Q, N
<1>11. Ordered'
  <2>1. \A k \in Q : Increasing(queues'[k])
    BY <1>1, <1>2, <1>4 DEF Ordered, Q
  <2>2. \A k \in Q : k \in {name', rq'} => k \in {name, rq}
    BY <1>1, <1>3
  <2>3. \A k, l \in Q : k < l => \A p \in N(k), r \in N(l) : p < r
    BY <1>2, <1>9 DEF Ordered, Q
  <2>4. \A k \in Q : k \in {name', rq'} => \A p \in MQ!Points(received), r \in N(k) : p < r
    BY <1>2, <1>9, <2>2 DEF Ordered, Q
  <2> QED
    BY <1>1, <1>2, <2>1, <2>3, <2>4 DEF Ordered, Q
<1>12. Placed'
  <2>1. /\ \A k \in Q : MQ!Points(received) \cap P(k) = {}
        /\ unsent \cap dropped = {}
        /\ \A p \in 1..qtyped : Nowhere(p) <=> p \notin MQ!Points(received) /\ \A k \in Q : p \notin P(k)
    BY <1>2 DEF Placed, Q
  <2>2. \A k, l \in Q, p \in 1..qtyped : p \in P(k) /\ p \in P(l) => k = l
    <3> SUFFICES ASSUME NEW k \in Q, NEW l \in Q, NEW p \in 1..qtyped, p \in P(k), p \in P(l), k # l
                 PROVE FALSE
      OBVIOUS
    <3>1. k < l \/ l < k
      BY <1>3
    <3>2. p < p
      BY <1>2, <3>1 DEF Ordered, Q
    <3> QED
      BY <1>3, <3>2
  <2>3. \A l \in Q : \A p \in P(l) \ N(l) : \A k \in Q : p \notin N(k)
    BY <1>6, <1>9, <2>2
  <2>4. \A k \in Q : \A p \in P(k) : p \notin unsent
    BY <1>6, <2>1 DEF Nowhere
  <2>5. unsent \cap dropped' = {}
    BY <1>1, <2>1, <2>4
  <2>6. snd' = "send" <=> snd = "send"
    BY <1>1, <1>2, SendStays
  <2> HIDE DEF P, N
  <2>7. ASSUME NEW p \in 1..qtyped
        PROVE  Nowhere(p)' <=> p \notin MQ!Points(received) /\ \A k \in Q : p \notin N(k)
    <3>1. Nowhere(p)' <=> Nowhere(p) \/ p \in dropped'
      BY <1>1, <2>6 DEF Nowhere, P, N
    <3>2. CASE p \in dropped
      BY <1>1, <1>9, <2>1, <3>1, <3>2 DEF Nowhere, P, N
    <3>3. CASE p \notin dropped
      BY <1>1, <1>9, <2>1, <2>3, <3>1, <3>3 DEF P, N
    <3> QED
      BY <3>2, <3>3
  <2>8. \A k \in Q : MQ!Points(received) \cap N(k) = {}
    BY <1>9, <2>1
  <2> QED
    BY <1>1, <2>5, <2>7, <2>8 DEF Placed, Q, N
<1> QED
  BY <1>7, <1>8, <1>10, <1>11, <1>12

\* The variables keep their types: a sender waits when the queue is full.
LEMMA MQTypeStep ==
  ASSUME MQ!MQueueAssumption, MQInv, [MQ!Next]_(MQ!vars)
  PROVE  MQ!TypeOK'
<1> USE DEF MQInv, MQ!TypeOK, MQ!MQueueAssumption, MQ!Queues, MQ!NoQueue, MQ!sender, MQ!receiver,
        MQ!queues, MQ!AfterSend, Opened, Fresh
<1>1. CASE MQ!SenderOpens
  BY <1>1 DEF MQ!SenderOpens
<1>2. CASE MQ!GetChar
  BY <1>2 DEF MQ!GetChar
<1>3. CASE MQ!Send
  BY <1>3, QueueGrows
<1>4. CASE MQ!SendFails
  BY <1>4 DEF MQ!SendFails
<1>5. CASE MQ!Unlink
  BY <1>5, ReleaseKeeps
<1>6. CASE MQ!SenderDies
  BY <1>6 DEF MQ!SenderDies
<1>7. CASE MQ!ReceiverOpens
  BY <1>7 DEF MQ!ReceiverOpens
<1>8. CASE MQ!Handles
  BY <1>8 DEF MQ!Handles
<1>9. CASE MQ!Test
  BY <1>9, ReleaseKeeps
<1>10. CASE MQ!Receive
  <2>1. MQ!TypeOK
    OBVIOUS
  <2> HIDE DEF MQ!Queues, MQ!MQueueAssumption, MQInv, Opened, Fresh, Ordered
  <2>2. \A k \in MQ!Queues : queues'[k] \in Seq(1..MaxPoints) /\ Len(queues'[k]) <= QUEUE_SIZE
    BY <1>10, <2>1, QueueShrinks
  <2>3. /\ received' \in Seq(1..MaxPoints) /\ rcv' = "print"
        /\ UNCHANGED <<name, qmade, dropped, snd, sq, qtyped, unsent, rq, unprinted>>
    BY <1>10, QueueShrinks
  <2> QED
    BY <2>1, <2>2, <2>3
<1>11. CASE MQ!TimesOut
  BY <1>11 DEF MQ!TimesOut
<1>12. CASE MQ!Sigint
  BY <1>12 DEF MQ!Sigint
<1>13. CASE MQ!Show
  BY <1>13 DEF MQ!Show
<1>14. CASE MQ!ReceiverDies
  BY <1>14, ReleaseKeeps
<1>15. CASE UNCHANGED MQ!vars
  BY <1>15 DEF MQ!vars
<1> QED
  BY <1>1, <1>2, <1>3, <1>4, <1>5, <1>6, <1>7, <1>8, <1>9, <1>10, <1>11, <1>12, <1>13,
     <1>14, <1>15
     DEF MQ!Next, MQ!Receiver

\* The starts of the programs are counted.
LEMMA SenderCounts ==
  ASSUME MQ!MQueueAssumption, MQInv, MQ!SenderOpens
  PROVE  /\ runs' \in [s : 0..MaxRuns, r : 0..MaxRuns] /\ runs'.s = runs.s + 1
         /\ runs.s \in 0..MaxRuns
<1>1. runs \in [s : 0..MaxRuns, r : 0..MaxRuns] /\ MaxRuns \in Nat
  BY DEF MQInv, Opened, MQ!MQueueAssumption
<1>2. runs' = [runs EXCEPT !.s = @ + 1] /\ runs.s < MaxRuns
  BY DEF MQ!SenderOpens
<1>3. runs' = [s |-> runs.s + 1, r |-> runs.r]
  BY <1>1, <1>2
<1> QED
  BY <1>1, <1>2, <1>3

\* The same for the receiver.
LEMMA ReceiverCounts ==
  ASSUME MQ!MQueueAssumption, MQInv, MQ!ReceiverOpens
  PROVE  runs' \in [s : 0..MaxRuns, r : 0..MaxRuns] /\ runs'.s = runs.s
<1>1. runs \in [s : 0..MaxRuns, r : 0..MaxRuns] /\ MaxRuns \in Nat
  BY DEF MQInv, Opened, MQ!MQueueAssumption
<1>2. runs' = [runs EXCEPT !.r = @ + 1] /\ runs.r < MaxRuns
  BY DEF MQ!ReceiverOpens
<1>3. runs' = [s |-> runs.s, r |-> runs.r + 1]
  BY <1>1, <1>2
<1> QED
  BY <1>1, <1>2, <1>3

\* A queue is made when there is none of that name.
LEMMA OpenedStep ==
  ASSUME MQ!MQueueAssumption, MQInv, [MQ!Next]_(MQ!vars)
  PROVE  Opened'
<1> USE DEF MQInv, MQ!TypeOK, MQ!MQueueAssumption, MQ!Queues, MQ!NoQueue, MQ!sender, MQ!receiver,
        MQ!queues, MQ!AfterSend, Opened, Fresh
<1>1. CASE MQ!SenderOpens
  <2>1. /\ runs' \in [s : 0..MaxRuns, r : 0..MaxRuns] /\ runs'.s = runs.s + 1
        /\ runs.s \in 0..MaxRuns
    BY <1>1, SenderCounts
  <2>2. /\ qmade' = (IF name = 0 THEN qmade + 1 ELSE qmade) /\ name' = (IF name = 0 THEN qmade' ELSE name)
        /\ sq' = name' /\ snd' = "getchar" /\ UNCHANGED <<queues, rcv, rq>>
    BY <1>1 DEF MQ!SenderOpens
  <2> QED
    BY <2>1, <2>2, SMTT(30)
<1>2. CASE MQ!GetChar
  BY <1>2 DEF MQ!GetChar
<1>3. CASE MQ!Send
  <2>1. /\ \A k \in MQ!Queues : k > qmade => queues[k] = <<>>
        /\ qmade \in Int /\ Opened
    OBVIOUS
  <2> HIDE DEF MQ!TypeOK, MQ!Queues, MQ!MQueueAssumption, MQInv, Opened, Fresh, Ordered
  <2>2. /\ queues' \in [MQ!Queues -> Seq(1..MaxPoints)] /\ sq = qmade /\ sq = name
        /\ \A k \in MQ!Queues : k # sq => queues'[k] = queues[k]
        /\ snd = "send" /\ snd' \in {"close", "getchar"}
        /\ UNCHANGED <<name, qmade, sq, runs, rcv, rq>>
    BY <1>3, QueueGrows
  <2>3. \A k \in MQ!Queues : k > qmade => queues'[k] = <<>>
    BY <2>1, <2>2
  <2> QED
    BY <2>1, <2>2, <2>3 DEF Opened
<1>4. CASE MQ!SendFails
  BY <1>4 DEF MQ!SendFails
<1>5. CASE MQ!Unlink
  BY <1>5, ReleaseKeeps
<1>6. CASE MQ!SenderDies
  BY <1>6 DEF MQ!SenderDies
<1>7. CASE MQ!ReceiverOpens
  <2>1. runs' \in [s : 0..MaxRuns, r : 0..MaxRuns] /\ runs'.s = runs.s
    BY <1>7, ReceiverCounts
  <2>2. /\ rq' = name /\ rcv' = (IF name = 0 THEN "idle" ELSE "signal")
        /\ rcv = "idle" /\ UNCHANGED <<name, qmade, queues, snd, sq>>
    BY <1>7 DEF MQ!ReceiverOpens
  <2> QED
    BY <2>1, <2>2
<1>8. CASE MQ!Handles
  BY <1>8 DEF MQ!Handles
<1>9. CASE MQ!Test
  BY <1>9, ReleaseKeeps
<1>10. CASE MQ!Receive
  BY <1>10, QueueShrinks
<1>11. CASE MQ!TimesOut
  BY <1>11 DEF MQ!TimesOut
<1>12. CASE MQ!Sigint
  BY <1>12 DEF MQ!Sigint
<1>13. CASE MQ!Show
  BY <1>13 DEF MQ!Show
<1>14. CASE MQ!ReceiverDies
  BY <1>14, ReleaseKeeps
<1>15. CASE UNCHANGED MQ!vars
  BY <1>15 DEF MQ!vars
<1> QED
  BY <1>1, <1>2, <1>3, <1>4, <1>5, <1>6, <1>7, <1>8, <1>9, <1>10, <1>11, <1>12, <1>13,
     <1>14, <1>15
     DEF MQ!Next, MQ!Receiver

\* A character typed is newer than all points.
LEMMA FreshStep ==
  ASSUME MQ!MQueueAssumption, MQInv, [MQ!Next]_(MQ!vars)
  PROVE  Fresh'
<1> USE DEF MQInv, MQ!TypeOK, MQ!MQueueAssumption, MQ!Queues, MQ!NoQueue, MQ!sender, MQ!receiver,
        MQ!queues, MQ!AfterSend, Opened, Fresh
<1>1. CASE MQ!SenderOpens
  BY <1>1 DEF MQ!SenderOpens
<1>2. CASE MQ!GetChar
  <2>1. qtyped' = qtyped + 1 /\ UNCHANGED <<queues, received, unsent, dropped>>
    BY <1>2 DEF MQ!GetChar
  <2>2. \A k \in MQ!Queues : \A p \in MQ!Points(queues[k]) : p \in Int
    BY DEF MQ!Points
  <2>3. \A p \in MQ!Points(received) : p \in Int
    BY DEF MQ!Points
  <2> QED
    BY <2>1, <2>2, <2>3, SMTT(30)
<1>3. CASE MQ!Send
  <2>1. /\ \A k \in MQ!Queues : \A p \in MQ!Points(queues[k]) : p <= qtyped
        /\ qtyped \in Int /\ Fresh
    OBVIOUS
  <2> HIDE DEF MQ!TypeOK, MQ!Queues, MQ!MQueueAssumption, MQInv, Opened, Fresh, Ordered
  <2>2. \A k \in MQ!Queues : \A p \in MQ!Points(queues'[k]) : p <= qtyped
    BY <1>3, <2>1, QueueGrows
  <2>3. snd' # "send" /\ UNCHANGED <<qtyped, unsent, dropped, received>>
    BY <1>3, QueueGrows
  <2> QED
    BY <2>1, <2>2, <2>3 DEF Fresh
<1>4. CASE MQ!SendFails
  BY <1>4 DEF MQ!SendFails
<1>5. CASE MQ!Unlink
  BY <1>5, ReleaseKeeps
<1>6. CASE MQ!SenderDies
  BY <1>6 DEF MQ!SenderDies
<1>7. CASE MQ!ReceiverOpens
  BY <1>7 DEF MQ!ReceiverOpens
<1>8. CASE MQ!Handles
  BY <1>8 DEF MQ!Handles
<1>9. CASE MQ!Test
  BY <1>9, ReleaseKeeps
<1>10. CASE MQ!Receive
  <2>1. Fresh
    OBVIOUS
  <2> HIDE DEF MQ!TypeOK, MQ!Queues, MQ!MQueueAssumption, MQInv, Opened, Fresh, Ordered
  <2>2. /\ rq \in MQ!Queues /\ \A k \in MQ!Queues : k # rq => queues'[k] = queues[k]
        /\ MQ!Points(queues[rq]) = MQ!Points(queues'[rq]) \union {Head(queues[rq])}
        /\ MQ!Points(received') = MQ!Points(received) \union {Head(queues[rq])}
        /\ UNCHANGED <<snd, qtyped, unsent, dropped>>
    BY <1>10, QueueShrinks
  <2>3. /\ \A k \in MQ!Queues : MQ!Points(queues'[k]) \subseteq MQ!Points(queues[k])
        /\ Head(queues[rq]) \in MQ!Points(queues[rq])
    BY <2>2
  <2> QED
    BY <2>1, <2>2, <2>3 DEF Fresh
<1>11. CASE MQ!TimesOut
  BY <1>11 DEF MQ!TimesOut
<1>12. CASE MQ!Sigint
  BY <1>12 DEF MQ!Sigint
<1>13. CASE MQ!Show
  BY <1>13 DEF MQ!Show
<1>14. CASE MQ!ReceiverDies
  BY <1>14, ReleaseKeeps
<1>15. CASE UNCHANGED MQ!vars
  BY <1>15 DEF MQ!vars
<1> QED
  BY <1>1, <1>2, <1>3, <1>4, <1>5, <1>6, <1>7, <1>8, <1>9, <1>10, <1>11, <1>12, <1>13,
     <1>14, <1>15
     DEF MQ!Next, MQ!Receiver

\* Points go to the newest queue, which comes last.
LEMMA OrderedStep ==
  ASSUME MQ!MQueueAssumption, MQInv, [MQ!Next]_(MQ!vars)
  PROVE  Ordered'
<1> USE DEF MQInv, MQ!TypeOK, MQ!MQueueAssumption, MQ!Queues, MQ!NoQueue, MQ!sender, MQ!receiver,
        MQ!queues, MQ!AfterSend, Opened, Fresh, Ordered
<1>1. CASE MQ!SenderOpens
  <2>1. /\ qmade' = (IF name = 0 THEN qmade + 1 ELSE qmade) /\ name' = (IF name = 0 THEN qmade' ELSE name)
        /\ UNCHANGED <<queues, rq, received>>
    BY <1>1 DEF MQ!SenderOpens
  <2>2. name' = name \/ \A k \in MQ!Queues : k = name' => queues[k] = <<>>
    BY <2>1
  <2>3. MQ!Points(<<>>) = {}
    BY DEF MQ!Points
  <2> QED
    BY <2>1, <2>2, <2>3
<1>2. CASE MQ!GetChar
  BY <1>2 DEF MQ!GetChar
<1>3. CASE MQ!Send
  <2> DEFINE Q == MQ!Queues
             P(k) == MQ!Points(queues[k])
  <2>1. /\ sq \in Q /\ sq = qmade /\ sq = name /\ UNCHANGED <<name, rq, received>>
        /\ \A k \in Q : k # sq => queues'[k] = queues[k]
        /\ MQ!Points(queues'[sq]) = P(sq) \union {qtyped}
        /\ Increasing(queues'[sq])
    BY <1>3, QueueGrows
  <2>2. /\ \A k \in Q : k > sq => P(k) = {}
        /\ \A k \in Q : \A p \in P(k) : p < qtyped
        /\ \A p \in MQ!Points(received) : p < qtyped
        /\ Q \subseteq Int
    <3>1. MQ!Points(<<>>) = {}
      BY DEF MQ!Points
    <3>2. \A k \in Q : k > sq => P(k) = {}
      BY <2>1, <3>1
    <3>3. \A k \in Q : \A p \in P(k) : p < qtyped
      BY <1>3 DEF MQ!Send
    <3>4. \A p \in MQ!Points(received) : p < qtyped
      BY <1>3 DEF MQ!Send
    <3> QED
      BY <3>2, <3>3, <3>4
  <2>3. /\ \A k \in Q : Increasing(queues[k])
        /\ \A k, l \in Q : k < l => \A p \in P(k), r \in P(l) : p < r
        /\ \A k \in Q : k \in {name, rq} => \A p \in MQ!Points(received), r \in P(k) : p < r
        /\ Increasing(received)
    OBVIOUS
  <2> HIDE DEF Q, MQInv, MQ!MQueueAssumption
  <2>4. \A k \in Q : Increasing(queues'[k])
    BY <2>1, <2>3
  <2>5. ASSUME NEW k \in Q, NEW l \in Q, k < l,
               NEW p \in MQ!Points(queues'[k]), NEW r \in MQ!Points(queues'[l])
        PROVE  p < r
    <3>1. CASE l = sq
      <4>1. p \in P(k)
        BY <2>1, <2>2, <2>5, <3>1
      <4> QED
        BY <2>1, <2>2, <2>3, <2>5, <3>1, <4>1
    <3>2. CASE l # sq
      <4>1. r \in P(l) /\ l \in Int /\ k \in Int /\ sq \in Int
        BY <2>1, <2>2, <3>2
      <4>2. ~(l > sq)
        BY <2>2, <4>1
      <4>3. k # sq
        BY <2>5, <4>1, <4>2
      <4> QED
        BY <2>1, <2>3, <2>5, <4>1, <4>3
    <3> QED
      BY <3>1, <3>2
  <2>6. ASSUME NEW k \in Q, k \in {name, rq}, NEW p \in MQ!Points(received),
               NEW r \in MQ!Points(queues'[k])
        PROVE  p < r
    BY <2>1, <2>2, <2>3, <2>6
  <2> QED
    BY <2>1, <2>3, <2>4, <2>5, <2>6 DEF Q
<1>4. CASE MQ!SendFails
  BY <1>4 DEF MQ!SendFails
<1>5. CASE MQ!Unlink
  BY <1>5, ReleaseKeeps
<1>6. CASE MQ!SenderDies
  BY <1>6 DEF MQ!SenderDies
<1>7. CASE MQ!ReceiverOpens
  BY <1>7 DEF MQ!ReceiverOpens
<1>8. CASE MQ!Handles
  BY <1>8 DEF MQ!Handles
<1>9. CASE MQ!Test
  BY <1>9, ReleaseKeeps
<1>10. CASE MQ!Receive
  <2> DEFINE Q == MQ!Queues
             P(k) == MQ!Points(queues[k])
             h == Head(queues[rq])
  <2>1. /\ rq \in Q /\ UNCHANGED <<name, rq>> /\ \A k \in Q : k # rq => queues'[k] = queues[k]
        /\ Increasing(queues'[rq]) /\ \A p \in MQ!Points(queues'[rq]) : h < p
        /\ P(rq) = MQ!Points(queues'[rq]) \union {h}
        /\ Increasing(received') /\ MQ!Points(received') = MQ!Points(received) \union {h}
    BY <1>10, QueueShrinks
  <2>2. name \in Q => rq <= name
    OBVIOUS
  <2>3. /\ \A k \in Q : Increasing(queues[k])
        /\ \A k, l \in Q : k < l => \A p \in P(k), r \in P(l) : p < r
        /\ \A k \in Q : k \in {name, rq} => \A p \in MQ!Points(received), r \in P(k) : p < r
        /\ Q \subseteq Int
    OBVIOUS
  <2> HIDE DEF Q, MQInv, MQ!MQueueAssumption, h
  <2>4. \A k \in Q : Increasing(queues'[k])
    BY <2>1, <2>3
  <2>5. \A k \in Q : MQ!Points(queues'[k]) \subseteq P(k)
    BY <2>1
  <2>6. ASSUME NEW k \in Q, k \in {name, rq}, NEW p \in MQ!Points(received'),
               NEW r \in MQ!Points(queues'[k])
        PROVE  p < r
    <3>1. CASE p = h /\ k = rq
      BY <2>1, <3>1
    <3>2. CASE p = h /\ k # rq
      <4>1. rq < k /\ r \in P(k) /\ h \in P(rq)
        BY <2>1, <2>2, <2>3, <2>6, <3>2
      <4> QED
        BY <2>1, <2>3, <3>2, <4>1
    <3>3. CASE p \in MQ!Points(received)
      BY <2>3, <2>5, <2>6, <3>3
    <3> QED
      BY <2>1, <2>6, <3>1, <3>2, <3>3
  <2>7. \A k, l \in Q : k < l =>
          \A p \in MQ!Points(queues'[k]), r \in MQ!Points(queues'[l]) : p < r
    BY <2>3, <2>5
  <2> QED
    BY <2>1, <2>4, <2>6, <2>7 DEF Q
<1>11. CASE MQ!TimesOut
  BY <1>11 DEF MQ!TimesOut
<1>12. CASE MQ!Sigint
  BY <1>12 DEF MQ!Sigint
<1>13. CASE MQ!Show
  BY <1>13 DEF MQ!Show
<1>14. CASE MQ!ReceiverDies
  BY <1>14, ReleaseKeeps
<1>15. CASE UNCHANGED MQ!vars
  BY <1>15 DEF MQ!vars
<1> QED
  BY <1>1, <1>2, <1>3, <1>4, <1>5, <1>6, <1>7, <1>8, <1>9, <1>10, <1>11, <1>12, <1>13,
     <1>14, <1>15
     DEF MQ!Next, MQ!Receiver

\* A point goes from the sender to a queue to the receiver.
LEMMA PlacedStep ==
  ASSUME MQ!MQueueAssumption, MQInv, [MQ!Next]_(MQ!vars)
  PROVE  Placed'
<1> USE DEF MQInv, MQ!TypeOK, MQ!MQueueAssumption, MQ!Queues, MQ!NoQueue, MQ!sender, MQ!receiver,
        MQ!queues, MQ!AfterSend, Opened, Fresh, Ordered,
        Placed, Nowhere
<1>1. CASE MQ!SenderOpens
  BY <1>1 DEF MQ!SenderOpens
<1>2. CASE MQ!GetChar
  BY <1>2 DEF MQ!GetChar
<1>3. CASE MQ!Send
  <2> DEFINE Q == MQ!Queues
             P(k) == MQ!Points(queues[k])
  <2>1. /\ \A k \in Q : \A p \in P(k) : p < qtyped
        /\ \A p \in MQ!Points(received) : p < qtyped
        /\ qtyped \in Int /\ qtyped \notin unsent /\ qtyped \notin dropped /\ Placed
    <3>1. Fresh /\ snd = "send" /\ qtyped \in Int /\ Placed
      BY <1>3 DEF MQ!Send
    <3> HIDE DEF MQ!TypeOK, MQ!MQueueAssumption, MQInv, Opened, Ordered
    <3> QED
      BY <3>1
  <2> HIDE DEF MQ!TypeOK, MQ!Queues, MQ!MQueueAssumption, MQInv, Opened, Fresh, Ordered
  <2>2. qtyped \notin MQ!Points(received) /\ \A k \in Q : qtyped \notin P(k)
    BY <2>1
  <2>3. /\ sq \in Q /\ \A k \in Q : k # sq => queues'[k] = queues[k]
        /\ MQ!Points(queues'[sq]) = P(sq) \union {qtyped}
        /\ snd = "send" /\ snd' # "send" /\ UNCHANGED <<received, unsent, dropped, qtyped>>
    BY <1>3, QueueGrows
  <2>4. \A p : (\E k \in Q : p \in MQ!Points(queues'[k])) <=> (p = qtyped \/ \E k \in Q : p \in P(k))
    BY <2>3
  <2>5. \A k \in Q : MQ!Points(received') \cap MQ!Points(queues'[k]) = {}
    BY <2>1, <2>2, <2>3
  <2> QED
    BY <2>1, <2>2, <2>3, <2>4, <2>5
<1>4. CASE MQ!SendFails
  BY <1>4 DEF MQ!SendFails
<1>5. CASE MQ!Unlink
  BY <1>5, ReleaseKeeps
<1>6. CASE MQ!SenderDies
  BY <1>6 DEF MQ!SenderDies
<1>7. CASE MQ!ReceiverOpens
  BY <1>7 DEF MQ!ReceiverOpens
<1>8. CASE MQ!Handles
  BY <1>8 DEF MQ!Handles
<1>9. CASE MQ!Test
  BY <1>9, ReleaseKeeps
<1>10. CASE MQ!Receive
  <2> DEFINE Q == MQ!Queues
             P(k) == MQ!Points(queues[k])
             h == Head(queues[rq])
  <2>1. /\ \A k, l \in Q : k < l => \A p \in P(k), r \in P(l) : p < r
        /\ Q \subseteq Int /\ Placed /\ 1..MaxPoints \subseteq Int
    OBVIOUS
  <2> HIDE DEF MQ!TypeOK, MQ!Queues, MQ!MQueueAssumption, MQInv, Opened, Fresh, Ordered
  <2>2. /\ rq \in Q /\ \A k \in Q : k # rq => queues'[k] = queues[k]
        /\ P(rq) = MQ!Points(queues'[rq]) \union {h}
        /\ MQ!Points(received') = MQ!Points(received) \union {h}
        /\ UNCHANGED <<snd, unsent, dropped, qtyped>>
        /\ h \in Int /\ \A p \in MQ!Points(queues'[rq]) : h < p
    BY <1>10, <2>1, QueueShrinks
  <2> HIDE DEF Q, h
  <2>3. ASSUME NEW k \in Q PROVE h \notin MQ!Points(queues'[k])
    <3>1. CASE k = rq
      BY <2>2, <3>1
    <3>2. CASE k # rq
      <4>1. k < rq \/ rq < k
        <5>1. k \in Int /\ rq \in Int
          BY <2>1, <2>2 DEF Q
        <5> QED
          BY <3>2, <5>1
      <4>2. h \notin P(k)
        BY <2>1, <2>2, <4>1
      <4> QED
        BY <2>2, <3>2, <4>2
    <3> QED
      BY <3>1, <3>2
  <2>4. \A k \in Q : MQ!Points(queues'[k]) \subseteq P(k)
    BY <2>2
  <2>5. \A k \in Q : MQ!Points(received') \cap MQ!Points(queues'[k]) = {}
    BY <2>1, <2>2, <2>3, <2>4 DEF Q
  <2>6. \A p : p \in MQ!Points(received') \/ (\E k \in Q : p \in MQ!Points(queues'[k]))
           <=> p \in MQ!Points(received) \/ (\E k \in Q : p \in P(k))
    BY <2>2, <2>4
  <2> QED
    BY <2>1, <2>2, <2>5, <2>6 DEF Q
<1>11. CASE MQ!TimesOut
  BY <1>11 DEF MQ!TimesOut
<1>12. CASE MQ!Sigint
  BY <1>12 DEF MQ!Sigint
<1>13. CASE MQ!Show
  BY <1>13 DEF MQ!Show
<1>14. CASE MQ!ReceiverDies
  BY <1>14, ReleaseKeeps
<1>15. CASE UNCHANGED MQ!vars
  BY <1>15 DEF MQ!vars
<1> QED
  BY <1>1, <1>2, <1>3, <1>4, <1>5, <1>6, <1>7, <1>8, <1>9, <1>10, <1>11, <1>12, <1>13,
     <1>14, <1>15
     DEF MQ!Next, MQ!Receiver

\* The cardinality MQueue counts with.
LEMMA CardinalityMQ == \A S : MQ!Cardinality(S) = Cardinality(S)
  BY DEF MQ!Cardinality, Cardinality

\* A receiver takes one point into its hands at a time.
LEMMA CountedStep ==
  ASSUME MQ!MQueueAssumption, MQInv, [MQ!Next]_(MQ!vars)
  PROVE  Counted'
<1> DEFINE card == Cardinality(unprinted)
<1>1. /\ rcv = "print" => received # <<>>
      /\ IsFiniteSet(unprinted) /\ unprinted \subseteq MQ!Points(received)
      /\ card + (IF rcv = "idle" THEN 0 ELSE 1) <= runs.r /\ card \in Nat
      /\ runs \in [s : 0..MaxRuns, r : 0..MaxRuns] /\ runs.r \in Int
      /\ received \in Seq(1..MaxPoints)
  BY CardinalityMQ, FS_CardinalityType DEF MQInv, Counted, MQ!OneLostPerKill, Opened, MQ!TypeOK
<1>2. Counted' <=> /\ (rcv' = "print" => received' # <<>>)
                   /\ IsFiniteSet(unprinted') /\ unprinted' \subseteq MQ!Points(received')
                   /\ Cardinality(unprinted') + (IF rcv' = "idle" THEN 0 ELSE 1) <= runs'.r
  BY CardinalityMQ DEF Counted, MQ!OneLostPerKill
<1> HIDE DEF MQInv
<1>3. CASE /\ UNCHANGED <<rcv, received, unprinted>> /\ runs'.r = runs.r
  BY <1>1, <1>2, <1>3
<1>4. CASE MQ!SenderOpens
  <2>1. runs' = [runs EXCEPT !.s = @ + 1] /\ UNCHANGED <<rcv, received, unprinted>>
    BY <1>4 DEF MQ!SenderOpens, MQ!receiver
  <2> QED
    BY <1>1, <1>3, <2>1
<1>5. CASE MQ!GetChar \/ MQ!Send \/ MQ!SendFails \/ MQ!Unlink \/ MQ!SenderDies \/ MQ!Sigint
           \/ UNCHANGED MQ!vars
  <2>1. UNCHANGED <<rcv, received, unprinted, runs>>
    BY <1>5 DEF MQ!GetChar, MQ!Send, MQ!SendFails, MQ!Unlink, MQ!SenderDies, MQ!Sigint, MQ!receiver, MQ!vars
  <2> QED
    BY <1>3, <2>1
<1>6. CASE MQ!ReceiverOpens
  <2>1. /\ rcv = "idle" /\ rcv' # "print" /\ runs' = [runs EXCEPT !.r = @ + 1]
        /\ UNCHANGED <<received, unprinted>>
    BY <1>6 DEF MQ!ReceiverOpens
  <2>2. runs'.r = runs.r + 1
    BY <1>1, <2>1
  <2> QED
    BY <1>1, <1>2, <2>1, <2>2
<1>7. CASE MQ!Handles \/ MQ!Test \/ MQ!Show \/ MQ!TimesOut
  <2>1. rcv # "idle" /\ rcv' # "print" /\ UNCHANGED <<received, unprinted, runs>>
    BY <1>7 DEF MQ!Handles, MQ!Test, MQ!Show, MQ!TimesOut
  <2> QED
    BY <1>1, <1>2, <2>1
<1>8. CASE MQ!Receive
  <2>1. rcv = "receive" /\ rcv' = "print" /\ UNCHANGED <<unprinted, runs>>
    BY <1>8 DEF MQ!Receive
  <2>2. MQ!Points(received') = MQ!Points(received) \union {Head(queues[rq])}
    BY <1>8, QueueShrinks
  <2>3. MQ!Points(<<>>) = {}
    BY DEF MQ!Points
  <2>4. received' # <<>>
    BY <2>2, <2>3
  <2> QED
    BY <1>1, <1>2, <2>1, <2>2, <2>4
<1>9. CASE MQ!ReceiverDies
  <2>1. /\ rcv # "idle" /\ rcv' = "idle" /\ UNCHANGED <<received, runs>>
        /\ unprinted' = IF rcv = "print" THEN unprinted \union {received[Len(received)]} ELSE unprinted
    BY <1>9 DEF MQ!ReceiverDies
  <2>2. unprinted' \subseteq MQ!Points(received)
    BY <1>9, LastReceived
  <2>3. PICK S, e : S = unprinted /\ e = received[Len(received)]
    OBVIOUS
  <2>4. IsFiniteSet(S \union {e}) /\ Cardinality(S \union {e}) <= Cardinality(S) + 1
    <3>1. IsFiniteSet(S) /\ Cardinality(S) \in Nat
      BY <1>1, <2>3
    <3>2. IsFiniteSet(S \union {e}) /\ (Cardinality(S \union {e}) = Cardinality(S)
                                         \/ Cardinality(S \union {e}) = Cardinality(S) + 1)
      BY <3>1, FS_AddElement
    <3> HIDE DEF card
    <3> QED
      BY <3>1, <3>2
  <2>5. unprinted' = S \/ unprinted' = S \union {e}
    BY <2>1, <2>3
  <2>6. IsFiniteSet(unprinted') /\ Cardinality(unprinted') <= card + 1 /\ Cardinality(unprinted') \in Nat
    <3>1. CASE unprinted' = S
      <4>1. Cardinality(S) = card /\ card \in Nat
        BY <1>1, <2>3
      <4> HIDE DEF card
      <4> QED
        BY <1>1, <2>3, <3>1, <4>1
    <3>2. CASE unprinted' = S \union {e}
      <4>1. Cardinality(S) = card /\ Cardinality(S \union {e}) \in Nat
        BY <2>3, <2>4, FS_CardinalityType
      <4> HIDE DEF card
      <4> QED
        BY <2>4, <3>2, <4>1
    <3> QED
      BY <2>5, <3>1, <3>2
  <2> HIDE DEF card
  <2> QED
    BY <1>1, <1>2, <2>1, <2>2, <2>6
<1> QED
  BY <1>4, <1>5, <1>6, <1>7, <1>8, <1>9 DEF MQ!Next, MQ!Receiver

\* misc/mqueue starts without a queue.
LEMMA MQInitially == ASSUME MQ!MQueueAssumption, MQ!Init PROVE MQInv
<1> USE DEF MQ!Init, MQ!MQueueAssumption, MQ!NoQueue
<1> DEFINE Numbers == 1..MaxPoints
<1>1. <<>> \in Seq(Numbers) /\ Len(<<>>) = 0 /\ MQ!Points(<<>>) = {} /\ Increasing(<<>>)
  BY DEF MQ!Points, Increasing
<1> HIDE DEF Numbers
<1>2. /\ queues \in [MQ!Queues -> Seq(Numbers)] /\ \A k \in MQ!Queues : queues[k] = <<>>
      /\ received = <<>>
  BY <1>1
<1>3. \A k \in MQ!Queues : queues[k] \in Seq(Numbers) /\ Len(queues[k]) <= QUEUE_SIZE
  BY <1>1, <1>2
<1>4. MQ!TypeOK
  BY <1>1, <1>2, <1>3 DEF MQ!TypeOK, Numbers
<1>5. runs \in [s : 0..MaxRuns, r : 0..MaxRuns] /\ runs.s = 0
  OBVIOUS
<1>6. Opened
  BY <1>2, <1>5 DEF Opened, Numbers
<1>7. Fresh /\ Ordered /\ Placed
  BY <1>1, <1>2 DEF Fresh, Ordered, Placed
<1>8. Counted
  <2>1. MQ!Cardinality(unprinted) = 0 /\ IsFiniteSet(unprinted)
    BY FS_EmptySet, CardinalityMQ
  <2> QED
    BY <1>5, <2>1 DEF Counted, MQ!OneLostPerKill
<1> QED
  BY <1>4, <1>6, <1>7, <1>8 DEF MQInv

\* Every step of misc/mqueue preserves its invariant.
LEMMA MQStep ==
  ASSUME MQ!MQueueAssumption, MQInv, [MQ!Next]_(MQ!vars)
  PROVE  MQInv'
  BY MQTypeStep, OpenedStep, FreshStep, OrderedStep, PlacedStep, CountedStep
     DEF MQInv

\* Two increasing sequences, the second of larger elements, one behind the other.
LEMMA IncreasingBoth ==
  ASSUME NEW S, S \subseteq Int, NEW q \in Seq(S), NEW r \in Seq(S),
         Increasing(q), Increasing(r),
         \A a \in MQ!Points(q), b \in MQ!Points(r) : a < b
  PROVE  \A x, y \in DOMAIN (q \o r) : x < y => (q \o r)[x] < (q \o r)[y]
<1> DEFINE all == q \o r
<1>1. /\ DOMAIN all = 1..Len(q) + Len(r) /\ Len(q) \in Nat /\ Len(r) \in Nat
      /\ \A k \in 1..Len(q) + Len(r) : all[k] = IF k <= Len(q) THEN q[k] ELSE r[k - Len(q)]
  OBVIOUS
<1>2. \A k \in 1..Len(q) : q[k] \in MQ!Points(q)
  BY DEF MQ!Points
<1>3. \A k \in 1..Len(r) : r[k] \in MQ!Points(r)
  BY DEF MQ!Points
<1> HIDE DEF all
<1> SUFFICES ASSUME NEW x \in DOMAIN all, NEW y \in DOMAIN all, x < y PROVE all[x] < all[y]
  BY DEF all
<1>4. CASE y <= Len(q)
  BY <1>1, <1>4 DEF Increasing
<1>5. CASE x > Len(q)
  <2>1. x - Len(q) \in 1..Len(r) /\ y - Len(q) \in 1..Len(r) /\ x - Len(q) < y - Len(q)
    BY <1>1, <1>5
  <2>2. r[x - Len(q)] < r[y - Len(q)]
    BY <2>1 DEF Increasing
  <2>3. all[x] = r[x - Len(q)] /\ all[y] = r[y - Len(q)]
    BY <1>1, <1>5
  <2> QED
    BY <2>2, <2>3
<1>6. CASE x <= Len(q) /\ y > Len(q)
  <2>1. x \in 1..Len(q) /\ y - Len(q) \in 1..Len(r)
    BY <1>1, <1>6
  <2>2. all[x] = q[x] /\ all[y] = r[y - Len(q)]
    BY <1>1, <1>6
  <2> QED
    BY <1>2, <1>3, <2>1, <2>2
<1> QED
  BY <1>1, <1>4, <1>5, <1>6

\* What the invariant says of the points.
LEMMA MQPromises == ASSUME MQ!MQueueAssumption, MQInv
  PROVE  MQ!InOrder /\ MQ!EachPointOnce /\ MQ!OneLostPerKill
<1> DEFINE Numbers == 1..MaxPoints
<1>1. /\ received \in Seq(Numbers) /\ \A k \in MQ!Queues : queues[k] \in Seq(Numbers)
      /\ Numbers \subseteq Int /\ name \in MQ!Queues \union {0} /\ rq \in MQ!Queues \union {0}
      /\ MQ!Queues \subseteq Int /\ 0 \notin MQ!Queues
  BY DEF MQInv, MQ!TypeOK, MQ!NoQueue, MQ!Queues, MQ!MQueueAssumption
<1> HIDE DEF Numbers
<1>2. MQ!InOrder
  <2> SUFFICES ASSUME NEW k \in {name, rq}
               PROVE  LET all == received \o IF k = MQ!NoQueue THEN <<>> ELSE queues[k]
                      IN \A x, y \in DOMAIN all : x < y => all[x] < all[y]
    BY DEF MQ!InOrder
  <2>1. <<>> \in Seq(Numbers) /\ Increasing(<<>>) /\ MQ!Points(<<>>) = {}
    BY DEF Increasing, MQ!Points
  <2> DEFINE r == IF k = MQ!NoQueue THEN <<>> ELSE queues[k]
  <2>2. r \in Seq(Numbers) /\ Increasing(r) /\ \A a \in MQ!Points(received), b \in MQ!Points(r) : a < b
    BY <1>1, <2>1 DEF MQ!NoQueue, MQInv, Ordered
  <2>3. Increasing(received)
    BY DEF MQInv, Ordered
  <2> HIDE DEF r
  <2>4. \A x, y \in DOMAIN (received \o r) : x < y => (received \o r)[x] < (received \o r)[y]
    BY <1>1, <2>2, <2>3, IncreasingBoth
  <2> QED
    BY <2>4 DEF r
<1>3. MQ!EachPointOnce
  <2> SUFFICES ASSUME NEW p \in 1..qtyped
               PROVE  LET places == {received} \union {queues[k] : k \in MQ!Queues}
                          found == {q \in places : p \in MQ!Points(q)}
                      IN IF p \in unsent \union dropped \/ (snd = "send" /\ p = qtyped) THEN found = {}
                         ELSE \E q \in found : found = {q}
    BY DEF MQ!EachPointOnce, MQInv, Placed, Opened
  <2> DEFINE places == {received} \union {queues[k] : k \in MQ!Queues}
             found == {q \in places : p \in MQ!Points(q)}
  <2>1. Nowhere(p) <=> p \notin MQ!Points(received) /\ \A k \in MQ!Queues : p \notin MQ!Points(queues[k])
    BY DEF MQInv, Placed
  <2>2. \A q : q \in found <=> p \in MQ!Points(q) /\ (q = received \/ \E k \in MQ!Queues : q = queues[k])
    OBVIOUS
  <2> HIDE DEF found
  <2>3. CASE Nowhere(p)
    <3>1. found = {}
      BY <2>1, <2>2, <2>3
    <3> QED
      BY <2>3, <3>1 DEF Nowhere, found
  <2>4. CASE ~Nowhere(p) /\ p \in MQ!Points(received)
    <3>1. \A k \in MQ!Queues : p \notin MQ!Points(queues[k])
      BY <2>4 DEF MQInv, Placed
    <3>2. received \in found /\ found = {received}
      BY <2>2, <2>4, <3>1
    <3> QED
      BY <2>4, <3>2 DEF Nowhere, found
  <2>5. CASE ~Nowhere(p) /\ p \notin MQ!Points(received)
    <3>1. PICK k \in MQ!Queues : p \in MQ!Points(queues[k])
      BY <2>1, <2>5
    <3>2. ASSUME NEW l \in MQ!Queues, p \in MQ!Points(queues[l]) PROVE l = k
      <4>1. k < l \/ l < k => p < p
        BY <3>1, <3>2 DEF MQInv, Ordered
      <4>2. ~(p < p)
        BY DEF MQInv, MQ!TypeOK
      <4> QED
        BY <1>1, <4>1, <4>2
    <3>3. queues[k] \in found /\ found = {queues[k]}
      BY <2>2, <2>5, <3>1, <3>2
    <3> QED
      BY <2>5, <3>3 DEF Nowhere, found
  <2> QED
    BY <2>3, <2>4, <2>5
<1> QED
  BY <1>2, <1>3 DEF MQInv, Counted

-----------------------------------------------------------------------------
(* chat/llist.c *)

\* What the caller believes to be in the list.
Members == {model[k] : k \in 1..Len(model)}

\* Used at the front, or at the back, the list is the caller's model of it, whose
\* nodes are not freed; all others are.
StackKept ==
  List!Front \/ List!Back =>
    /\ \A k \in 1..Len(model) : model[k] <= made
    /\ \A k, l \in 1..Len(model) : k < l => model[k] # model[l]
    /\ ~destroyed => freed = (1..made) \ Members
    /\ destroyed /\ List!Front => freed = 1..made

\* A link leads to an older node; only llist_addf makes next links.
Older(link, m) == \A k \in List!Nodes : link[k] < k /\ (link[k] # 0 => k <= m)

LinksBack ==
  /\ Older(lnext, made) /\ Older(lprev, made) /\ lhead <= made /\ ltail <= made
  /\ "addf" \notin calls => \A x \in List!Nodes : lnext[x] = 0

\* An end e of the list and the links from it on, with F the nodes freed: neither
\* the end nor a node that is left leads to a freed one, and no two nodes that
\* are left, or the end and such a node, lead to the same.
EndSound(e, link, F) ==
  /\ e \notin F
  /\ \A k \in List!Nodes \ F : link[k] \notin F
  /\ e # 0 => \A k \in List!Nodes : link[k] = e => k \in F
  /\ \A j, k \in List!Nodes \ F : link[j] = link[k] /\ link[j] # 0 => j = k

\* An end is sound as long as nothing is removed at the other.
EndsSound ==
  ~destroyed => /\ "reml" \notin calls => EndSound(lhead, lnext, freed)
                /\ "remf" \notin calls => EndSound(ltail, lprev, freed)

\* A node is made, and in the list, until it is freed.
SizeCounts ==
  /\ model \in Seq(List!Nodes)
  /\ ~destroyed => freed \subseteq 1..made /\ Cardinality(freed) + lsize = made

\* The inductive invariant of chat/llist.c.
ListInv ==
  /\ List!TypeOK /\ List!OneEndIsStack /\ StackKept /\ LinksBack /\ EndsSound /\ SizeCounts
  /\ List!NoUseAfterFree

\* A sequence with one more element in front.
LEMMA Pushed ==
  ASSUME NEW S, NEW q \in Seq(S), NEW e \in S
  PROVE  /\ <<e>> \o q \in Seq(S) /\ Len(<<e>> \o q) = Len(q) + 1 /\ Len(q) \in Nat
         /\ (<<e>> \o q)[1] = e
         /\ \A k \in 2..Len(q) + 1 : (<<e>> \o q)[k] = q[k - 1]
         /\ \A k \in 1..Len(q) : (<<e>> \o q)[k + 1] = q[k]
<1>1. <<e>> \in Seq(S) /\ Len(<<e>>) = 1 /\ <<e>>[1] = e
  OBVIOUS
<1>2. Len(q) \in Nat
  OBVIOUS
<1> DEFINE r == <<e>> \o q
<1>3. /\ r \in Seq(S) /\ Len(r) = Len(q) + 1 /\ r[1] = e
      /\ \A k \in 2..Len(q) + 1 : r[k] = q[k - 1]
  BY <1>1, <1>2, ConcatProperties
<1> HIDE DEF r
<1>4. ASSUME NEW k \in 1..Len(q) PROVE r[k + 1] = q[k]
  <2>1. k + 1 \in 2..Len(q) + 1 /\ (k + 1) - 1 = k
    BY <1>2
  <2>2. r[k + 1] = q[(k + 1) - 1]
    BY <1>3, <2>1
  <2> QED
    BY <2>1, <2>2
<1> QED
  BY <1>2, <1>3, <1>4 DEF r

\* A sequence without its last element.
LEMMA Dropped ==
  ASSUME NEW S, NEW q \in Seq(S), Len(q) > 0
  PROVE  /\ SubSeq(q, 1, Len(q) - 1) \in Seq(S) /\ Len(SubSeq(q, 1, Len(q) - 1)) = Len(q) - 1
         /\ Len(q) \in Nat
         /\ \A k \in 1..Len(q) - 1 : SubSeq(q, 1, Len(q) - 1)[k] = q[k]
<1> DEFINE n == Len(q) - 1
<1>1. Len(q) \in Nat /\ n \in Int /\ n >= 0 /\ \A k \in 1..n : q[k] \in S
  OBVIOUS
<1> HIDE DEF n
<1>2. /\ SubSeq(q, 1, n) \in Seq(S) /\ Len(SubSeq(q, 1, n)) = IF 1 <= n THEN n - 1 + 1 ELSE 0
      /\ \A k \in 1..n - 1 + 1 : SubSeq(q, 1, n)[k] = q[1 + k - 1]
  BY <1>1, SubSeqProperties
<1>3. Len(SubSeq(q, 1, n)) = n /\ \A k \in 1..n : SubSeq(q, 1, n)[k] = q[k]
  BY <1>1, <1>2
<1> QED
  BY <1>1, <1>2, <1>3 DEF n

\* A sequence without its first element.
LEMMA Popped ==
  ASSUME NEW S, NEW q \in Seq(S), Len(q) > 0
  PROVE  /\ Tail(q) \in Seq(S) /\ Len(Tail(q)) = Len(q) - 1 /\ Len(q) \in Nat
         /\ \A k \in 1..Len(q) - 1 : Tail(q)[k] = q[k + 1]
  OBVIOUS

\* A new node at an end that is sound.
LEMMA EndPushed ==
  ASSUME NEW m \in Nat, m + 1 \in List!Nodes, List!Nodes \subseteq Int,
         NEW link \in [List!Nodes -> {0} \union List!Nodes], Older(link, m),
         NEW F, F \subseteq 1..m, NEW e \in {0} \union List!Nodes, e <= m, EndSound(e, link, F)
  PROVE  /\ EndSound(m + 1, [link EXCEPT ![m + 1] = e], F)
         /\ Older([link EXCEPT ![m + 1] = e], m + 1)
<1> DEFINE n == m + 1
           new == [link EXCEPT ![n] = e]
<1>1. /\ new[n] = e /\ \A k \in List!Nodes : k # n => new[k] = link[k]
      /\ n \notin F /\ n \in Int /\ n # 0 /\ e \in Int /\ e < n
      /\ \A k \in List!Nodes : link[k] < k /\ (link[k] # 0 => k <= m) /\ link[k] \in Int
  <2>1. new[n] = e /\ \A k \in List!Nodes : k # n => new[k] = link[k]
    OBVIOUS
  <2>2. /\ n \notin F /\ n \in Int /\ n # 0 /\ e \in Int /\ e < n
    OBVIOUS
  <2>3. {0} \union List!Nodes \subseteq Int
    OBVIOUS
  <2>4. \A k \in List!Nodes : link[k] \in Int
    <3> SUFFICES ASSUME NEW k \in List!Nodes PROVE link[k] \in Int
      OBVIOUS
    <3>1. link[k] \in {0} \union List!Nodes
      OBVIOUS
    <3> QED
      BY <2>3, <3>1
  <2>5. \A k \in List!Nodes : link[k] < k /\ (link[k] # 0 => k <= m)
    BY DEF Older
  <2> QED
    BY <2>1, <2>2, <2>4, <2>5
<1>2. /\ e \notin F /\ \A k \in List!Nodes \ F : link[k] \notin F
      /\ e # 0 => \A k \in List!Nodes : link[k] = e => k \in F
      /\ \A j, k \in List!Nodes \ F : link[j] = link[k] /\ link[j] # 0 => j = k
  BY DEF EndSound
<1> HIDE DEF new, n
<1>3. \A k \in List!Nodes : new[k] # n
  <2> SUFFICES ASSUME NEW k \in List!Nodes, new[k] = n PROVE FALSE
    OBVIOUS
  <2>1. k # n
    BY <1>1
  <2> QED
    BY <1>1, <2>1 DEF n
<1>4. \A j, k \in List!Nodes \ F : new[j] = new[k] /\ new[j] # 0 => j = k
  BY <1>1, <1>2
<1>5. \A k \in List!Nodes \ F : new[k] \notin F
  BY <1>1, <1>2
<1>6. \A k \in List!Nodes : new[k] < k /\ (new[k] # 0 => k <= n)
  BY <1>1 DEF n
<1> QED
  BY <1>1, <1>3, <1>4, <1>5, <1>6 DEF EndSound, Older, new, n

\* A new node at the other end, which may be the first.
LEMMA EndApart ==
  ASSUME NEW m \in Nat, m + 1 \in List!Nodes, List!Nodes \subseteq Int,
         NEW link \in [List!Nodes -> {0} \union List!Nodes], Older(link, m),
         NEW F, F \subseteq 1..m, NEW e \in {0} \union List!Nodes, e <= m, EndSound(e, link, F)
  PROVE  /\ EndSound(e, [link EXCEPT ![m + 1] = 0], F)
         /\ EndSound(m + 1, [link EXCEPT ![m + 1] = 0], F)
         /\ Older([link EXCEPT ![m + 1] = 0], m + 1)
<1> DEFINE n == m + 1
           new == [link EXCEPT ![n] = 0]
<1>1. /\ new[n] = 0 /\ \A k \in List!Nodes : k # n => new[k] = link[k]
      /\ n \notin F /\ n \in Int /\ n # 0 /\ 0 \notin F /\ n > 0
      /\ \A k \in List!Nodes : link[k] < k /\ (link[k] # 0 => k <= m) /\ link[k] \in Int
  <2>1. new[n] = 0 /\ \A k \in List!Nodes : k # n => new[k] = link[k]
    OBVIOUS
  <2>2. /\ n \notin F /\ n \in Int /\ n # 0 /\ 0 \notin F /\ n > 0
    OBVIOUS
  <2>3. {0} \union List!Nodes \subseteq Int
    OBVIOUS
  <2>4. \A k \in List!Nodes : link[k] \in Int
    <3> SUFFICES ASSUME NEW k \in List!Nodes PROVE link[k] \in Int
      OBVIOUS
    <3>1. link[k] \in {0} \union List!Nodes
      OBVIOUS
    <3> QED
      BY <2>3, <3>1
  <2>5. \A k \in List!Nodes : link[k] < k /\ (link[k] # 0 => k <= m)
    BY DEF Older
  <2> QED
    BY <2>1, <2>2, <2>4, <2>5
<1>2. /\ e \notin F /\ \A k \in List!Nodes \ F : link[k] \notin F
      /\ e # 0 => \A k \in List!Nodes : link[k] = e => k \in F
      /\ \A j, k \in List!Nodes \ F : link[j] = link[k] /\ link[j] # 0 => j = k
  BY DEF EndSound
<1> HIDE DEF new, n
<1>3. \A k \in List!Nodes : new[k] # n
  <2> SUFFICES ASSUME NEW k \in List!Nodes, new[k] = n PROVE FALSE
    OBVIOUS
  <2>1. k # n
    BY <1>1
  <2> QED
    BY <1>1, <2>1 DEF n
<1>4. \A j, k \in List!Nodes \ F : new[j] = new[k] /\ new[j] # 0 => j = k
  BY <1>1, <1>2
<1>5. \A k \in List!Nodes \ F : new[k] \notin F
  BY <1>1, <1>2
<1>6. \A k \in List!Nodes : new[k] < k /\ (new[k] # 0 => k <= n)
  BY <1>1 DEF n
<1>7. e # 0 => \A k \in List!Nodes : new[k] = e => k \in F
  BY <1>1, <1>2
<1> QED
  BY <1>1, <1>2, <1>3, <1>4, <1>5, <1>6, <1>7 DEF EndSound, Older, new, n

\* Links grow backwards whatever the ends are.
LEMMA OlderLinks ==
  ASSUME NEW m \in Nat, m + 1 \in List!Nodes, List!Nodes \subseteq Int,
         NEW link \in [List!Nodes -> {0} \union List!Nodes], Older(link, m),
         NEW e \in {0} \union List!Nodes, e <= m
  PROVE  Older([link EXCEPT ![m + 1] = e], m + 1)
<1> DEFINE n == m + 1
           new == [link EXCEPT ![n] = e]
<1>1. /\ new[n] = e /\ \A k \in List!Nodes : k # n => new[k] = link[k]
      /\ n \in Int /\ e \in Int /\ e < n
      /\ \A k \in List!Nodes : link[k] < k /\ (link[k] # 0 => k <= m) /\ link[k] \in Int
  <2>1. new[n] = e /\ \A k \in List!Nodes : k # n => new[k] = link[k]
    OBVIOUS
  <2>2. /\ n \in Int /\ e \in Int /\ e < n
    OBVIOUS
  <2>3. {0} \union List!Nodes \subseteq Int
    OBVIOUS
  <2>4. \A k \in List!Nodes : link[k] \in Int
    <3> SUFFICES ASSUME NEW k \in List!Nodes PROVE link[k] \in Int
      OBVIOUS
    <3>1. link[k] \in {0} \union List!Nodes
      OBVIOUS
    <3> QED
      BY <2>3, <3>1
  <2>5. \A k \in List!Nodes : link[k] < k /\ (link[k] # 0 => k <= m)
    BY DEF Older
  <2> QED
    BY <2>1, <2>2, <2>4, <2>5
<1> HIDE DEF new, n
<1>2. \A k \in List!Nodes : new[k] < k /\ (new[k] # 0 => k <= n)
  BY <1>1 DEF n
<1> QED
  BY <1>2 DEF Older, new, n

\* The node at a sound end is removed.
LEMMA EndPopped ==
  ASSUME NEW m \in Nat, List!Nodes \subseteq Int, 0 \notin List!Nodes,
         NEW link \in [List!Nodes -> {0} \union List!Nodes], Older(link, m),
         NEW F, F \subseteq List!Nodes, NEW e \in List!Nodes, EndSound(e, link, F)
  PROVE  EndSound(link[e], link, F \union {e})
<1>1. /\ e \notin F /\ e # 0 /\ \A k \in List!Nodes \ F : link[k] \notin F
      /\ \A k \in List!Nodes : link[k] = e => k \in F
      /\ \A j, k \in List!Nodes \ F : link[j] = link[k] /\ link[j] # 0 => j = k
  BY DEF EndSound
<1>2. link[e] # e /\ link[e] \notin F
  <2>1. link[e] < e /\ e \in Int
    BY DEF Older
  <2> QED
    BY <1>1, <2>1
<1>3. link[e] # 0 => \A k \in List!Nodes : link[k] = link[e] => k \in F \union {e}
  BY <1>1
<1>4. \A k \in List!Nodes \ (F \union {e}) : link[k] \notin F \union {e}
  BY <1>1
<1> QED
  BY <1>1, <1>2, <1>3, <1>4 DEF EndSound

\* A set of nodes that is left leads to no freed node.
LEMMA ChainLives ==
  ASSUME NEW F, 0 \notin List!Nodes, lhead \in {0} \union List!Nodes,
         lnext \in [List!Nodes -> {0} \union List!Nodes], EndSound(lhead, lnext, F)
  PROVE  List!Chain(lhead) \cap F = {}
<1> DEFINE S == List!Nodes \ F
<1>1. S \in SUBSET List!Nodes /\ (lhead # 0 => lhead \in S)
      /\ \A z \in S : lnext[z] # 0 => lnext[z] \in S
  BY DEF EndSound
<1> HIDE DEF S
<1>2. List!Chain(lhead) \subseteq S
  BY <1>1 DEF List!Chain, List!NULL
<1> QED
  BY <1>2 DEF S

\* From the head of a list used at the front the next links lead to all its nodes.
LEMMA FrontChain ==
  ASSUME List!LListAssumption, ListInv, List!Front
  PROVE  List!Chain(lhead) = Members
<1> DEFINE L == Len(model)
<1>1. /\ model \in Seq(List!Nodes) /\ L \in Nat /\ 0 \notin List!Nodes
      /\ \A j \in 1..L : model[j] \in List!Nodes
  <2>1. model \in Seq(List!Nodes)
    BY DEF ListInv, SizeCounts
  <2>2. 0 \notin List!Nodes
    BY DEF List!Nodes, List!LListAssumption
  <2> QED
    BY <2>1, <2>2
<1>2. /\ lhead = IF L = 0 THEN 0 ELSE model[1]
      /\ \A j \in 1..L : lnext[model[j]] = IF j = L THEN 0 ELSE model[j + 1]
  <2>1. L = 0 <=> model = <<>>
    BY <1>1
  <2> QED
    BY <2>1 DEF ListInv, List!OneEndIsStack, List!NULL
<1> HIDE DEF L
<1>3. List!Chain(lhead) \subseteq Members
  <2>1. Members \in SUBSET List!Nodes /\ (lhead # 0 => lhead \in Members)
    BY <1>1, <1>2 DEF Members, L
  <2>2. \A z \in Members : lnext[z] # 0 => lnext[z] \in Members
    <3> SUFFICES ASSUME NEW j \in 1..L, lnext[model[j]] # 0 PROVE lnext[model[j]] \in Members
      BY DEF Members, L
    <3>1. j + 1 \in 1..L /\ lnext[model[j]] = model[j + 1]
      BY <1>1, <1>2
    <3> QED
      BY <3>1 DEF Members, L
  <2> HIDE DEF Members
  <2> QED
    BY <2>1, <2>2 DEF List!Chain, List!NULL
<1>4. Members \subseteq List!Chain(lhead)
  <2> SUFFICES ASSUME NEW i0 \in 1..L, NEW S \in SUBSET List!Nodes, lhead # 0 => lhead \in S,
                      \A z \in S : lnext[z] # 0 => lnext[z] \in S
               PROVE  model[i0] \in S
    BY <1>1 DEF List!Chain, List!NULL, Members, L
  <2> DEFINE T == {j \in Nat : j + 1 <= L => model[j + 1] \in S}
  <2>1. 0 \in T
    <3>1. L # 0 => lhead = model[1] /\ model[1] # 0
      BY <1>1, <1>2
    <3> QED
      BY <1>1, <3>1
  <2>2. ASSUME NEW j \in Nat, j \in T PROVE j + 1 \in T
    <3> SUFFICES ASSUME (j + 1) + 1 <= L PROVE model[(j + 1) + 1] \in S
      OBVIOUS
    <3>1. j + 1 \in 1..L /\ (j + 1) + 1 \in 1..L /\ j + 1 # L /\ model[j + 1] \in S
      BY <1>1, <2>2
    <3>2. lnext[model[j + 1]] = model[(j + 1) + 1] /\ model[(j + 1) + 1] # 0
      BY <1>1, <1>2, <3>1
    <3> QED
      BY <3>1, <3>2
  <2>3. \A j \in Nat : j \in T
    <3> HIDE DEF T
    <3> QED
      BY <2>1, <2>2, NatSetInduction
  <2>4. i0 - 1 \in Nat /\ (i0 - 1) + 1 = i0 /\ i0 <= L
    BY <1>1
  <2> QED
    BY <2>3, <2>4
<1> QED
  BY <1>3, <1>4

\* What the invariant says of a list that lives.
LEMMA ListFacts ==
  ASSUME List!LListAssumption, ListInv, ~destroyed
  PROVE  /\ made \in Nat /\ made <= MaxNodes /\ MaxNodes \in Nat /\ List!Nodes = 1..MaxNodes
         /\ lhead \in {0} \union List!Nodes /\ ltail \in {0} \union List!Nodes
         /\ lnext \in [List!Nodes -> {0} \union List!Nodes]
         /\ lprev \in [List!Nodes -> {0} \union List!Nodes]
         /\ freed \subseteq List!Nodes /\ result \in {0} \union List!Nodes
         /\ fault \in BOOLEAN /\ calls \subseteq {"addf", "addl", "remf", "reml"}
         /\ freed \subseteq 1..made /\ Cardinality(freed) \in Nat /\ IsFiniteSet(freed)
         /\ lsize \in Nat /\ Cardinality(freed) + lsize = made
         /\ model \in Seq(List!Nodes) /\ Len(model) \in Nat /\ lsize = Len(model)
         /\ Older(lnext, made) /\ Older(lprev, made) /\ lhead <= made /\ ltail <= made
<1>1. /\ made \in Nat /\ made <= MaxNodes /\ MaxNodes \in Nat /\ List!Nodes = 1..MaxNodes
      /\ lhead \in {0} \union List!Nodes /\ ltail \in {0} \union List!Nodes
      /\ lnext \in [List!Nodes -> {0} \union List!Nodes]
      /\ lprev \in [List!Nodes -> {0} \union List!Nodes]
      /\ freed \subseteq List!Nodes /\ result \in {0} \union List!Nodes
      /\ fault \in BOOLEAN /\ calls \subseteq {"addf", "addl", "remf", "reml"} /\ lsize \in Nat
  BY DEF ListInv, List!TypeOK, List!LListAssumption, List!Nodes, List!NULL
<1>2. /\ freed \subseteq 1..made /\ Cardinality(freed) + lsize = made
      /\ model \in Seq(List!Nodes) /\ lsize = Len(model)
  BY DEF ListInv, SizeCounts, List!OneEndIsStack
<1>3. IsFiniteSet(freed) /\ Cardinality(freed) \in Nat
  <2>1. IsFiniteSet(1..made)
    BY <1>1, FS_Interval
  <2>2. IsFiniteSet(freed)
    BY <1>2, <2>1, FS_Subset
  <2> QED
    BY <2>2, FS_CardinalityType
<1>4. Older(lnext, made) /\ Older(lprev, made) /\ lhead <= made /\ ltail <= made
  BY DEF ListInv, LinksBack
<1>5. Len(model) \in Nat
  BY <1>1, <1>2
<1> QED
  BY <1>1, <1>2, <1>3, <1>4, <1>5

\* A node that is left is removed from a list that has one: size is not 0.
LEMMA OneLess ==
  ASSUME List!LListAssumption, ListInv, ~destroyed, NEW x \in 1..made, x \notin freed
  PROVE  lsize > 0 /\ Cardinality(freed \union {x}) = Cardinality(freed) + 1
<1>1. /\ made \in Nat /\ freed \subseteq 1..made /\ IsFiniteSet(freed) /\ Cardinality(freed) \in Nat
      /\ Cardinality(freed) + lsize = made /\ lsize \in Nat
  BY ListFacts
<1>2. Cardinality(freed \union {x}) = Cardinality(freed) + 1
  BY <1>1, FS_AddElement
<1>3. IsFiniteSet(1..made) /\ Cardinality(1..made) = made
  BY <1>1, FS_Interval
<1>4. Cardinality(freed \union {x}) <= made
  <2>1. freed \union {x} \subseteq 1..made
    BY <1>1
  <2> QED
    BY <1>3, <2>1, FS_Subset
<1> QED
  BY <1>1, <1>2, <1>4

\* llist_addf on a list used at the front.
LEMMA AddfStack ==
  ASSUME List!LListAssumption, ListInv, List!Addf, List!Front
  PROVE  List!OneEndIsStack' /\ StackKept'
<1> DEFINE n == made + 1
<1>1. /\ ~destroyed /\ made < MaxNodes /\ made' = n /\ calls' = calls \union {"addf"}
      /\ lnext' = [lnext EXCEPT ![n] = lhead] /\ lhead' = n /\ lsize' = lsize + 1
      /\ model' = <<n>> \o model /\ UNCHANGED <<freed, destroyed>>
  BY DEF List!Addf, List!Alive, List!NULL, List!Called
<1>2. /\ made \in Nat /\ n \in List!Nodes /\ MaxNodes \in Nat /\ List!Nodes = 1..MaxNodes
      /\ model \in Seq(List!Nodes) /\ Len(model) \in Nat /\ lsize = Len(model)
      /\ lnext \in [List!Nodes -> {0} \union List!Nodes]
      /\ \A k \in 1..Len(model) : model[k] \in 1..made
      /\ \A k, l \in 1..Len(model) : k < l => model[k] # model[l]
      /\ freed = (1..made) \ Members
  <2>1. /\ made \in Nat /\ n \in List!Nodes /\ MaxNodes \in Nat /\ List!Nodes = 1..MaxNodes
        /\ model \in Seq(List!Nodes) /\ Len(model) \in Nat /\ lsize = Len(model)
        /\ lnext \in [List!Nodes -> {0} \union List!Nodes]
    BY <1>1, ListFacts
  <2>2. /\ \A k \in 1..Len(model) : model[k] <= made
        /\ \A k, l \in 1..Len(model) : k < l => model[k] # model[l]
        /\ freed = (1..made) \ Members
    BY <1>1 DEF ListInv, StackKept
  <2>3. \A k \in 1..Len(model) : model[k] \in 1..made
    BY <2>1, <2>2
  <2> QED
    BY <2>1, <2>2, <2>3
<1>3. /\ model' \in Seq(List!Nodes) /\ Len(model') = Len(model) + 1 /\ model'[1] = n
      /\ \A k \in 2..Len(model) + 1 : model'[k] = model[k - 1]
      /\ \A k \in 1..Len(model) : model'[k + 1] = model[k]
  <2> HIDE DEF n
  <2> QED
    BY <1>1, <1>2, Pushed
<1>4. /\ lhead = IF Len(model) = 0 THEN 0 ELSE model[1]
      /\ \A k \in 1..Len(model) : lnext[model[k]] = IF k = Len(model) THEN 0 ELSE model[k + 1]
  <2>1. model = <<>> <=> Len(model) = 0
    BY <1>2
  <2> QED
    BY <1>1, <2>1 DEF ListInv, List!OneEndIsStack, List!NULL
<1>5. List!Front' /\ ~List!Back'
  BY <1>1 DEF List!Front, List!Back
<1>6. \A k \in 1..Len(model') :
         lnext'[model'[k]] = IF k = Len(model') THEN 0 ELSE model'[k + 1]
  <2> SUFFICES ASSUME NEW k \in 1..Len(model')
               PROVE  lnext'[model'[k]] = IF k = Len(model') THEN 0 ELSE model'[k + 1]
    OBVIOUS
  <2>1. CASE k = 1
    <3>1. lnext'[model'[1]] = lhead
      BY <1>1, <1>2, <1>3
    <3> QED
      BY <1>2, <1>3, <1>4, <2>1, <3>1
  <2>2. CASE k # 1
    <3>1. k - 1 \in 1..Len(model) /\ model'[k] = model[k - 1] /\ model[k - 1] # n
      BY <1>2, <1>3, <2>2
    <3>2. lnext'[model'[k]] = lnext[model[k - 1]]
      BY <1>1, <1>2, <3>1
    <3>3. k # Len(model') => k \in 1..Len(model) /\ model'[k + 1] = model[k]
      BY <1>2, <1>3
    <3> QED
      BY <1>2, <1>3, <1>4, <3>1, <3>2, <3>3, SMTT(30)
  <2> QED
    BY <2>1, <2>2
<1>7. model' # <<>>
  BY <1>2, <1>3
<1>8. List!OneEndIsStack'
  BY <1>1, <1>2, <1>3, <1>5, <1>6, <1>7 DEF List!OneEndIsStack, List!NULL
<1>9. Members' = Members \union {n}
  <2>1. \A k \in 1..Len(model') : model'[k] = n \/ \E j \in 1..Len(model) : model'[k] = model[j]
    <3> SUFFICES ASSUME NEW k \in 1..Len(model'), k # 1
                 PROVE  \E j \in 1..Len(model) : model'[k] = model[j]
      BY <1>3
    <3>1. k - 1 \in 1..Len(model) /\ model'[k] = model[k - 1]
      BY <1>2, <1>3
    <3> QED
      BY <3>1
  <2>2. \A j \in 1..Len(model) : j + 1 \in 1..Len(model') /\ model'[j + 1] = model[j]
    BY <1>2, <1>3
  <2>3. 1 \in 1..Len(model')
    BY <1>2, <1>3
  <2> QED
    BY <1>3, <2>1, <2>2, <2>3 DEF Members
<1>10. freed' = (1..made') \ Members'
  <2>1. 1..n = (1..made) \union {n} /\ n \notin 1..made
    BY <1>2
  <2> QED
    BY <1>1, <1>2, <1>9, <2>1
<1>11. \A k, l \in 1..Len(model') : k < l => model'[k] # model'[l]
  <2> SUFFICES ASSUME NEW k \in 1..Len(model'), NEW l \in 1..Len(model'), k < l
               PROVE  model'[k] # model'[l]
    OBVIOUS
  <2>1. l - 1 \in 1..Len(model) /\ model'[l] = model[l - 1]
    BY <1>2, <1>3
  <2>2. CASE k = 1
    BY <1>2, <1>3, <2>1, <2>2
  <2>3. CASE k # 1
    <3>1. k - 1 \in 1..Len(model) /\ model'[k] = model[k - 1] /\ k - 1 < l - 1
      BY <1>2, <1>3, <2>3
    <3> QED
      BY <1>2, <2>1, <3>1
  <2> QED
    BY <2>2, <2>3
<1>12. \A k \in 1..Len(model') : model'[k] <= made'
  <2> SUFFICES ASSUME NEW k \in 1..Len(model') PROVE model'[k] <= n
    BY <1>1
  <2>1. CASE k = 1
    BY <1>2, <1>3, <2>1
  <2>2. CASE k # 1
    BY <1>2, <1>3, <2>2
  <2> QED
    BY <2>1, <2>2
<1>13. StackKept'
  BY <1>1, <1>10, <1>11, <1>12 DEF StackKept
<1> QED
  BY <1>8, <1>13

\* llist_addf links the new node to the old head.
LEMMA AddfKeeps == ASSUME List!LListAssumption, ListInv, List!Addf PROVE ListInv'
<1> DEFINE n == made + 1
<1>1. /\ ~destroyed /\ ~fault /\ made < MaxNodes /\ made' = n /\ calls' = calls \union {"addf"}
      /\ lnext' = [lnext EXCEPT ![n] = lhead] /\ lprev' = [lprev EXCEPT ![n] = 0]
      /\ lhead' = n /\ lsize' = lsize + 1 /\ ltail' \in {n, ltail} /\ model' = <<n>> \o model
      /\ UNCHANGED <<freed, destroyed, fault, result>>
  BY DEF List!Addf, List!Alive, List!NULL, List!Called
<1>2. /\ made \in Nat /\ n \in List!Nodes /\ MaxNodes \in Nat /\ List!Nodes = 1..MaxNodes
      /\ List!Nodes \subseteq Int /\ lhead \in {0} \union List!Nodes /\ ltail \in {0} \union List!Nodes
      /\ lnext \in [List!Nodes -> {0} \union List!Nodes]
      /\ lprev \in [List!Nodes -> {0} \union List!Nodes]
      /\ freed \subseteq List!Nodes /\ result \in {0} \union List!Nodes
      /\ calls \subseteq {"addf", "addl", "remf", "reml"}
      /\ freed \subseteq 1..made /\ lsize \in Nat /\ lsize <= made
      /\ Cardinality(freed) + lsize = made /\ Cardinality(freed) \in Nat
      /\ model \in Seq(List!Nodes) /\ Len(model) \in Nat /\ lsize = Len(model)
      /\ Older(lnext, made) /\ Older(lprev, made) /\ lhead <= made /\ ltail <= made
      /\ 0 <= made
  BY <1>1, ListFacts
<1>3. model' \in Seq(List!Nodes) /\ Len(model') = Len(model) + 1
  <2> HIDE DEF n
  <2> QED
    BY <1>1, <1>2, Pushed
<1>4. List!TypeOK'
  <2>1. lnext' \in [List!Nodes -> {0} \union List!Nodes] /\ lprev' \in [List!Nodes -> {0} \union List!Nodes]
    BY <1>1, <1>2
  <2>2. lsize' \in 0..MaxNodes /\ made' \in 0..MaxNodes
    BY <1>1, <1>2
  <2>3. destroyed' \in BOOLEAN /\ fault' \in BOOLEAN
    BY <1>1 DEF ListInv, List!TypeOK
  <2>4. calls' \subseteq {"addf", "addl", "remf", "reml"}
    BY <1>1, <1>2
  <2> QED
    BY <1>1, <1>2, <2>1, <2>2, <2>3, <2>4 DEF List!TypeOK, List!NULL
<1>5. List!OneEndIsStack' /\ StackKept'
  <2>1. CASE ~List!Front
    <3>1. ~List!Front' /\ ~List!Back'
      BY <1>1, <2>1 DEF List!Front, List!Back
    <3>2. lsize' = Len(model')
      BY <1>1, <1>2, <1>3
    <3> QED
      BY <3>1, <3>2 DEF List!OneEndIsStack, StackKept
  <2> QED
    BY <2>1, AddfStack
<1>6. LinksBack'
  <2>1. Older(lnext', made')
    BY <1>1, <1>2, OlderLinks
  <2>2. Older(lprev', made')
    BY <1>1, <1>2, OlderLinks
  <2>3. lhead' <= made' /\ ltail' <= made' /\ "addf" \in calls'
    BY <1>1, <1>2
  <2> QED
    BY <2>1, <2>2, <2>3 DEF LinksBack, Older, List!Nodes
<1>7. EndsSound'
  <2>1. "reml" \notin calls' => EndSound(lhead', lnext', freed')
    <3> SUFFICES ASSUME "reml" \notin calls' PROVE EndSound(lhead', lnext', freed')
      OBVIOUS
    <3>1. EndSound(lhead, lnext, freed)
      BY <1>1 DEF ListInv, EndsSound
    <3> QED
      BY <1>1, <1>2, <3>1, EndPushed
  <2>2. "remf" \notin calls' => EndSound(ltail', lprev', freed')
    <3> SUFFICES ASSUME "remf" \notin calls' PROVE EndSound(ltail', lprev', freed')
      OBVIOUS
    <3>1. EndSound(ltail, lprev, freed)
      BY <1>1 DEF ListInv, EndsSound
    <3> QED
      BY <1>1, <1>2, <3>1, EndApart
  <2> QED
    BY <2>1, <2>2 DEF EndsSound, EndSound, List!Nodes
<1>8. SizeCounts'
  <2>1. 1..made \subseteq 1..n
    BY <1>2
  <2>2. freed' \subseteq 1..made'
    BY <1>1, <1>2, <2>1
  <2>3. Cardinality(freed') = Cardinality(freed) /\ lsize' = lsize + 1 /\ made' = made + 1
    BY <1>1
  <2>4. Cardinality(freed') + lsize' = made'
    BY <1>2, <2>3
  <2> QED
    BY <1>3, <2>2, <2>4 DEF SizeCounts, List!Nodes
<1>9. List!NoUseAfterFree'
  BY <1>1 DEF List!NoUseAfterFree
<1> QED
  BY <1>4, <1>5, <1>6, <1>7, <1>8, <1>9 DEF ListInv

\* llist_addl on a list used at the back.
LEMMA AddlStack ==
  ASSUME List!LListAssumption, ListInv, List!Addl, List!Back
  PROVE  List!OneEndIsStack' /\ StackKept'
<1> DEFINE n == made + 1
<1>1. /\ ~destroyed /\ made < MaxNodes /\ made' = n /\ calls' = calls \union {"addl"}
      /\ lprev' = [lprev EXCEPT ![n] = ltail] /\ ltail' = n /\ lsize' = lsize + 1
      /\ lhead' = (IF lsize' = 1 THEN n ELSE lhead)
      /\ model' = Append(model, n) /\ UNCHANGED <<freed, destroyed>>
  BY DEF List!Addl, List!Alive, List!NULL, List!Called
<1>2. /\ made \in Nat /\ n \in List!Nodes /\ MaxNodes \in Nat /\ List!Nodes = 1..MaxNodes
      /\ model \in Seq(List!Nodes) /\ Len(model) \in Nat /\ lsize = Len(model)
      /\ lprev \in [List!Nodes -> {0} \union List!Nodes]
      /\ \A k \in 1..Len(model) : model[k] \in 1..made
      /\ \A k, l \in 1..Len(model) : k < l => model[k] # model[l]
      /\ freed = (1..made) \ Members
  <2>1. /\ made \in Nat /\ n \in List!Nodes /\ MaxNodes \in Nat /\ List!Nodes = 1..MaxNodes
        /\ model \in Seq(List!Nodes) /\ Len(model) \in Nat /\ lsize = Len(model)
        /\ lprev \in [List!Nodes -> {0} \union List!Nodes]
    BY <1>1, ListFacts
  <2>2. /\ \A k \in 1..Len(model) : model[k] <= made
        /\ \A k, l \in 1..Len(model) : k < l => model[k] # model[l]
        /\ freed = (1..made) \ Members
    BY <1>1 DEF ListInv, StackKept
  <2>3. \A k \in 1..Len(model) : model[k] \in 1..made
    BY <2>1, <2>2
  <2> QED
    BY <2>1, <2>2, <2>3
<1>3. /\ ltail = IF Len(model) = 0 THEN 0 ELSE model[Len(model)]
      /\ lhead = IF Len(model) = 0 THEN 0 ELSE model[1]
      /\ \A k \in 1..Len(model) : lprev[model[k]] = IF k = 1 THEN 0 ELSE model[k - 1]
  <2>1. model = <<>> <=> Len(model) = 0
    BY <1>2
  <2> QED
    BY <2>1 DEF ListInv, List!OneEndIsStack, List!NULL
<1>4. /\ model' \in Seq(List!Nodes) /\ Len(model') = Len(model) + 1
      /\ model'[Len(model) + 1] = n /\ \A k \in 1..Len(model) : model'[k] = model[k]
  <2> HIDE DEF n
  <2> QED
    BY <1>1, <1>2, Appended
<1>5. ASSUME NEW k \in 1..Len(model')
      PROVE  lprev'[model'[k]] = IF k = 1 THEN 0 ELSE model'[k - 1]
  <2>1. CASE k = Len(model')
    <3>1. lprev'[model'[k]] = ltail
      BY <1>1, <1>2, <1>4, <2>1
    <3>2. k # 1 => k - 1 \in 1..Len(model) /\ k - 1 = Len(model)
      BY <1>2, <1>4, <2>1
    <3>3. k = 1 => Len(model) = 0
      BY <1>2, <1>4, <2>1
    <3> QED
      BY <1>2, <1>3, <1>4, <3>1, <3>2, <3>3
  <2>2. CASE k # Len(model')
    <3>1. k \in 1..Len(model) /\ model'[k] = model[k] /\ model[k] # n
      BY <1>2, <1>4, <2>2
    <3>2. lprev'[model'[k]] = lprev[model[k]]
      BY <1>1, <1>2, <3>1
    <3>3. k # 1 => model'[k - 1] = model[k - 1]
      BY <1>2, <1>4, <3>1
    <3> QED
      BY <1>3, <3>1, <3>2, <3>3
  <2> QED
    BY <2>1, <2>2
<1>6. model' # <<>>
  BY <1>2, <1>4
<1>7. lhead' = model'[1]
  <2>1. CASE Len(model) = 0
    BY <1>1, <1>2, <1>4, <2>1
  <2>2. CASE Len(model) # 0
    <3>1. 1 \in 1..Len(model) /\ lsize' # 1
      BY <1>1, <1>2, <2>2
    <3> QED
      BY <1>1, <1>3, <1>4, <2>2, <3>1
  <2> QED
    BY <2>1, <2>2
<1>8. ~List!Front'
  BY <1>1 DEF List!Front
<1>9. List!OneEndIsStack'
  BY <1>1, <1>2, <1>4, <1>5, <1>6, <1>7, <1>8 DEF List!OneEndIsStack, List!NULL
<1>10. Members' = Members \union {n}
  <2>1. \A k : k \in 1..Len(model') <=> k \in 1..Len(model) \/ k = Len(model) + 1
    BY <1>2, <1>4
  <2> QED
    BY <1>4, <2>1 DEF Members
<1>11. freed' = (1..made') \ Members'
  <2>1. 1..n = (1..made) \union {n} /\ n \notin 1..made
    BY <1>2
  <2> QED
    BY <1>1, <1>2, <1>10, <2>1
<1>12. \A k, l \in 1..Len(model') : k < l => model'[k] # model'[l]
  <2> SUFFICES ASSUME NEW k \in 1..Len(model'), NEW l \in 1..Len(model'), k < l
               PROVE  model'[k] # model'[l]
    OBVIOUS
  <2>1. k \in 1..Len(model) /\ model'[k] = model[k]
    BY <1>2, <1>4
  <2>2. CASE l = Len(model')
    BY <1>2, <1>4, <2>1, <2>2
  <2>3. CASE l # Len(model')
    <3>1. Len(model) \in Nat /\ Len(model') = Len(model) + 1
      BY <1>2, <1>4
    <3>2. l \in 1..Len(model)
      BY <2>3, <3>1
    <3>3. model'[l] = model[l]
      BY <1>4, <3>2
    <3> QED
      BY <1>2, <2>1, <3>2, <3>3
  <2> QED
    BY <2>2, <2>3
<1>13. \A k \in 1..Len(model') : model'[k] <= made'
  BY <1>1, <1>2, <1>4
<1>14. StackKept'
  BY <1>1, <1>8, <1>11, <1>12, <1>13 DEF StackKept
<1> QED
  BY <1>9, <1>14

\* llist_addl links the new node to the old tail, and to nothing else.
LEMMA AddlKeeps == ASSUME List!LListAssumption, ListInv, List!Addl PROVE ListInv'
<1> DEFINE n == made + 1
<1>1. /\ ~destroyed /\ ~fault /\ made < MaxNodes /\ made' = n /\ calls' = calls \union {"addl"}
      /\ lnext' = [lnext EXCEPT ![n] = 0] /\ lprev' = [lprev EXCEPT ![n] = ltail]
      /\ ltail' = n /\ lsize' = lsize + 1 /\ lhead' \in {n, lhead} /\ model' = Append(model, n)
      /\ UNCHANGED <<freed, destroyed, fault, result>>
  BY DEF List!Addl, List!Alive, List!NULL, List!Called
<1>2. /\ made \in Nat /\ n \in List!Nodes /\ MaxNodes \in Nat /\ List!Nodes = 1..MaxNodes
      /\ List!Nodes \subseteq Int /\ lhead \in {0} \union List!Nodes /\ ltail \in {0} \union List!Nodes
      /\ lnext \in [List!Nodes -> {0} \union List!Nodes]
      /\ lprev \in [List!Nodes -> {0} \union List!Nodes]
      /\ freed \subseteq List!Nodes /\ result \in {0} \union List!Nodes
      /\ calls \subseteq {"addf", "addl", "remf", "reml"}
      /\ freed \subseteq 1..made /\ lsize \in Nat /\ lsize <= made
      /\ Cardinality(freed) + lsize = made /\ Cardinality(freed) \in Nat
      /\ model \in Seq(List!Nodes) /\ Len(model) \in Nat /\ lsize = Len(model)
      /\ Older(lnext, made) /\ Older(lprev, made) /\ lhead <= made /\ ltail <= made
      /\ 0 <= made
  BY <1>1, ListFacts
<1>3. model' \in Seq(List!Nodes) /\ Len(model') = Len(model) + 1
  <2> HIDE DEF n
  <2> QED
    BY <1>1, <1>2, Appended
<1>4. List!TypeOK'
  <2>1. lnext' \in [List!Nodes -> {0} \union List!Nodes] /\ lprev' \in [List!Nodes -> {0} \union List!Nodes]
    BY <1>1, <1>2
  <2>2. lsize' \in 0..MaxNodes /\ made' \in 0..MaxNodes
    BY <1>1, <1>2
  <2>3. destroyed' \in BOOLEAN /\ fault' \in BOOLEAN
    BY <1>1 DEF ListInv, List!TypeOK
  <2>4. calls' \subseteq {"addf", "addl", "remf", "reml"}
    BY <1>1, <1>2
  <2> QED
    BY <1>1, <1>2, <2>1, <2>2, <2>3, <2>4 DEF List!TypeOK, List!NULL
<1>5. List!OneEndIsStack' /\ StackKept'
  <2>1. CASE ~List!Back
    <3>1. ~List!Front' /\ ~List!Back'
      BY <1>1, <2>1 DEF List!Front, List!Back
    <3>2. lsize' = Len(model')
      BY <1>1, <1>2, <1>3
    <3> QED
      BY <3>1, <3>2 DEF List!OneEndIsStack, StackKept
  <2> QED
    BY <2>1, AddlStack
<1>6. LinksBack'
  <2>1. Older(lnext', made')
    BY <1>1, <1>2, OlderLinks
  <2>2. Older(lprev', made')
    BY <1>1, <1>2, OlderLinks
  <2>3. lhead' <= made' /\ ltail' <= made'
    BY <1>1, <1>2
  <2>4. "addf" \notin calls' => \A x \in List!Nodes : lnext'[x] = 0
    BY <1>1, <1>2 DEF ListInv, LinksBack
  <2> QED
    BY <2>1, <2>2, <2>3, <2>4 DEF LinksBack, Older, List!Nodes
<1>7. EndsSound'
  <2>1. "reml" \notin calls' => EndSound(lhead', lnext', freed')
    <3> SUFFICES ASSUME "reml" \notin calls' PROVE EndSound(lhead', lnext', freed')
      OBVIOUS
    <3>1. EndSound(lhead, lnext, freed)
      BY <1>1 DEF ListInv, EndsSound
    <3> QED
      BY <1>1, <1>2, <3>1, EndApart
  <2>2. "remf" \notin calls' => EndSound(ltail', lprev', freed')
    <3> SUFFICES ASSUME "remf" \notin calls' PROVE EndSound(ltail', lprev', freed')
      OBVIOUS
    <3>1. EndSound(ltail, lprev, freed)
      BY <1>1 DEF ListInv, EndsSound
    <3> QED
      BY <1>1, <1>2, <3>1, EndPushed
  <2> QED
    BY <2>1, <2>2 DEF EndsSound, EndSound, List!Nodes
<1>8. SizeCounts'
  <2>1. 1..made \subseteq 1..n
    BY <1>2
  <2>2. freed' \subseteq 1..made'
    BY <1>1, <1>2, <2>1
  <2>3. Cardinality(freed') = Cardinality(freed) /\ lsize' = lsize + 1 /\ made' = made + 1
    BY <1>1
  <2>4. Cardinality(freed') + lsize' = made'
    BY <1>2, <2>3
  <2> QED
    BY <1>3, <2>2, <2>4 DEF SizeCounts, List!Nodes
<1>9. List!NoUseAfterFree'
  BY <1>1 DEF List!NoUseAfterFree
<1> QED
  BY <1>4, <1>5, <1>6, <1>7, <1>8, <1>9 DEF ListInv

\* llist_remf on a list used at the front takes the node the caller expects.
LEMMA RemfStack ==
  ASSUME List!LListAssumption, ListInv, List!Remf, List!Front
  PROVE  List!OneEndIsStack' /\ StackKept'
<1>1. /\ ~destroyed /\ lhead # 0 /\ calls' = calls \union {"remf"}
      /\ lhead' = lnext[lhead] /\ freed' = freed \union {lhead}
      /\ lsize' = lsize - 1 /\ model' = Tail(model)
      /\ UNCHANGED <<lnext, lprev, made, destroyed>>
  BY DEF List!Remf, List!Alive, List!NULL, List!Called
<1>2. /\ model \in Seq(List!Nodes) /\ lsize = Len(model) /\ Len(model) \in Nat
      /\ lhead \in List!Nodes /\ lhead \in Int /\ lhead <= made /\ made \in Nat /\ List!Nodes = 1..MaxNodes
  <2>1. /\ model \in Seq(List!Nodes) /\ lsize = Len(model) /\ Len(model) \in Nat
        /\ lhead \in {0} \union List!Nodes /\ lhead <= made /\ made \in Nat /\ List!Nodes = 1..MaxNodes
    BY <1>1, ListFacts
  <2> QED
    BY <1>1, <2>1
<1>3. /\ \A k \in 1..Len(model) : model[k] <= made
      /\ \A k, l \in 1..Len(model) : k < l => model[k] # model[l]
      /\ freed = (1..made) \ Members
      /\ \A k \in 1..Len(model) : lnext[model[k]] = IF k = Len(model) THEN 0 ELSE model[k + 1]
  BY <1>1 DEF ListInv, StackKept, List!OneEndIsStack, List!NULL
<1>4. Len(model) > 0 /\ lhead = model[1]
  <2>1. model = <<>> <=> Len(model) = 0
    BY <1>2
  <2> QED
    BY <1>1, <1>2, <2>1 DEF ListInv, List!OneEndIsStack, List!NULL
<1>5. /\ model' \in Seq(List!Nodes) /\ Len(model') = Len(model) - 1
      /\ \A k \in 1..Len(model) - 1 : model'[k] = model[k + 1]
  BY <1>1, <1>2, <1>4, Popped
<1>6. lhead' = IF Len(model') = 0 THEN 0 ELSE model'[1]
  <2>1. lhead' = IF Len(model) = 1 THEN 0 ELSE model[2]
    BY <1>1, <1>2, <1>3, <1>4
  <2>2. Len(model) # 1 => model'[1] = model[2]
    BY <1>2, <1>4, <1>5
  <2> QED
    BY <1>2, <1>4, <1>5, <2>1, <2>2
<1>7. ASSUME NEW k \in 1..Len(model')
      PROVE  lnext'[model'[k]] = IF k = Len(model') THEN 0 ELSE model'[k + 1]
  <2>1. k + 1 \in 1..Len(model) /\ model'[k] = model[k + 1] /\ (k = Len(model') <=> k + 1 = Len(model))
    BY <1>2, <1>4, <1>5
  <2>2. k # Len(model') => model'[k + 1] = model[k + 1 + 1]
    BY <1>2, <1>4, <1>5
  <2>3. lnext[model[k + 1]] = IF k + 1 = Len(model) THEN 0 ELSE model[k + 1 + 1]
    BY <1>3, <2>1
  <2> QED
    BY <1>1, <2>1, <2>2, <2>3
<1>8. (model' = <<>> <=> Len(model') = 0) /\ ~List!Back'
  <2>1. model' = <<>> <=> Len(model') = 0
    BY <1>5
  <2>2. ~List!Back'
    BY <1>1 DEF List!Back
  <2> QED
    BY <2>1, <2>2
<1>9. List!OneEndIsStack'
  BY <1>1, <1>2, <1>5, <1>6, <1>7, <1>8 DEF List!OneEndIsStack, List!NULL
<1>10. Members' = Members \ {lhead}
  <2>1. ASSUME NEW k \in 1..Len(model') PROVE model'[k] \in Members \ {lhead}
    <3>1. k + 1 \in 1..Len(model) /\ model'[k] = model[k + 1] /\ 1 \in 1..Len(model) /\ 1 < k + 1
      BY <1>2, <1>4, <1>5
    <3> QED
      BY <1>3, <1>4, <3>1 DEF Members
  <2>2. ASSUME NEW k \in 1..Len(model), model[k] # lhead PROVE model[k] \in Members'
    <3>1. k # 1
      BY <1>4, <2>2
    <3>2. k - 1 \in 1..Len(model') /\ k - 1 \in 1..Len(model) - 1 /\ (k - 1) + 1 = k
      BY <1>2, <1>5, <3>1
    <3>3. model'[k - 1] = model[k]
      BY <1>5, <3>2
    <3> QED
      BY <3>2, <3>3 DEF Members
  <2> QED
    BY <2>1, <2>2 DEF Members
<1>11. freed' = (1..made') \ Members'
  <2>1. lhead \in 1..made
    BY <1>2
  <2> QED
    BY <1>1, <1>3, <1>10, <2>1
<1>12. /\ \A k \in 1..Len(model') : model'[k] <= made'
       /\ \A k, l \in 1..Len(model') : k < l => model'[k] # model'[l]
  <2>1. \A k \in 1..Len(model') : k + 1 \in 1..Len(model) /\ model'[k] = model[k + 1]
    BY <1>2, <1>5
  <2>2. \A k, l \in 1..Len(model') : k < l => k + 1 < l + 1
    BY <1>2, <1>5
  <2> QED
    BY <1>1, <1>3, <2>1, <2>2
<1>13. StackKept'
  BY <1>1, <1>11, <1>12 DEF StackKept
<1> QED
  BY <1>9, <1>13

\* llist_remf takes the first node, which leads to no freed one unless something
\* was removed at the back.
LEMMA RemfKeeps == ASSUME List!LListAssumption, ListInv, List!Remf PROVE ListInv'
<1>1. /\ ~destroyed /\ ~fault /\ lhead # 0 /\ lhead \notin freed /\ calls' = calls \union {"remf"}
      /\ result' = lhead /\ lhead' = lnext[lhead] /\ freed' = freed \union {lhead}
      /\ lsize' = lsize - 1 /\ ltail' \in {0, ltail} /\ model' = Tail(model)
      /\ UNCHANGED <<lnext, lprev, made, destroyed, fault>>
  BY DEF List!Remf, List!Alive, List!NULL, List!Called
<1>2. /\ made \in Nat /\ made <= MaxNodes /\ MaxNodes \in Nat /\ List!Nodes = 1..MaxNodes
      /\ List!Nodes \subseteq Int /\ 0 \notin List!Nodes
      /\ lhead \in List!Nodes /\ ltail \in {0} \union List!Nodes
      /\ lnext \in [List!Nodes -> {0} \union List!Nodes]
      /\ lprev \in [List!Nodes -> {0} \union List!Nodes]
      /\ freed \subseteq List!Nodes /\ calls \subseteq {"addf", "addl", "remf", "reml"}
      /\ freed \subseteq 1..made /\ lsize \in Nat /\ lsize <= made
      /\ Cardinality(freed) + lsize = made /\ Cardinality(freed) \in Nat
      /\ model \in Seq(List!Nodes) /\ Len(model) \in Nat /\ lsize = Len(model)
      /\ Older(lnext, made) /\ Older(lprev, made) /\ lhead <= made /\ ltail <= made
      /\ lhead \in 1..made
  BY <1>1, ListFacts
<1>3. lsize > 0 /\ Cardinality(freed') = Cardinality(freed) + 1
  BY <1>1, <1>2, OneLess
<1>4. model' \in Seq(List!Nodes) /\ Len(model') = Len(model) - 1
  BY <1>1, <1>2, <1>3, Popped
<1>5. lhead' \in {0} \union List!Nodes /\ lhead' <= made
  <2>1. lnext[lhead] \in {0} \union List!Nodes /\ lnext[lhead] < lhead
    BY <1>2 DEF Older
  <2> QED
    BY <1>1, <1>2, <2>1
<1>6. List!TypeOK'
  <2>1. lsize' \in 0..MaxNodes /\ ltail' \in {0} \union List!Nodes /\ freed' \subseteq List!Nodes
        /\ calls' \subseteq {"addf", "addl", "remf", "reml"}
    BY <1>1, <1>2, <1>3
  <2>2. destroyed' \in BOOLEAN /\ fault' \in BOOLEAN
    BY <1>1 DEF ListInv, List!TypeOK
  <2>3. made' \in 0..MaxNodes
    BY <1>1, <1>2
  <2> QED
    BY <1>1, <1>2, <1>5, <2>1, <2>2, <2>3 DEF List!TypeOK, List!NULL
<1>7. List!OneEndIsStack' /\ StackKept'
  <2>1. CASE ~List!Front
    <3>1. ~List!Front' /\ ~List!Back'
      BY <1>1, <2>1 DEF List!Front, List!Back
    <3>2. lsize' = Len(model')
      BY <1>1, <1>2, <1>4
    <3> QED
      BY <3>1, <3>2 DEF List!OneEndIsStack, StackKept
  <2> QED
    BY <2>1, RemfStack
<1>8. LinksBack'
  <2>1. ltail' <= made' /\ lhead' <= made'
    BY <1>1, <1>2, <1>5
  <2> QED
    BY <1>1, <2>1 DEF ListInv, LinksBack, Older, List!Nodes
<1>9. EndsSound'
  <2>1. "reml" \notin calls' => EndSound(lhead', lnext', freed')
    <3> SUFFICES ASSUME "reml" \notin calls' PROVE EndSound(lhead', lnext', freed')
      OBVIOUS
    <3>1. EndSound(lhead, lnext, freed)
      BY <1>1 DEF ListInv, EndsSound
    <3> QED
      BY <1>1, <1>2, <3>1, EndPopped
  <2>2. "remf" \in calls'
    BY <1>1
  <2> QED
    BY <2>1, <2>2 DEF EndsSound, EndSound, List!Nodes
<1>10. SizeCounts'
  <2>1. freed' \subseteq 1..made' /\ Cardinality(freed') + lsize' = made'
    BY <1>1, <1>2, <1>3
  <2> QED
    BY <1>4, <2>1 DEF SizeCounts, List!Nodes
<1>11. List!NoUseAfterFree'
  BY <1>1 DEF List!NoUseAfterFree
<1> QED
  BY <1>6, <1>7, <1>8, <1>9, <1>10, <1>11 DEF ListInv

\* llist_reml on a list used at the back takes the node the caller expects.
LEMMA RemlStack ==
  ASSUME List!LListAssumption, ListInv, List!Reml, List!Back
  PROVE  List!OneEndIsStack' /\ StackKept'
<1>1. /\ ~destroyed /\ ltail # 0 /\ calls' = calls \union {"reml"}
      /\ ltail' = lprev[ltail] /\ freed' = freed \union {ltail}
      /\ lsize' = lsize - 1 /\ lhead' = (IF lsize' = 0 THEN 0 ELSE lhead)
      /\ model' = SubSeq(model, 1, Len(model) - 1)
      /\ UNCHANGED <<lnext, lprev, made, destroyed>>
  BY DEF List!Reml, List!Alive, List!NULL, List!Called
<1>2. /\ model \in Seq(List!Nodes) /\ lsize = Len(model) /\ Len(model) \in Nat
      /\ ltail \in List!Nodes /\ ltail \in Int /\ ltail <= made /\ made \in Nat /\ List!Nodes = 1..MaxNodes
  <2>1. /\ model \in Seq(List!Nodes) /\ lsize = Len(model) /\ Len(model) \in Nat
        /\ ltail \in {0} \union List!Nodes /\ ltail <= made /\ made \in Nat /\ List!Nodes = 1..MaxNodes
    BY <1>1, ListFacts
  <2> QED
    BY <1>1, <2>1
<1>3. /\ \A k \in 1..Len(model) : model[k] <= made
      /\ \A k, l \in 1..Len(model) : k < l => model[k] # model[l]
      /\ freed = (1..made) \ Members
      /\ \A k \in 1..Len(model) : lprev[model[k]] = IF k = 1 THEN 0 ELSE model[k - 1]
  BY <1>1 DEF ListInv, StackKept, List!OneEndIsStack, List!NULL
<1>4. Len(model) > 0 /\ ltail = model[Len(model)] /\ lhead = model[1]
  <2>1. model = <<>> <=> Len(model) = 0
    BY <1>2
  <2> QED
    BY <1>1, <1>2, <2>1 DEF ListInv, List!OneEndIsStack, List!NULL
<1>5. /\ model' \in Seq(List!Nodes) /\ Len(model') = Len(model) - 1
      /\ \A k \in 1..Len(model) - 1 : model'[k] = model[k]
  BY <1>1, <1>2, <1>4, Dropped
<1>6. ltail' = IF Len(model') = 0 THEN 0 ELSE model'[Len(model')]
  <2>1. Len(model) \in 1..Len(model)
    BY <1>2, <1>4
  <2>2. ltail' = IF Len(model) = 1 THEN 0 ELSE model[Len(model) - 1]
    BY <1>1, <1>3, <1>4, <2>1
  <2>3. Len(model) # 1 => model'[Len(model) - 1] = model[Len(model) - 1]
    BY <1>2, <1>4, <1>5
  <2> QED
    BY <1>2, <1>4, <1>5, <2>2, <2>3
<1>7. ASSUME NEW k \in 1..Len(model')
      PROVE  /\ k \in 1..Len(model) /\ k # Len(model) /\ k < Len(model) /\ model'[k] = model[k]
             /\ k # 1 => model'[k - 1] = model[k - 1]
  BY <1>2, <1>4, <1>5
<1>8. \A k \in 1..Len(model') : lprev'[model'[k]] = IF k = 1 THEN 0 ELSE model'[k - 1]
  BY <1>1, <1>3, <1>7, SMTT(30)
<1>9. lhead' = IF Len(model') = 0 THEN 0 ELSE model'[1]
  <2>1. Len(model') # 0 => 1 \in 1..Len(model')
    BY <1>2, <1>5
  <2> QED
    BY <1>1, <1>2, <1>4, <1>5, <1>7, <2>1
<1>10. (model' = <<>> <=> Len(model') = 0) /\ ~List!Front'
  <2>1. model' = <<>> <=> Len(model') = 0
    BY <1>5
  <2>2. ~List!Front'
    BY <1>1 DEF List!Front
  <2> QED
    BY <2>1, <2>2
<1>11. List!OneEndIsStack'
  BY <1>1, <1>2, <1>5, <1>6, <1>8, <1>9, <1>10 DEF List!OneEndIsStack, List!NULL
<1>12. Members' = Members \ {ltail}
  <2>1. ASSUME NEW k \in 1..Len(model') PROVE model'[k] \in Members \ {ltail}
    <3>1. Len(model) \in 1..Len(model)
      BY <1>2, <1>4
    <3> QED
      BY <1>3, <1>4, <1>7, <3>1 DEF Members
  <2>2. ASSUME NEW k \in 1..Len(model), model[k] # ltail PROVE model[k] \in Members'
    <3>1. k # Len(model)
      BY <1>4, <2>2
    <3>2. k \in 1..Len(model') /\ model'[k] = model[k]
      BY <1>2, <1>5, <3>1
    <3> QED
      BY <3>2 DEF Members
  <2> QED
    BY <2>1, <2>2 DEF Members
<1>13. freed' = (1..made') \ Members'
  <2>1. ltail \in 1..made
    BY <1>2
  <2> QED
    BY <1>1, <1>3, <1>12, <2>1
<1>14. /\ \A k \in 1..Len(model') : model'[k] <= made'
       /\ \A k, l \in 1..Len(model') : k < l => model'[k] # model'[l]
  BY <1>1, <1>3, <1>7
<1>15. StackKept'
  BY <1>1, <1>10, <1>13, <1>14 DEF StackKept
<1> QED
  BY <1>11, <1>15

\* llist_reml takes the last node, which leads to no freed one unless something
\* was removed at the front.
LEMMA RemlKeeps == ASSUME List!LListAssumption, ListInv, List!Reml PROVE ListInv'
<1>1. /\ ~destroyed /\ ~fault /\ ltail # 0 /\ ltail \notin freed /\ calls' = calls \union {"reml"}
      /\ result' = ltail /\ ltail' = lprev[ltail] /\ freed' = freed \union {ltail}
      /\ lsize' = lsize - 1 /\ lhead' \in {0, lhead} /\ model' = SubSeq(model, 1, Len(model) - 1)
      /\ UNCHANGED <<lprev, lnext, made, destroyed, fault>>
  BY DEF List!Reml, List!Alive, List!NULL, List!Called
<1>2. /\ made \in Nat /\ made <= MaxNodes /\ MaxNodes \in Nat /\ List!Nodes = 1..MaxNodes
      /\ List!Nodes \subseteq Int /\ 0 \notin List!Nodes
      /\ ltail \in List!Nodes /\ lhead \in {0} \union List!Nodes
      /\ lprev \in [List!Nodes -> {0} \union List!Nodes]
      /\ lnext \in [List!Nodes -> {0} \union List!Nodes]
      /\ freed \subseteq List!Nodes /\ calls \subseteq {"addf", "addl", "reml", "remf"}
      /\ freed \subseteq 1..made /\ lsize \in Nat /\ lsize <= made
      /\ Cardinality(freed) + lsize = made /\ Cardinality(freed) \in Nat
      /\ model \in Seq(List!Nodes) /\ Len(model) \in Nat /\ lsize = Len(model)
      /\ Older(lprev, made) /\ Older(lnext, made) /\ ltail <= made /\ lhead <= made
      /\ ltail \in 1..made
  BY <1>1, ListFacts
<1>3. lsize > 0 /\ Cardinality(freed') = Cardinality(freed) + 1
  BY <1>1, <1>2, OneLess
<1>4. model' \in Seq(List!Nodes) /\ Len(model') = Len(model) - 1
  BY <1>1, <1>2, <1>3, Dropped
<1>5. ltail' \in {0} \union List!Nodes /\ ltail' <= made
  <2>1. lprev[ltail] \in {0} \union List!Nodes /\ lprev[ltail] < ltail
    BY <1>2 DEF Older
  <2> QED
    BY <1>1, <1>2, <2>1
<1>6. List!TypeOK'
  <2>1. lsize' \in 0..MaxNodes /\ lhead' \in {0} \union List!Nodes /\ freed' \subseteq List!Nodes
        /\ calls' \subseteq {"addf", "addl", "reml", "remf"}
    BY <1>1, <1>2, <1>3, SMTT(30)
  <2>2. destroyed' \in BOOLEAN /\ fault' \in BOOLEAN
    BY <1>1 DEF ListInv, List!TypeOK
  <2>3. made' \in 0..MaxNodes
    BY <1>1, <1>2
  <2> QED
    BY <1>1, <1>2, <1>5, <2>1, <2>2, <2>3 DEF List!TypeOK, List!NULL
<1>7. List!OneEndIsStack' /\ StackKept'
  <2>1. CASE ~List!Back
    <3>1. ~List!Back' /\ ~List!Front'
      BY <1>1, <2>1 DEF List!Back, List!Front
    <3>2. lsize' = Len(model')
      BY <1>1, <1>2, <1>4
    <3> QED
      BY <3>1, <3>2 DEF List!OneEndIsStack, StackKept
  <2> QED
    BY <2>1, RemlStack
<1>8. LinksBack'
  <2>1. lhead' <= made' /\ ltail' <= made'
    BY <1>1, <1>2, <1>5
  <2> QED
    BY <1>1, <2>1 DEF ListInv, LinksBack, Older, List!Nodes
<1>9. EndsSound'
  <2>1. "remf" \notin calls' => EndSound(ltail', lprev', freed')
    <3> SUFFICES ASSUME "remf" \notin calls' PROVE EndSound(ltail', lprev', freed')
      OBVIOUS
    <3>1. EndSound(ltail, lprev, freed)
      BY <1>1 DEF ListInv, EndsSound
    <3> QED
      BY <1>1, <1>2, <3>1, EndPopped
  <2>2. "reml" \in calls'
    BY <1>1
  <2> QED
    BY <2>1, <2>2 DEF EndsSound, EndSound, List!Nodes
<1>10. SizeCounts'
  <2>1. freed' \subseteq 1..made' /\ Cardinality(freed') + lsize' = made'
    BY <1>1, <1>2, <1>3
  <2> QED
    BY <1>4, <2>1 DEF SizeCounts, List!Nodes
<1>11. List!NoUseAfterFree'
  BY <1>1 DEF List!NoUseAfterFree
<1> QED
  BY <1>6, <1>7, <1>8, <1>9, <1>10, <1>11 DEF ListInv

\* llist_destroy meets no freed node on a list that never lost one at the back, nor
\* on one used at the back alone, whose head is its only node with a way to it.
LEMMA DestroyMeets ==
  ASSUME List!LListAssumption, ListInv, ~destroyed, List!Chain(lhead) \cap freed # {}
  PROVE  "reml" \in calls /\ ("remf" \in calls \/ "addf" \in calls)
<1>1. /\ List!Nodes = 1..MaxNodes /\ 0 \notin List!Nodes /\ lhead \in {0} \union List!Nodes
      /\ lnext \in [List!Nodes -> {0} \union List!Nodes] /\ freed \subseteq List!Nodes
      /\ calls \subseteq {"addf", "addl", "remf", "reml"}
      /\ model \in Seq(List!Nodes) /\ Len(model) \in Nat
  BY ListFacts
<1>2. "reml" \in calls
  <2> SUFFICES ASSUME "reml" \notin calls PROVE FALSE
    OBVIOUS
  <2>1. EndSound(lhead, lnext, freed)
    BY DEF ListInv, EndsSound
  <2> QED
    BY <1>1, <2>1, ChainLives
<1>3. ASSUME "addf" \notin calls, "remf" \notin calls PROVE FALSE
  <2>1. List!Back
    BY <1>1, <1>3 DEF List!Back
  <2>2. \A x \in List!Nodes : lnext[x] = 0
    BY <1>3 DEF ListInv, LinksBack
  <2>3. List!Chain(lhead) \subseteq {lhead} \ {0}
    <3>1. {lhead} \ {0} \in SUBSET List!Nodes /\ (lhead # 0 => lhead \in {lhead} \ {0})
      BY <1>1
    <3> QED
      BY <2>2, <3>1 DEF List!Chain, List!NULL
  <2>4. lhead # 0 => lhead \notin freed
    <3> SUFFICES ASSUME lhead # 0 PROVE lhead \notin freed
      OBVIOUS
    <3>1. lhead = IF model = <<>> THEN 0 ELSE model[1]
      BY <2>1 DEF ListInv, List!OneEndIsStack, List!NULL
    <3>2. 1 \in 1..Len(model) /\ lhead = model[1]
      BY <1>1, <3>1
    <3>3. freed = (1..made) \ Members
      BY <2>1 DEF ListInv, StackKept
    <3> QED
      BY <3>2, <3>3 DEF Members
  <2> QED
    BY <2>3, <2>4
<1> QED
  BY <1>2, <1>3

\* llist_destroy frees nodes of the list, and at the front all of them.
LEMMA DestroyKeeps == ASSUME List!LListAssumption, ListInv, List!Destroy PROVE ListInv'
<1>1. /\ freed' = freed \union List!Chain(lhead) /\ destroyed' = TRUE /\ ~destroyed
      /\ UNCHANGED <<lhead, ltail, lsize, lnext, lprev, made, calls, model, result>>
      /\ fault' = (List!Chain(lhead) \cap freed # {})
  BY DEF List!Destroy, List!Alive, List!list
<1>2. List!Chain(lhead) \subseteq List!Nodes
  BY DEF List!Chain
<1>3. List!Front => freed' = 1..made
  <2>1. List!Front => Members \subseteq 1..made
    <3>1. /\ made \in Nat /\ List!Nodes = 1..MaxNodes /\ MaxNodes \in Nat
          /\ model \in Seq(List!Nodes)
      BY <1>1, ListFacts
    <3>2. List!Front => \A k \in 1..Len(model) : model[k] <= made
      BY DEF ListInv, StackKept
    <3> QED
      BY <3>1, <3>2 DEF Members
  <2>2. List!Front => freed = (1..made) \ Members
    BY <1>1 DEF ListInv, StackKept
  <2> QED
    BY <1>1, <2>1, <2>2, FrontChain
<1>4. List!TypeOK'
  <2>1. destroyed' \in BOOLEAN /\ fault' \in BOOLEAN
    BY <1>1
  <2>2. freed' \subseteq List!Nodes
    BY <1>1, <1>2 DEF ListInv, List!TypeOK
  <2> QED
    BY <1>1, <2>1, <2>2 DEF ListInv, List!TypeOK, List!Nodes, List!NULL
<1>5. List!OneEndIsStack'
  BY <1>1 DEF ListInv, List!OneEndIsStack, List!Front, List!Back, List!NULL
<1>6. StackKept'
  <2>1. (List!Front' <=> List!Front) /\ (List!Back' <=> List!Back)
    BY <1>1 DEF List!Front, List!Back
  <2> QED
    BY <1>1, <1>3, <2>1 DEF ListInv, StackKept, Members
<1>7. LinksBack' /\ EndsSound' /\ SizeCounts'
  BY <1>1 DEF ListInv, LinksBack, EndsSound, SizeCounts, Older, List!Nodes
<1>8. List!NoUseAfterFree'
  BY <1>1, DestroyMeets DEF List!NoUseAfterFree
<1> QED
  BY <1>4, <1>5, <1>6, <1>7, <1>8 DEF ListInv

\* A removal meets a freed node only after removals at both ends.
LEMMA RemoveFreedKeeps == ASSUME List!LListAssumption, ListInv, List!RemoveFreed PROVE ListInv'
<1>1. /\ ~destroyed /\ fault' = TRUE
      /\ \/ lhead \in freed /\ calls' = calls \union {"remf"}
         \/ ltail \in freed /\ calls' = calls \union {"reml"}
      /\ UNCHANGED <<lhead, ltail, lsize, lnext, lprev, made, freed, destroyed, model, result>>
  <2>1. ~destroyed /\ fault' = TRUE
    BY DEF List!RemoveFreed, List!Alive
  <2>2. \/ lhead \in freed /\ calls' = calls \union {"remf"}
        \/ ltail \in freed /\ calls' = calls \union {"reml"}
    BY DEF List!RemoveFreed, List!Called
  <2>3. UNCHANGED <<lhead, ltail, lsize, lnext, lprev, made, freed, destroyed, model, result>>
    BY DEF List!RemoveFreed, List!list
  <2> QED
    BY <2>1, <2>2, <2>3
<1>2. calls \subseteq {"addf", "addl", "remf", "reml"}
  BY DEF ListInv, List!TypeOK
<1>3. "reml" \in calls' /\ "remf" \in calls'
  <2>1. ("reml" \notin calls => lhead \notin freed) /\ ("remf" \notin calls => ltail \notin freed)
    BY <1>1 DEF ListInv, EndsSound, EndSound
  <2> QED
    BY <1>1, <2>1
<1>4. ~List!Front' /\ ~List!Back'
  BY <1>3 DEF List!Front, List!Back
<1>5. List!TypeOK'
  <2>1. destroyed' \in BOOLEAN /\ fault' \in BOOLEAN
    BY <1>1 DEF ListInv, List!TypeOK
  <2>2. calls' \subseteq {"addf", "addl", "remf", "reml"}
    BY <1>1, <1>2
  <2> QED
    BY <1>1, <2>1, <2>2 DEF ListInv, List!TypeOK, List!Nodes, List!NULL
<1>6. List!OneEndIsStack' /\ StackKept'
  BY <1>1, <1>4 DEF ListInv, List!OneEndIsStack, StackKept
<1>7. LinksBack'
  BY <1>1 DEF ListInv, LinksBack, Older, List!Nodes
<1>8. EndsSound' /\ SizeCounts' /\ List!NoUseAfterFree'
  BY <1>1, <1>3 DEF ListInv, EndsSound, SizeCounts, List!NoUseAfterFree, List!Nodes
<1> QED
  BY <1>5, <1>6, <1>7, <1>8 DEF ListInv

\* chat/llist.c starts with an empty list.
LEMMA ListInitially == ASSUME List!LListAssumption, List!Init PROVE ListInv
<1> USE DEF List!Init, List!LListAssumption, List!NULL, List!Nodes
<1>1. destroyed = FALSE /\ fault = FALSE /\ calls = {}
  OBVIOUS
<1>2. model \in Seq(List!Nodes) /\ Len(model) = 0 /\ Members = {}
  BY DEF Members
<1>3. List!TypeOK
  <2>1. destroyed \in BOOLEAN /\ fault \in BOOLEAN
    BY <1>1
  <2>2. /\ lhead = 0 /\ ltail = 0 /\ lsize \in 0..MaxNodes /\ made \in 0..MaxNodes
        /\ lnext \in [List!Nodes -> {0} \union List!Nodes] /\ lprev \in [List!Nodes -> {0} \union List!Nodes]
        /\ freed = {} /\ result = 0 /\ calls = {}
    OBVIOUS
  <2> HIDE DEF List!Init
  <2> QED
    BY <2>1, <2>2 DEF List!TypeOK
<1>4. List!OneEndIsStack
  BY <1>2 DEF List!OneEndIsStack
<1>5. StackKept /\ LinksBack
  BY <1>1, <1>2 DEF StackKept, LinksBack, Older
<1>6. EndsSound
  BY DEF EndsSound, EndSound
<1>7. SizeCounts
  BY <1>2, FS_EmptySet DEF SizeCounts
<1>8. List!NoUseAfterFree
  BY <1>1 DEF List!NoUseAfterFree
<1> QED
  BY <1>3, <1>4, <1>5, <1>6, <1>7, <1>8 DEF ListInv

\* Every step of chat/llist.c preserves its invariant.
LEMMA ListStep ==
  ASSUME List!LListAssumption, ListInv, [List!Next]_(List!vars)
  PROVE  ListInv'
<1>1. CASE List!RemoveNothing \/ UNCHANGED List!vars
  <2>1. /\ UNCHANGED <<lhead, ltail, lsize, lnext, lprev, made, freed, destroyed, fault, calls, model>>
        /\ result' \in {0, result}
    BY <1>1 DEF List!RemoveNothing, List!list, List!NULL, List!vars
  <2>2. List!TypeOK'
    BY <2>1 DEF ListInv, List!TypeOK, List!NULL, List!Nodes
  <2>3. List!OneEndIsStack' /\ StackKept'
    BY <2>1 DEF ListInv, List!OneEndIsStack, StackKept, Members, List!Front, List!Back, List!NULL
  <2>4. LinksBack' /\ EndsSound' /\ SizeCounts' /\ List!NoUseAfterFree'
    BY <2>1 DEF ListInv, LinksBack, Older, EndsSound, EndSound, SizeCounts, List!NoUseAfterFree, List!Nodes
  <2> QED
    BY <2>2, <2>3, <2>4 DEF ListInv
<1> QED
  BY <1>1, AddfKeeps, AddlKeeps, RemfKeeps, RemlKeeps, RemoveFreedKeeps, DestroyKeeps DEF List!Next

\* What the invariant says of memory.
LEMMA ListPromises ==
  ASSUME List!LListAssumption, ListInv
  PROVE  List!NoUseAfterFree /\ List!FrontFreesAll
  BY DEF ListInv, StackKept, List!FrontFreesAll

-----------------------------------------------------------------------------
(* The TCP clients *)

\* Where main of each client may be, and which of them has a thread.
Places ==
  /\ kind # "client1" => addrs = 1
  /\ at \in {"socket", "connect", "ok", "failed"}
       \union (CASE kind = "client1" -> {"recv"}
                 [] kind = "client2" -> {"send", "recv"}
                 [] OTHER -> {"fgets", "stop", "stop_error", "destroyed"})
  /\ at # "failed" => i <= addrs
  /\ thr # "none" => kind = "select"
  /\ at \in {"socket", "connect"} => thr = "none"
  /\ thr \in {"recv", "print"} => at \in {"fgets", "stop", "stop_error"}

\* The descriptors open: those of the servers met, and that of the address main
\* is about to connect to.
Held ==
  /\ met \subseteq 1..i
  /\ at \in {"socket", "connect"} => i \notin met
  /\ at \in {"send", "recv"} => i \in met
  /\ at = "socket" => open = met
  /\ at = "connect" => open = met \union {i}
  /\ at = "recv" /\ kind = "client1" => open = met
  /\ at \in {"fgets", "stop", "stop_error"} => i \in open
  /\ at \in {"destroyed", "ok"} /\ kind = "select" => open = {}
  /\ at = "ok" /\ kind # "select" => open = met \ {i}

\* What is printed is what came: one block, or all up to the thread's last.
Printed ==
  /\ kind # "select" => shown = got
  /\ kind = "client1" => (got = 0 <=> at # "ok")
  /\ kind = "client2" /\ at # "ok" => got = 0
  /\ thr = "none" /\ kind = "select" => shown = 0 /\ got = 0
  /\ shown <= got
  /\ thr \in {"recv", "ended"} => shown = got
  /\ thr = "ended" => closed /\ got = tsent

\* The inductive invariant of the TCP clients.
TcpInv == Tcp!TypeOK /\ Places /\ Held /\ Printed

\* The variables keep their types: a client is at no address behind the last.
LEMMA TcpTypeStep ==
  ASSUME Tcp!TcpAssumption, TcpInv, [Tcp!Next]_(Tcp!vars)
  PROVE  Tcp!TypeOK'
<1> USE DEF TcpInv, Tcp!TypeOK, Tcp!TcpAssumption, Tcp!server, Tcp!NextAddress, Tcp!Listening,
        Places, Held, Printed
<1>1. CASE Tcp!Socket
  BY <1>1 DEF Tcp!Socket
<1>2. CASE Tcp!Connect
  <2>1. closed' = FALSE
    BY <1>2 DEF Tcp!Connect
  <2>2. met' \subseteq 1..addrs' /\ open' \subseteq 1..addrs'
    BY <1>2 DEF Tcp!Connect
  <2>3. /\ kind' \in {"client1", "client2", "select"}
        /\ addrs' \in 1..MaxAddrs /\ i' \in 1..addrs' + 1
        /\ at' \in {"recv", "send", "fgets"} /\ thr' \in {"recv", "none"}
        /\ tsent' \in 0..MaxBytes /\ got' \in 0..tsent' /\ shown' \in Nat
    BY <1>2 DEF Tcp!Connect
  <2> QED
    BY <2>1, <2>2, <2>3
<1>3. CASE Tcp!Send
  BY <1>3 DEF Tcp!Send
<1>4. ASSUME NEW m \in 1..RECVSIZE, Tcp!Recv(m) PROVE Tcp!TypeOK'
  BY <1>4 DEF Tcp!Recv
<1>5. CASE Tcp!RecvEnd
  BY <1>5 DEF Tcp!RecvEnd
<1>6. CASE Tcp!Destroy
  BY <1>6 DEF Tcp!Destroy
<1>7. CASE Tcp!Return
  BY <1>7 DEF Tcp!Return
<1>8. CASE Tcp!ConnectFails
  BY <1>8 DEF Tcp!ConnectFails
<1>9. CASE Tcp!RecvFails
  BY <1>9 DEF Tcp!RecvFails
<1>10. ASSUME NEW m \in 1..RECVSIZE, Tcp!ThreadRecv(m) PROVE Tcp!TypeOK'
  BY <1>10 DEF Tcp!ThreadRecv
<1>11. CASE Tcp!ThreadPrints
  BY <1>11 DEF Tcp!ThreadPrints
<1>12. CASE Tcp!ThreadEnds
  BY <1>12 DEF Tcp!ThreadEnds
<1>13. CASE Tcp!ThreadCancelled
  BY <1>13 DEF Tcp!ThreadCancelled
<1>14. CASE Tcp!ThreadFails
  BY <1>14 DEF Tcp!ThreadFails
<1>15. CASE Tcp!InputEnds
  BY <1>15 DEF Tcp!InputEnds
<1>16. CASE Tcp!ServerSends
  BY <1>16 DEF Tcp!ServerSends
<1>17. CASE Tcp!ServerCloses
  BY <1>17 DEF Tcp!ServerCloses
<1>18. CASE UNCHANGED Tcp!vars
  BY <1>18 DEF Tcp!vars
<1> QED
  BY <1>1, <1>2, <1>3, <1>4, <1>5, <1>6, <1>7, <1>8, <1>9, <1>10, <1>11, <1>12, <1>13,
     <1>14, <1>15, <1>16, <1>17, <1>18
     DEF Tcp!Next, Tcp!Main, Tcp!Thread

\* Main of each client stays where it may be.
LEMMA PlacesStep ==
  ASSUME Tcp!TcpAssumption, TcpInv, [Tcp!Next]_(Tcp!vars)
  PROVE  Places'
<1> USE DEF TcpInv, Tcp!TypeOK, Tcp!TcpAssumption, Tcp!server, Tcp!NextAddress, Tcp!Listening,
        Places, Held, Printed
<1>1. CASE Tcp!Socket
  BY <1>1 DEF Tcp!Socket
<1>2. CASE Tcp!Connect
  BY <1>2 DEF Tcp!Connect
<1>3. CASE Tcp!Send
  BY <1>3 DEF Tcp!Send
<1>4. ASSUME NEW m \in 1..RECVSIZE, Tcp!Recv(m) PROVE Places'
  BY <1>4 DEF Tcp!Recv
<1>5. CASE Tcp!RecvEnd
  BY <1>5 DEF Tcp!RecvEnd
<1>6. CASE Tcp!Destroy
  BY <1>6 DEF Tcp!Destroy
<1>7. CASE Tcp!Return
  BY <1>7 DEF Tcp!Return
<1>8. CASE Tcp!ConnectFails
  BY <1>8 DEF Tcp!ConnectFails
<1>9. CASE Tcp!RecvFails
  BY <1>9 DEF Tcp!RecvFails
<1>10. ASSUME NEW m \in 1..RECVSIZE, Tcp!ThreadRecv(m) PROVE Places'
  BY <1>10 DEF Tcp!ThreadRecv
<1>11. CASE Tcp!ThreadPrints
  BY <1>11 DEF Tcp!ThreadPrints
<1>12. CASE Tcp!ThreadEnds
  BY <1>12 DEF Tcp!ThreadEnds
<1>13. CASE Tcp!ThreadCancelled
  BY <1>13 DEF Tcp!ThreadCancelled
<1>14. CASE Tcp!ThreadFails
  BY <1>14 DEF Tcp!ThreadFails
<1>15. CASE Tcp!InputEnds
  BY <1>15 DEF Tcp!InputEnds
<1>16. CASE Tcp!ServerSends
  BY <1>16 DEF Tcp!ServerSends
<1>17. CASE Tcp!ServerCloses
  BY <1>17 DEF Tcp!ServerCloses
<1>18. CASE UNCHANGED Tcp!vars
  BY <1>18 DEF Tcp!vars
<1> QED
  BY <1>1, <1>2, <1>3, <1>4, <1>5, <1>6, <1>7, <1>8, <1>9, <1>10, <1>11, <1>12, <1>13,
     <1>14, <1>15, <1>16, <1>17, <1>18
     DEF Tcp!Next, Tcp!Main, Tcp!Thread

\* A descriptor is opened for one address and closed with it.
LEMMA HeldStep ==
  ASSUME Tcp!TcpAssumption, TcpInv, [Tcp!Next]_(Tcp!vars)
  PROVE  Held'
<1> USE DEF TcpInv, Tcp!TypeOK, Tcp!TcpAssumption, Tcp!server, Tcp!NextAddress, Tcp!Listening,
        Places, Held, Printed
<1>1. CASE Tcp!Socket
  BY <1>1 DEF Tcp!Socket
<1>2. CASE Tcp!Connect
  BY <1>2 DEF Tcp!Connect
<1>3. CASE Tcp!Send
  BY <1>3 DEF Tcp!Send
<1>4. ASSUME NEW m \in 1..RECVSIZE, Tcp!Recv(m) PROVE Held'
  BY <1>4 DEF Tcp!Recv
<1>5. CASE Tcp!RecvEnd
  BY <1>5 DEF Tcp!RecvEnd
<1>6. CASE Tcp!Destroy
  BY <1>6 DEF Tcp!Destroy
<1>7. CASE Tcp!Return
  BY <1>7 DEF Tcp!Return
<1>8. CASE Tcp!ConnectFails
  BY <1>8 DEF Tcp!ConnectFails
<1>9. CASE Tcp!RecvFails
  BY <1>9 DEF Tcp!RecvFails
<1>10. ASSUME NEW m \in 1..RECVSIZE, Tcp!ThreadRecv(m) PROVE Held'
  BY <1>10 DEF Tcp!ThreadRecv
<1>11. CASE Tcp!ThreadPrints
  BY <1>11 DEF Tcp!ThreadPrints
<1>12. CASE Tcp!ThreadEnds
  BY <1>12 DEF Tcp!ThreadEnds
<1>13. CASE Tcp!ThreadCancelled
  BY <1>13 DEF Tcp!ThreadCancelled
<1>14. CASE Tcp!ThreadFails
  BY <1>14 DEF Tcp!ThreadFails
<1>15. CASE Tcp!InputEnds
  BY <1>15 DEF Tcp!InputEnds
<1>16. CASE Tcp!ServerSends
  BY <1>16 DEF Tcp!ServerSends
<1>17. CASE Tcp!ServerCloses
  BY <1>17 DEF Tcp!ServerCloses
<1>18. CASE UNCHANGED Tcp!vars
  BY <1>18 DEF Tcp!vars
<1> QED
  BY <1>1, <1>2, <1>3, <1>4, <1>5, <1>6, <1>7, <1>8, <1>9, <1>10, <1>11, <1>12, <1>13,
     <1>14, <1>15, <1>16, <1>17, <1>18
     DEF Tcp!Next, Tcp!Main, Tcp!Thread

\* What is printed is what came.
LEMMA PrintedStep ==
  ASSUME Tcp!TcpAssumption, TcpInv, [Tcp!Next]_(Tcp!vars)
  PROVE  Printed'
<1> USE DEF TcpInv, Tcp!TypeOK, Tcp!TcpAssumption, Tcp!server, Tcp!NextAddress, Tcp!Listening,
        Places, Held, Printed
<1>1. CASE Tcp!Socket
  BY <1>1 DEF Tcp!Socket
<1>2. CASE Tcp!Connect
  BY <1>2 DEF Tcp!Connect
<1>3. CASE Tcp!Send
  BY <1>3 DEF Tcp!Send
<1>4. ASSUME NEW m \in 1..RECVSIZE, Tcp!Recv(m) PROVE Printed'
  BY <1>4 DEF Tcp!Recv
<1>5. CASE Tcp!RecvEnd
  BY <1>5 DEF Tcp!RecvEnd
<1>6. CASE Tcp!Destroy
  BY <1>6 DEF Tcp!Destroy
<1>7. CASE Tcp!Return
  BY <1>7 DEF Tcp!Return
<1>8. CASE Tcp!ConnectFails
  BY <1>8 DEF Tcp!ConnectFails
<1>9. CASE Tcp!RecvFails
  BY <1>9 DEF Tcp!RecvFails
<1>10. ASSUME NEW m \in 1..RECVSIZE, Tcp!ThreadRecv(m) PROVE Printed'
  BY <1>10 DEF Tcp!ThreadRecv
<1>11. CASE Tcp!ThreadPrints
  BY <1>11 DEF Tcp!ThreadPrints
<1>12. CASE Tcp!ThreadEnds
  BY <1>12 DEF Tcp!ThreadEnds
<1>13. CASE Tcp!ThreadCancelled
  BY <1>13 DEF Tcp!ThreadCancelled
<1>14. CASE Tcp!ThreadFails
  BY <1>14 DEF Tcp!ThreadFails
<1>15. CASE Tcp!InputEnds
  BY <1>15 DEF Tcp!InputEnds
<1>16. CASE Tcp!ServerSends
  BY <1>16 DEF Tcp!ServerSends
<1>17. CASE Tcp!ServerCloses
  BY <1>17 DEF Tcp!ServerCloses
<1>18. CASE UNCHANGED Tcp!vars
  BY <1>18 DEF Tcp!vars
<1> QED
  BY <1>1, <1>2, <1>3, <1>4, <1>5, <1>6, <1>7, <1>8, <1>9, <1>10, <1>11, <1>12, <1>13,
     <1>14, <1>15, <1>16, <1>17, <1>18
     DEF Tcp!Next, Tcp!Main, Tcp!Thread

\* The clients start with nothing open.
LEMMA TcpInitially == ASSUME Tcp!TcpAssumption, Tcp!Init PROVE TcpInv
<1>1. closed = FALSE
  BY DEF Tcp!Init
<1>2. kind \in {"client1", "client2", "select"} /\ addrs \in 1..MaxAddrs
  BY DEF Tcp!Init, Tcp!TcpAssumption
<1>3. /\ i \in 1..addrs + 1 /\ at = "socket" /\ met = {} /\ open = {}
      /\ tsent \in 0..MaxBytes /\ got \in 0..tsent /\ shown \in Nat /\ thr = "none"
  BY <1>2 DEF Tcp!Init, Tcp!TcpAssumption
<1>4. Tcp!TypeOK
  BY <1>1, <1>2, <1>3 DEF Tcp!TypeOK
<1> QED
  BY <1>2, <1>4 DEF TcpInv, Tcp!Init, Places, Held, Printed

\* Every step of the TCP clients preserves their invariant.
LEMMA TcpStep ==
  ASSUME Tcp!TcpAssumption, TcpInv, [Tcp!Next]_(Tcp!vars)
  PROVE  TcpInv'
  BY TcpTypeStep, PlacesStep, HeldStep, PrintedStep DEF TcpInv

\* What the invariant says of a client that has ended.
LEMMA TcpPromises ==
  ASSUME TcpInv
  PROVE  Tcp!NoRecvAfterClose /\ Tcp!OneConnection /\ Tcp!LeaksOnlySilent
<1> USE DEF TcpInv, Tcp!TypeOK, Places, Held, Printed
<1>1. Tcp!NoRecvAfterClose
  BY DEF Tcp!NoRecvAfterClose
<1>2. Tcp!OneConnection
  BY DEF Tcp!OneConnection
<1>3. Tcp!LeaksOnlySilent
  BY DEF Tcp!LeaksOnlySilent
<1> QED
  BY <1>1, <1>2, <1>3

-----------------------------------------------------------------------------
(* The run *)

ClientsInv == ChatInv /\ SelectInv /\ ListInv /\ MQInv /\ TcpInv

\* A step of the run is a step of one program and a stutter of the others.
LEMMA StepOfOne ==
  ASSUME [Next]_vars
  PROVE  /\ [Chat!Next]_(Chat!vars) /\ [Select!Next]_(Select!vars)
         /\ [List!Next]_(List!vars) /\ [MQ!Next]_(MQ!vars) /\ [Tcp!Next]_(Tcp!vars)
<1> USE DEF Next, vars, InChat, InSelect, InList, InMQ, InTcp
<1>1. [Chat!Next]_(Chat!vars)
  BY DEF chat, Chat!vars
<1>2. [Select!Next]_(Select!vars)
  BY DEF select, Select!vars
<1>3. [List!Next]_(List!vars)
  BY DEF list, List!vars
<1>4. [MQ!Next]_(MQ!vars)
  BY DEF mqueue, MQ!vars
<1>5. [Tcp!Next]_(Tcp!vars)
  BY DEF tcp, Tcp!vars
<1> QED
  BY <1>1, <1>2, <1>3, <1>4, <1>5

\* The conjunction of the programs' invariants is an invariant of the run.
LEMMA ClientsInvariant == FairSpec => []ClientsInv
<1>1. Init => ClientsInv
  BY ClientsAssumption, ChatInitially, SelectInitially, ListInitially, MQInitially, TcpInitially
     DEF Init, ClientsInv
<1>2. ClientsInv /\ [Next]_vars => ClientsInv'
  BY ClientsAssumption, StepOfOne, ChatStep, SelectStep, ListStep, MQStep, TcpStep
     DEF ClientsInv
<1> QED
  BY <1>1, <1>2, PTL DEF FairSpec

\* chat/client.c: whatever the two threads do to the list at the same time, the
\* event loop finds it empty, and crashes, only after two messages have been
\* outstanding at once or llist_addl got no memory, which main does not notice.
THEOREM CrashAlwaysNeedsCrowd == FairSpec => []CrashNeedsCrowd
<1>1. ClientsInv => CrashNeedsCrowd
  BY DEF ClientsInv, ChatInv, CrashNeedsCrowd
<1> QED
  BY <1>1, ClientsInvariant, PTL

\* No chat client sends a message twice or out of order.  For any number of points
\* and of restarts the message queue doubles and swaps none; each that was sent is
\* received, in a queue, or gone with a queue that mq_unlink removed, and at most
\* one per killed receiver is received and not printed.
THEOREM AlwaysSentInOrder == FairSpec => []SentInOrder
<1>1. ClientsInv => MQ!InOrder /\ MQ!EachPointOnce /\ MQ!OneLostPerKill
  BY ClientsAssumption, MQPromises DEF ClientsInv
<1>2. ClientsInv => Chat!NoDuplicates /\ Select!SentInOrder /\ MQ!TypeOK
  BY DEF ClientsInv, ChatInv, SelectInv, Numbered, Select!SentInOrder, MQInv
<1> QED
  BY <1>1, <1>2, ClientsInvariant, PTL DEF SentInOrder

\* select_client.py: the event loop never sleeps on a message nobody is going to
\* tell it about, however small the indicator's buffer.
THEOREM NeverStuck == FairSpec => []NoStuckMessage
<1>1. ClientsInv => NoStuckMessage
  BY DEF ClientsInv, SelectInv, NoStuckMessage
<1> QED
  BY <1>1, ClientsInvariant, PTL

\* chat/llist.c, for any number of calls in any order: size counts what was added
\* and not removed, a list used at one end is a stack, one used at the front leaks
\* nothing, and a freed node is met only after removals at both ends, or by
\* llist_destroy after additions at the front and removals at the back.
THEOREM ListAlwaysSound == FairSpec => []ListSound
<1>1. ClientsInv => ListSound
  BY ClientsAssumption, ListPromises DEF ClientsInv, ListInv, ListSound
<1> QED
  BY <1>1, ClientsInvariant, PTL

\* The TCP clients print what came over one connection, never receive from a closed
\* descriptor, and leave open only what belongs to silent servers.
THEOREM ConnectionsAlwaysSound == FairSpec => []ConnectionsSound
<1>1. ClientsInv => ConnectionsSound
  BY TcpPromises DEF ClientsInv, TcpInv, ConnectionsSound
<1> QED
  BY <1>1, ClientsInvariant, PTL

=============================================================================
