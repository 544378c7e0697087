---------------------------- MODULE ServersProofs ----------------------------
(***************************************************************************)
(* Proofs about the programs of MCServers, for every value of their            *)
(* constants.  Each program has an inductive invariant of its own; a step of   *)
(* the run is a step of one program and a stutter of the others, so the        *)
(* conjunction of the invariants is an invariant of the run.                   *)
(***************************************************************************)
EXTENDS MCServers, Induction, FiniteSetTheorems, SequenceTheorems, TLAPS

-----------------------------------------------------------------------------
(* server.c *)

\* Clients that have been accepted.
Accepted == {c \in Clients : client[c] = "accepted"}

\* One child at most for each call of accept, and one accept ahead of fork.
ForksCounted ==
  /\ forked + (IF pc = "fork" THEN 1 ELSE 0) <= Cardinality(Accepted) + fails
  /\ \A k \in Forks!Kids : fkid[k] = "none" <=> k > forked

\* Between accept and try_close the parent has the new connection open, and at no
\* other time any; a child has its own open from fork to try_close.
Descriptors ==
  /\ fds = IF pc \in {"fork", "close"} THEN {cd} \ {NoConn} ELSE {}
  /\ \A k \in Forks!Kids :
       kidfds[k] = IF fkid[k] \in {"send", "close"} THEN {kidcd[k]} \ {NoConn} ELSE {}

\* The client has not reached fork yet.
Unforked(c) == client[c] # "accepted" \/ (pc = "fork" /\ cd = c)

\* One child per client at most; before it sends, the client has no greeting and
\* nobody has given up on it; after that it has exactly one of the two.
OneChildEach ==
  /\ \A k, l \in Forks!Kids : kidcd[k] = kidcd[l] /\ kidcd[k] # NoConn => k = l
  /\ cd # NoConn => client[cd] = "accepted"
  /\ \A k \in Forks!Kids : fkid[k] = "none" => kidcd[k] = NoConn
  /\ \A c \in Clients : Unforked(c) =>
       greeted[c] = 0 /\ c \notin unserved /\ \A k \in Forks!Kids : kidcd[k] # c
  /\ \A k \in Forks!Kids : fkid[k] = "send" /\ kidcd[k] # NoConn =>
       greeted[kidcd[k]] = 0 /\ kidcd[k] \notin unserved
  /\ \A c \in Clients :
       ~Unforked(c) /\ (\A k \in Forks!Kids : kidcd[k] = c => fkid[k] # "send")
         => greeted[c] = IF c \in unserved THEN 0 ELSE 1

\* The inductive invariant of server.c.
ForkInv ==
  Forks!TypeOK /\ ForksCounted /\ Descriptors /\ OneChildEach /\ ZombiesNoticed


\* The children are numbered up to a natural number.
LEMMA KidsNumbered ==
  ASSUME Forks!ForkAssumption
  PROVE  /\ Cardinality(Clients) \in Nat
         /\ Forks!Kids = 1..Cardinality(Clients) + MaxFails
         /\ Forks!Cardinality(Forks!Kids) = Cardinality(Clients) + MaxFails
<1>1. Forks!IsFiniteSet(Clients) => IsFiniteSet(Clients)
  BY DEF Forks!IsFiniteSet, IsFiniteSet
<1>2. \A S : Forks!Cardinality(S) = Cardinality(S)
  BY DEF Forks!Cardinality, Cardinality
<1>3. Cardinality(Clients) \in Nat /\ MaxFails \in Nat
  BY <1>1, FS_CardinalityType DEF Forks!ForkAssumption
<1>4. Forks!Kids = 1..Cardinality(Clients) + MaxFails
  BY <1>2 DEF Forks!Kids
<1>5. Cardinality(1..Cardinality(Clients) + MaxFails) = Cardinality(Clients) + MaxFails
  BY <1>3, FS_Interval
<1> QED
  BY <1>2, <1>3, <1>4, <1>5

\* No more clients are accepted than there are.
LEMMA AcceptedCount ==
  ASSUME Forks!ForkAssumption
  PROVE  /\ IsFiniteSet(Accepted) /\ Cardinality(Accepted) \in Nat
         /\ Cardinality(Accepted) <= Cardinality(Clients)
<1>1. IsFiniteSet(Clients)
  BY DEF Forks!ForkAssumption, Forks!IsFiniteSet, IsFiniteSet
<1>2. Accepted \subseteq Clients
  BY DEF Accepted
<1> QED
  BY <1>1, <1>2, FS_Subset, FS_CardinalityType

\* A fork finds a number for its child, which no child has yet: the accept before
\* it was counted.
LEMMA ForkNumber ==
  ASSUME Forks!ForkAssumption, ForkInv, pc = "fork"
  PROVE  forked + 1 \in Forks!Kids /\ fkid[forked + 1] = "none"
<1>1. forked \in Nat /\ fails \in Nat /\ fails <= MaxFails /\ MaxFails \in Nat
  BY KidsNumbered DEF ForkInv, Forks!TypeOK, Forks!ForkAssumption
<1>2. forked + 1 <= Cardinality(Accepted) + fails
  BY DEF ForkInv, ForksCounted
<1>3. forked + 1 \in Forks!Kids
  BY <1>1, <1>2, KidsNumbered, AcceptedCount
<1>4. forked + 1 > forked
  BY <1>1
<1> QED
  BY <1>3, <1>4 DEF ForkInv, ForksCounted

\* Every variable of server.c keeps its type; a fork finds a number for its child
\* because it follows an accept of its own.
LEMMA ForkTypeStep ==
  ASSUME Forks!ForkAssumption, ForkInv, [Forks!Next]_(Forks!vars)
  PROVE  Forks!TypeOK'
<1> USE KidsNumbered
    DEF ForkInv, Forks!TypeOK, Forks!ForkAssumption, Forks!Conns, Forks!MainAt, Forks!main,
        Forks!kids, Forks!signals
<1>1. CASE Forks!Setup
  BY <1>1 DEF Forks!Setup
<1>2. ASSUME NEW c \in Clients, Forks!Connect(c) PROVE Forks!TypeOK'
  BY <1>2 DEF Forks!Connect
<1>3. ASSUME NEW c \in Clients, Forks!Accept(c) PROVE Forks!TypeOK'
  BY <1>3 DEF Forks!Accept
<1>4. CASE Forks!AcceptFails
  BY <1>4 DEF Forks!AcceptFails
<1>5. CASE Forks!Fork
  <2>1. forked + 1 \in Forks!Kids
    BY <1>5, ForkNumber DEF Forks!Fork
  <2> QED
    BY <1>5, <2>1 DEF Forks!Fork
<1>6. CASE Forks!ForkFails
  BY <1>6 DEF Forks!ForkFails
<1>7. CASE Forks!ParentCloses
  BY <1>7 DEF Forks!ParentCloses
<1>8. ASSUME NEW k \in Forks!Kids, Forks!KidSends(k) PROVE Forks!TypeOK'
  BY <1>8 DEF Forks!KidSends
<1>9. ASSUME NEW k \in Forks!Kids, Forks!KidKilled(k) PROVE Forks!TypeOK'
  BY <1>9 DEF Forks!KidKilled
<1>10. ASSUME NEW k \in Forks!Kids, Forks!KidCloses(k) PROVE Forks!TypeOK'
  BY <1>10 DEF Forks!KidCloses
<1>11. ASSUME NEW k \in Forks!Kids, Forks!KidExits(k) PROVE Forks!TypeOK'
  BY <1>11 DEF Forks!KidExits
<1>12. CASE Forks!HandlerStarts
  BY <1>12 DEF Forks!HandlerStarts
<1>13. ASSUME NEW k \in Forks!Kids, Forks!Reap(k) PROVE Forks!TypeOK'
  BY <1>13 DEF Forks!Reap
<1>14. CASE Forks!HandlerReturns
  BY <1>14 DEF Forks!HandlerReturns
<1>15. CASE UNCHANGED Forks!vars
  BY <1>15 DEF Forks!vars
<1> QED
  BY <1>1, <1>2, <1>3, <1>4, <1>5, <1>6, <1>7, <1>8, <1>9, <1>10, <1>11, <1>12, <1>13,
     <1>14, <1>15
     DEF Forks!Next, Forks!Main, Forks!Kid, Forks!Handler

\* Steps that leave the accepts, forks and children alone keep the count.
LEMMA ForksCountedStep ==
  ASSUME Forks!ForkAssumption, ForkInv, [Forks!Next]_(Forks!vars)
  PROVE  ForksCounted'
<1> USE KidsNumbered, AcceptedCount
    DEF ForkInv, Forks!TypeOK, Forks!ForkAssumption, ForksCounted, Forks!MainAt, Forks!main,
        Forks!kids
<1>1. CASE Forks!Setup
  <2>1. Accepted' = Accepted
    BY <1>1 DEF Forks!Setup, Accepted
  <2> QED
    BY <1>1, <2>1 DEF Forks!Setup
<1>2. ASSUME NEW c \in Clients, Forks!Connect(c) PROVE ForksCounted'
  <2>1. Accepted' = Accepted
    BY <1>2 DEF Forks!Connect, Accepted
  <2> QED
    BY <1>2, <2>1 DEF Forks!Connect
<1>3. ASSUME NEW c \in Clients, Forks!Accept(c) PROVE ForksCounted'
  <2>1. Accepted' = Accepted \union {c} /\ c \notin Accepted
    BY <1>3 DEF Forks!Accept, Accepted
  <2>2. Cardinality(Accepted') = Cardinality(Accepted) + 1
    BY <2>1, FS_AddElement
  <2> QED
    BY <1>3, <2>2 DEF Forks!Accept
<1>4. CASE Forks!AcceptFails
  <2>1. Accepted' = Accepted
    BY <1>4 DEF Forks!AcceptFails, Accepted
  <2> QED
    BY <1>4, <2>1 DEF Forks!AcceptFails
<1>5. CASE Forks!Fork
  <2>1. Accepted' = Accepted
    BY <1>5 DEF Forks!Fork, Accepted
  <2>2. forked + 1 \in Forks!Kids
    BY <1>5 DEF Forks!Fork
  <2> QED
    BY <1>5, <2>1, <2>2 DEF Forks!Fork
<1>6. CASE Forks!ForkFails
  <2>1. Accepted' = Accepted
    BY <1>6 DEF Forks!ForkFails, Accepted
  <2> QED
    BY <1>6, <2>1 DEF Forks!ForkFails
<1>7. CASE Forks!ParentCloses
  <2>1. Accepted' = Accepted
    BY <1>7 DEF Forks!ParentCloses, Accepted
  <2> QED
    BY <1>7, <2>1 DEF Forks!ParentCloses
<1>8. ASSUME NEW k \in Forks!Kids, Forks!Kid(k) \/ Forks!Reap(k) PROVE ForksCounted'
  <2>1. Accepted' = Accepted /\ UNCHANGED <<pc, forked, fails>>
    BY <1>8 DEF Forks!Kid, Forks!KidSends, Forks!KidKilled, Forks!KidCloses, Forks!KidExits,
                Forks!Reap, Forks!main, Accepted
  <2>2. fkid[k] # "none" /\ \E loc \in {"close", "exit", "zombie", "reaped"} :
          fkid' = [fkid EXCEPT ![k] = loc]
    BY <1>8 DEF Forks!Kid, Forks!KidSends, Forks!KidKilled, Forks!KidCloses, Forks!KidExits,
                Forks!Reap
  <2> QED
    BY <2>1, <2>2
<1>9. CASE UNCHANGED <<client, pc, forked, fails, fkid>>
  <2>1. Accepted' = Accepted
    BY <1>9 DEF Accepted
  <2> QED
    BY <1>9, <2>1
<1> QED
  BY <1>1, <1>2, <1>3, <1>4, <1>5, <1>6, <1>7, <1>8, <1>9
     DEF Forks!Next, Forks!Main, Forks!Handler, Forks!HandlerStarts, Forks!HandlerReturns,
         Forks!vars

\* fork copies one connection at most, the one it is for.
LEMMA DescriptorsStep ==
  ASSUME Forks!ForkAssumption, ForkInv, [Forks!Next]_(Forks!vars)
  PROVE  Descriptors'
<1> USE DEF ForkInv, Forks!TypeOK, Forks!ForkAssumption, Forks!Conns, Descriptors,
        Forks!MainAt, Forks!main, Forks!kids
<1>1. CASE Forks!Setup
  BY <1>1 DEF Forks!Setup
<1>2. ASSUME NEW c \in Clients, Forks!Accept(c) PROVE Descriptors'
  BY <1>2 DEF Forks!Accept
<1>3. CASE Forks!AcceptFails
  BY <1>3 DEF Forks!AcceptFails
<1>4. CASE Forks!Fork
  <2>1. forked + 1 \in Forks!Kids /\ fkid[forked + 1] = "none"
    BY <1>4, ForkNumber DEF Forks!Fork
  <2>2. \A k \in Forks!Kids :
          /\ fkid'[k] = IF k = forked + 1 THEN "send" ELSE fkid[k]
          /\ kidcd'[k] = IF k = forked + 1 THEN cd ELSE kidcd[k]
          /\ kidfds'[k] = IF k = forked + 1 THEN fds ELSE kidfds[k]
    BY <1>4, <2>1 DEF Forks!Fork
  <2>3. /\ pc = "fork" /\ pc' = "close"
        /\ UNCHANGED <<client, cd, fds, greeted, unserved>>
    BY <1>4 DEF Forks!Fork
  <2> QED
    BY <2>2, <2>3
<1>5. CASE Forks!ForkFails
  BY <1>5 DEF Forks!ForkFails
<1>6. CASE Forks!ParentCloses
  BY <1>6 DEF Forks!ParentCloses
<1>7. ASSUME NEW k \in Forks!Kids, Forks!KidSends(k) PROVE Descriptors'
  BY <1>7 DEF Forks!KidSends
<1>8. ASSUME NEW k \in Forks!Kids, Forks!KidKilled(k) PROVE Descriptors'
  BY <1>8 DEF Forks!KidKilled
<1>9. ASSUME NEW k \in Forks!Kids, Forks!KidCloses(k) PROVE Descriptors'
  BY <1>9 DEF Forks!KidCloses
<1>10. ASSUME NEW k \in Forks!Kids, Forks!KidExits(k) PROVE Descriptors'
  BY <1>10 DEF Forks!KidExits
<1>11. ASSUME NEW k \in Forks!Kids, Forks!Reap(k) PROVE Descriptors'
  BY <1>11 DEF Forks!Reap
<1>12. CASE UNCHANGED <<pc, cd, fds, fkid, kidcd, kidfds>>
  BY <1>12
<1> QED
  BY <1>1, <1>2, <1>3, <1>4, <1>5, <1>6, <1>7, <1>8, <1>9, <1>10, <1>11, <1>12
     DEF Forks!Next, Forks!Main, Forks!Kid, Forks!Handler, Forks!HandlerStarts,
         Forks!HandlerReturns, Forks!Connect, Forks!vars

\* A client is greeted or given up by its own child, once.
LEMMA OneChildEachStep ==
  ASSUME Forks!ForkAssumption, ForkInv, [Forks!Next]_(Forks!vars)
  PROVE  OneChildEach'
<1> USE DEF ForkInv, Forks!TypeOK, Forks!ForkAssumption, Forks!Conns, OneChildEach,
        Unforked, Forks!MainAt, Forks!main, Forks!kids
<1>1. CASE Forks!Setup
  BY <1>1 DEF Forks!Setup
<1>2. ASSUME NEW c \in Clients, Forks!Connect(c) PROVE OneChildEach'
  BY <1>2 DEF Forks!Connect
<1>3. ASSUME NEW c \in Clients, Forks!Accept(c) PROVE OneChildEach'
  BY <1>3 DEF Forks!Accept
<1>4. CASE Forks!AcceptFails
  BY <1>4 DEF Forks!AcceptFails
<1>5. CASE Forks!Fork
  <2>1. forked + 1 \in Forks!Kids /\ fkid[forked + 1] = "none"
    BY <1>5, ForkNumber DEF Forks!Fork
  <2>2. \A k \in Forks!Kids :
          /\ fkid'[k] = IF k = forked + 1 THEN "send" ELSE fkid[k]
          /\ kidcd'[k] = IF k = forked + 1 THEN cd ELSE kidcd[k]
          /\ kidfds'[k] = IF k = forked + 1 THEN fds ELSE kidfds[k]
    BY <1>5, <2>1 DEF Forks!Fork
  <2>3. /\ pc = "fork" /\ pc' = "close"
        /\ UNCHANGED <<client, cd, fds, greeted, unserved>>
    BY <1>5 DEF Forks!Fork
  <2> QED
    BY <2>1, <2>2, <2>3
<1>6. CASE Forks!ForkFails
  BY <1>6 DEF Forks!ForkFails
<1>7. CASE Forks!ParentCloses
  BY <1>7 DEF Forks!ParentCloses
<1>8. ASSUME NEW k \in Forks!Kids, Forks!KidSends(k) PROVE OneChildEach'
  BY <1>8 DEF Forks!KidSends
<1>9. ASSUME NEW k \in Forks!Kids, Forks!KidKilled(k) PROVE OneChildEach'
  BY <1>9 DEF Forks!KidKilled
<1>10. ASSUME NEW k \in Forks!Kids, Forks!KidCloses(k) PROVE OneChildEach'
  BY <1>10 DEF Forks!KidCloses
<1>11. ASSUME NEW k \in Forks!Kids, Forks!KidExits(k) PROVE OneChildEach'
  BY <1>11 DEF Forks!KidExits
<1>12. ASSUME NEW k \in Forks!Kids, Forks!Reap(k) PROVE OneChildEach'
  BY <1>12 DEF Forks!Reap
<1>13. CASE UNCHANGED <<client, pc, cd, fkid, kidcd, greeted, unserved>>
  BY <1>13
<1> QED
  BY <1>1, <1>2, <1>3, <1>4, <1>5, <1>6, <1>7, <1>8, <1>9, <1>10, <1>11, <1>12, <1>13
     DEF Forks!Next, Forks!Main, Forks!Kid, Forks!Handler, Forks!HandlerStarts,
         Forks!HandlerReturns, Forks!vars

\* A child that dies sets the flag, which only the handler takes down, and the
\* handler does not return before the last zombie is reaped.
LEMMA ZombiesNoticedStep ==
  ASSUME Forks!ForkAssumption, ForkInv, [Forks!Next]_(Forks!vars)
  PROVE  ZombiesNoticed'
<1> USE DEF ForkInv, Forks!TypeOK, ZombiesNoticed, Forks!ZombiesNoticed, Forks!MainAt,
        Forks!main, Forks!kids, Forks!signals
<1>1. CASE Forks!Fork
  BY <1>1, ForkNumber DEF Forks!Fork
<1>2. ASSUME NEW k \in Forks!Kids, Forks!KidSends(k) PROVE ZombiesNoticed'
  BY <1>2 DEF Forks!KidSends
<1>3. ASSUME NEW k \in Forks!Kids, Forks!KidKilled(k) PROVE ZombiesNoticed'
  BY <1>3 DEF Forks!KidKilled
<1>4. ASSUME NEW k \in Forks!Kids, Forks!KidCloses(k) PROVE ZombiesNoticed'
  BY <1>4 DEF Forks!KidCloses
<1>5. ASSUME NEW k \in Forks!Kids, Forks!KidExits(k) PROVE ZombiesNoticed'
  BY <1>5 DEF Forks!KidExits
<1>6. CASE Forks!HandlerStarts
  BY <1>6 DEF Forks!HandlerStarts
<1>7. ASSUME NEW k \in Forks!Kids, Forks!Reap(k) PROVE ZombiesNoticed'
  BY <1>7 DEF Forks!Reap
<1>8. CASE Forks!HandlerReturns
  BY <1>8 DEF Forks!HandlerReturns
<1>9. CASE UNCHANGED <<fkid, pending, handler>>
  BY <1>9
<1> QED
  BY <1>1, <1>2, <1>3, <1>4, <1>5, <1>6, <1>7, <1>8, <1>9
     DEF Forks!Next, Forks!Main, Forks!Kid, Forks!Handler, Forks!Setup, Forks!Accept,
         Forks!AcceptFails, Forks!ForkFails, Forks!ParentCloses, Forks!Connect, Forks!vars

\* server.c starts without connections and children.
LEMMA ForkInitially == ASSUME Forks!ForkAssumption, Forks!Init PROVE ForkInv
<1> USE KidsNumbered, AcceptedCount DEF Forks!Init, Forks!ForkAssumption
<1>1. Forks!TypeOK
  <2>1. forked \in 0..Forks!Cardinality(Forks!Kids) /\ fails \in 0..MaxFails
    OBVIOUS
  <2>2. pending \in BOOLEAN /\ handler \in BOOLEAN
    OBVIOUS
  <2>3. /\ client \in [Clients -> {"idle", "queued", "accepted"}]
        /\ kidfds \in [Forks!Kids -> SUBSET Clients]
        /\ greeted \in [Clients -> Nat]
    OBVIOUS
  <2> QED
    BY <2>1, <2>2, <2>3 DEF Forks!TypeOK, Forks!Conns
<1>2. ForksCounted
  <2>1. Accepted = {} /\ Cardinality(Accepted) = 0
    BY FS_EmptySet DEF Accepted
  <2> QED
    BY <2>1 DEF ForksCounted
<1>3. Descriptors
  BY DEF Descriptors
<1>4. OneChildEach
  BY DEF OneChildEach, Unforked
<1>5. ZombiesNoticed
  BY DEF ZombiesNoticed, Forks!ZombiesNoticed
<1> QED
  BY <1>1, <1>2, <1>3, <1>4, <1>5 DEF ForkInv

\* Every step of server.c preserves its invariant.
LEMMA ForkStep ==
  ASSUME Forks!ForkAssumption, ForkInv, [Forks!Next]_(Forks!vars)
  PROVE  ForkInv'
BY ForkTypeStep, ForksCountedStep, DescriptorsStep, OneChildEachStep, ZombiesNoticedStep
   DEF ForkInv

\* What the invariant says of greetings and of descriptors.
LEMMA ForkPromises ==
  ASSUME Forks!ForkAssumption, ForkInv
  PROVE  NoForeignConnection /\ GreetedOnce
<1> USE DEF ForkInv, Descriptors
<1>1. NoForeignConnection
  BY DEF NoForeignConnection, Forks!NoForeignConnection
<1>2. GreetedOnce
  <2> SUFFICES ASSUME NEW c \in Clients, client[c] = "accepted", c \notin fds,
                      \A k \in Forks!Kids : c \notin kidfds[k]
               PROVE  greeted[c] = IF c \in unserved THEN 0 ELSE 1
    BY DEF GreetedOnce, Forks!GreetedOnce
  <2>1. c # NoConn
    BY DEF Forks!ForkAssumption
  <2>2. ~Unforked(c)
    BY <2>1 DEF Unforked
  <2>3. \A k \in Forks!Kids : kidcd[k] = c => fkid[k] # "send"
    BY <2>1
  <2> QED
    BY <2>2, <2>3 DEF OneChildEach
<1> QED
  BY <1>1, <1>2

-----------------------------------------------------------------------------
(* file_server.c *)

\* What the clients ask for, and that they send no more than their line.
Asking ==
  /\ fline \in [Clients -> LineLens] /\ file \in [Clients -> FileLens \union {File!NoFile}]
  /\ \A c \in Clients : sent[c] <= fline[c] + 1

\* The connection the server works on is the one that is open.
OneOpen == \A c \in Clients : conn[c] = "open" <=> cur = c

\* read_line stores byte after byte, and never has more of them than its buffer
\* holds.
BufferHolds == stored = len - 1 /\ len <= fcap /\ fcap >= 1

\* How far the request of the current client is: nothing is sent before the line
\* is complete, then what was read of the file, and a request that ends without
\* the whole file is excused.
Progress ==
  /\ srv \in {"open", "read", "send"} => sent[cur] > fline[cur]
  /\ srv \in {"recv", "open"} => got[cur] = 0
  /\ srv \in {"read", "send", "dead"} => file[cur] # File!NoFile /\ pos <= file[cur]
  /\ srv = "read" => got[cur] = pos
  /\ srv \in {"send", "dead"} => got[cur] = pos - 1
  /\ srv = "dead" => cur \in hung
  /\ srv = "close" /\ cur \notin hung \union excused =>
       got[cur] = file[cur] /\ file[cur] # File!NoFile
  /\ \A c \in Clients : conn[c] \in {"idle", "queued"} => got[c] = 0

\* Clients whose connection is closed and whose file exists.
Finished == {c \in Clients : conn[c] = "closed" /\ file[c] # File!NoFile}
\* Those of them that nothing cut short.
FinishedWell == Finished \ (hung \union excused)

\* A file of the current request may be open already, and is open once it is sent.
MayHold == IF srv \in {"read", "send", "close", "dead"} /\ file[cur] # File!NoFile THEN 1 ELSE 0
Holds ==
  IF srv \in {"read", "send"} \/ (srv = "close" /\ cur \notin hung \union excused)
    THEN 1 ELSE 0

\* Every open file belongs to a request of its own.
FilesCounted ==
  /\ files <= Cardinality(Finished) + MayHold
  /\ Cardinality(FinishedWell) + Holds <= files

\* The inductive invariant of file_server.c.
FileInv ==
  /\ File!TypeOK /\ Asking /\ OneOpen /\ BufferHolds /\ Progress /\ File!FileWhole
  /\ FilesCounted

\* A server that is not in accept serves a client.
LEMMA Serving ==
  ASSUME File!FileServerAssumption, FileInv, srv # "accept"
  PROVE  cur \in Clients /\ cur # File!None
BY DEF FileInv, File!TypeOK

\* Lines and files have lengths; one more byte of a line changes one count.
LEMMA LengthsAsked ==
  ASSUME File!FileServerAssumption, FileInv, NEW c \in Clients
  PROVE  /\ fline[c] \in Nat /\ sent[c] \in Nat /\ got[c] \in Nat /\ sent[c] <= fline[c] + 1
         /\ file[c] \in Int /\ (file[c] # File!NoFile => file[c] \in Nat)
         /\ File!SendByte(c) => \A d \in Clients : sent'[d] = IF d = c THEN sent[c] + 1 ELSE sent[d]
<1> USE DEF FileInv, File!TypeOK, File!FileServerAssumption, Asking, File!NoFile
<1>1. fline[c] \in Nat /\ sent[c] \in Nat /\ got[c] \in Nat /\ sent[c] <= fline[c] + 1
  OBVIOUS
<1>2. file[c] \in Int /\ (file[c] # File!NoFile => file[c] \in Nat)
  <2>1. file[c] \in FileLens \/ file[c] = -1
    OBVIOUS
  <2>2. CASE file[c] \in FileLens
    <3>1. file[c] \in Nat
      BY <2>2
    <3> QED
      BY <3>1
  <2>3. CASE file[c] = -1
    BY <2>3
  <2> QED
    BY <2>1, <2>2, <2>3
<1>3. File!SendByte(c) => \A d \in Clients : sent'[d] = IF d = c THEN sent[c] + 1 ELSE sent[d]
  BY DEF File!SendByte
<1> HIDE DEF FileInv, File!TypeOK, File!FileServerAssumption, Asking, File!NoFile
<1> QED
  BY <1>1, <1>2, <1>3

\* The variables of file_server.c keep their types, its descriptors their number.
LEMMA FileTypeStep ==
  ASSUME File!FileServerAssumption, FileInv, [File!Next]_(File!vars)
  PROVE  File!TypeOK'
<1> USE Serving
    DEF FileInv, File!TypeOK, File!FileServerAssumption, Asking, File!Fds, File!request,
        File!world, BufferHolds
<1>1. ASSUME NEW c \in Clients, File!Connect(c) PROVE File!TypeOK'
  BY <1>1 DEF File!Connect
<1>2. ASSUME NEW c \in Clients, File!SendByte(c) PROVE File!TypeOK'
  BY <1>2 DEF File!SendByte
<1>3. ASSUME NEW c \in Clients, File!HangUp(c) PROVE File!TypeOK'
  BY <1>3 DEF File!HangUp
<1>4. ASSUME NEW c \in Clients, File!Accept(c) PROVE File!TypeOK'
  BY <1>4 DEF File!Accept
<1>5. ASSUME NEW c \in Clients, File!AcceptFails(c) PROVE File!TypeOK'
  BY <1>5 DEF File!AcceptFails
<1>6. CASE File!RecvByte
  BY <1>6 DEF File!RecvByte
<1>7. CASE File!RecvEnds
  BY <1>7 DEF File!RecvEnds
<1>8. CASE File!NoMemory
  BY <1>8 DEF File!NoMemory
<1>9. CASE File!Open
  BY <1>9 DEF File!Open
<1>10. CASE File!OpenFails
  BY <1>10 DEF File!OpenFails
<1>11. CASE File!Read
  BY <1>11 DEF File!Read
<1>12. CASE File!ReadFails
  BY <1>12 DEF File!ReadFails
<1>13. CASE File!Send
  BY <1>13 DEF File!Send
<1>14. ASSUME NEW o \in {"close", "dead"}, File!SendFails(o) PROVE File!TypeOK'
  BY <1>14 DEF File!SendFails
<1>15. CASE File!CloseClient
  BY <1>15 DEF File!CloseClient
<1>16. CASE UNCHANGED File!vars
  BY <1>16 DEF File!vars
<1> QED
  BY <1>1, <1>2, <1>3, <1>4, <1>5, <1>6, <1>7, <1>8, <1>9, <1>10, <1>11, <1>12, <1>13,
     <1>14, <1>15, <1>16
     DEF File!Next, File!Server, File!Failure, File!Idle, File!vars

\* Clients stop at the newline of their line.
LEMMA AskingStep ==
  ASSUME File!FileServerAssumption, FileInv, [File!Next]_(File!vars)
  PROVE  Asking'
<1> USE Serving
    DEF FileInv, File!TypeOK, File!FileServerAssumption, Asking, File!Fds, File!request,
        File!world
<1>1. ASSUME NEW c \in Clients, File!SendByte(c) PROVE Asking'
  <2>1. /\ \A d \in Clients : sent'[d] = IF d = c THEN sent[c] + 1 ELSE sent[d]
        /\ \A d \in Clients : sent[d] \in Nat /\ fline[d] \in Nat
        /\ sent[c] <= fline[c]
    BY <1>1, LengthsAsked DEF File!SendByte
  <2> QED
    BY <1>1, <2>1 DEF File!SendByte
<1>2. CASE UNCHANGED <<fline, file, sent>>
  BY <1>2
<1> QED
  BY <1>1, <1>2
     DEF File!Next, File!Server, File!Failure, File!Idle, File!Connect, File!HangUp,
         File!Accept, File!AcceptFails, File!RecvByte, File!RecvEnds, File!NoMemory,
         File!Open, File!OpenFails, File!Read, File!ReadFails, File!Send,
         File!SendFails, File!CloseClient, File!vars

\* accept opens a connection when none is open, close_client closes that one.
LEMMA OneOpenStep ==
  ASSUME File!FileServerAssumption, FileInv, [File!Next]_(File!vars)
  PROVE  OneOpen'
<1> USE Serving
    DEF FileInv, File!TypeOK, File!FileServerAssumption, Asking, File!Fds, File!request,
        File!world, OneOpen
<1>1. ASSUME NEW c \in Clients, File!Connect(c) PROVE OneOpen'
  BY <1>1 DEF File!Connect
<1>2. ASSUME NEW c \in Clients, File!Accept(c) PROVE OneOpen'
  BY <1>2 DEF File!Accept
<1>3. ASSUME NEW c \in Clients, File!AcceptFails(c) PROVE OneOpen'
  BY <1>3 DEF File!AcceptFails
<1>4. CASE File!CloseClient
  BY <1>4 DEF File!CloseClient
<1>5. CASE UNCHANGED <<cur, conn>>
  BY <1>5
<1> QED
  BY <1>1, <1>2, <1>3, <1>4, <1>5
     DEF File!Next, File!Server, File!Failure, File!Idle, File!SendByte, File!HangUp,
         File!RecvByte, File!RecvEnds, File!NoMemory, File!Open, File!OpenFails,
         File!Read, File!ReadFails, File!Send, File!SendFails, File!vars

\* A full buffer is doubled before the next byte is stored.
LEMMA BufferHoldsStep ==
  ASSUME File!FileServerAssumption, FileInv, [File!Next]_(File!vars)
  PROVE  BufferHolds'
<1> USE Serving
    DEF FileInv, File!TypeOK, File!FileServerAssumption, Asking, File!Fds, File!request,
        File!world, BufferHolds
<1>1. ASSUME NEW c \in Clients, File!Accept(c) PROVE BufferHolds'
  BY <1>1 DEF File!Accept
<1>2. CASE File!RecvByte
  BY <1>2 DEF File!RecvByte
<1>3. CASE UNCHANGED <<len, fcap, stored>>
  BY <1>3
<1> QED
  BY <1>1, <1>2, <1>3
     DEF File!Next, File!Server, File!Failure, File!Idle, File!Connect, File!SendByte,
         File!HangUp, File!AcceptFails, File!RecvEnds, File!NoMemory, File!Open,
         File!OpenFails, File!Read, File!ReadFails, File!Send, File!SendFails,
         File!CloseClient, File!vars

\* The request moves from line to file, and to the end or to an excuse.
LEMMA ProgressStep ==
  ASSUME File!FileServerAssumption, FileInv, [File!Next]_(File!vars)
  PROVE  Progress'
<1> USE Serving
    DEF FileInv, File!TypeOK, File!FileServerAssumption, Asking, File!Fds, File!request,
        File!world, OneOpen, BufferHolds, Progress
<1>1. ASSUME NEW c \in Clients, File!Connect(c) PROVE Progress'
  BY <1>1 DEF File!Connect
<1>2. ASSUME NEW c \in Clients, File!SendByte(c) PROVE Progress'
  <2>1. /\ \A d \in Clients : sent'[d] = IF d = c THEN sent[c] + 1 ELSE sent[d]
        /\ \A d \in Clients : sent[d] \in Nat /\ fline[d] \in Nat
        /\ sent[c] <= fline[c]
    BY <1>2, LengthsAsked DEF File!SendByte
  <2> QED
    BY <1>2, <2>1 DEF File!SendByte
<1>3. ASSUME NEW c \in Clients, File!HangUp(c) PROVE Progress'
  BY <1>3 DEF File!HangUp
<1>4. ASSUME NEW c \in Clients, File!Accept(c) PROVE Progress'
  BY <1>4 DEF File!Accept
<1>5. ASSUME NEW c \in Clients, File!AcceptFails(c) PROVE Progress'
  BY <1>5 DEF File!AcceptFails
<1>6. CASE File!RecvByte
  BY <1>6 DEF File!RecvByte
<1>7. CASE File!RecvEnds
  BY <1>7 DEF File!RecvEnds
<1>8. CASE File!NoMemory
  BY <1>8 DEF File!NoMemory
<1>9. CASE File!Open
  <2>1. file[cur] \in Int /\ got[cur] \in Nat
    BY <1>9, LengthsAsked DEF File!Open
  <2>2. file[cur] # File!NoFile => file[cur] \in Nat
    BY <1>9, LengthsAsked DEF File!Open
  <2> QED
    BY <1>9, <2>1, <2>2 DEF File!Open
<1>10. CASE File!OpenFails
  BY <1>10 DEF File!OpenFails
<1>11. CASE File!Read
  <2>1. file[cur] \in Int /\ got[cur] \in Nat
    BY <1>11, LengthsAsked DEF File!Read
  <2>2. file[cur] # File!NoFile => file[cur] \in Nat
    BY <1>11, LengthsAsked DEF File!Read
  <2> QED
    BY <1>11, <2>1, <2>2 DEF File!Read
<1>12. CASE File!ReadFails
  BY <1>12 DEF File!ReadFails
<1>13. CASE File!Send
  BY <1>13 DEF File!Send
<1>14. ASSUME NEW o \in {"close", "dead"}, File!SendFails(o) PROVE Progress'
  BY <1>14 DEF File!SendFails
<1>15. CASE File!CloseClient
  BY <1>15 DEF File!CloseClient
<1>16. CASE UNCHANGED File!vars
  BY <1>16 DEF File!vars
<1> QED
  BY <1>1, <1>2, <1>3, <1>4, <1>5, <1>6, <1>7, <1>8, <1>9, <1>10, <1>11, <1>12, <1>13,
     <1>14, <1>15, <1>16
     DEF File!Next, File!Server, File!Failure, File!Idle, File!vars

\* Bytes go to the client being served; it is closed with the whole file or excused.
LEMMA FileWholeStep ==
  ASSUME File!FileServerAssumption, FileInv, [File!Next]_(File!vars)
  PROVE  File!FileWhole'
<1> USE Serving
    DEF FileInv, File!TypeOK, File!FileServerAssumption, Asking, File!Fds, File!request,
        File!world, OneOpen, Progress, File!FileWhole
<1>1. ASSUME NEW c \in Clients, File!Connect(c) PROVE File!FileWhole'
  BY <1>1 DEF File!Connect
<1>2. ASSUME NEW c \in Clients, File!SendByte(c) PROVE File!FileWhole'
  <2>1. /\ \A d \in Clients : sent'[d] = IF d = c THEN sent[c] + 1 ELSE sent[d]
        /\ \A d \in Clients : sent[d] \in Nat /\ fline[d] \in Nat
        /\ sent[c] <= fline[c]
    BY <1>2, LengthsAsked DEF File!SendByte
  <2> QED
    BY <1>2, <2>1 DEF File!SendByte
<1>3. ASSUME NEW c \in Clients, File!HangUp(c) PROVE File!FileWhole'
  BY <1>3 DEF File!HangUp
<1>4. ASSUME NEW c \in Clients, File!Accept(c) PROVE File!FileWhole'
  BY <1>4 DEF File!Accept
<1>5. ASSUME NEW c \in Clients, File!AcceptFails(c) PROVE File!FileWhole'
  BY <1>5 DEF File!AcceptFails
<1>6. CASE File!RecvByte
  BY <1>6 DEF File!RecvByte
<1>7. CASE File!RecvEnds
  BY <1>7 DEF File!RecvEnds
<1>8. CASE File!NoMemory
  BY <1>8 DEF File!NoMemory
<1>9. CASE File!Open
  BY <1>9 DEF File!Open
<1>10. CASE File!OpenFails
  BY <1>10 DEF File!OpenFails
<1>11. CASE File!Read
  BY <1>11 DEF File!Read
<1>12. CASE File!ReadFails
  BY <1>12 DEF File!ReadFails
<1>13. CASE File!Send
  BY <1>13 DEF File!Send
<1>14. ASSUME NEW o \in {"close", "dead"}, File!SendFails(o) PROVE File!FileWhole'
  BY <1>14 DEF File!SendFails
<1>15. CASE File!CloseClient
  BY <1>15 DEF File!CloseClient
<1>16. CASE UNCHANGED File!vars
  BY <1>16 DEF File!vars
<1> QED
  BY <1>1, <1>2, <1>3, <1>4, <1>5, <1>6, <1>7, <1>8, <1>9, <1>10, <1>11, <1>12, <1>13,
     <1>14, <1>15, <1>16
     DEF File!Next, File!Server, File!Failure, File!Idle, File!vars

\* The sets that are counted are finite.
LEMMA FinishedFinite ==
  ASSUME File!FileServerAssumption
  PROVE  /\ IsFiniteSet(Finished) /\ Cardinality(Finished) \in Nat
         /\ IsFiniteSet(FinishedWell) /\ Cardinality(FinishedWell) \in Nat
<1>1. IsFiniteSet(Clients)
  BY DEF File!FileServerAssumption, File!IsFiniteSet, IsFiniteSet
<1>2. Finished \subseteq Clients /\ FinishedWell \subseteq Clients
  BY DEF Finished, FinishedWell
<1>3. IsFiniteSet(Finished) /\ IsFiniteSet(FinishedWell)
  BY <1>1, <1>2, FS_Subset
<1> QED
  BY <1>3, FS_CardinalityType

\* Steps that close no connection leave the counts alone; those who are excused or
\* hang up have not been closed.
LEMMA FinishedKept ==
  ASSUME FileInv, UNCHANGED file,
         \A c \in Clients : conn'[c] = "closed" <=> conn[c] = "closed",
         \A c \in Clients : conn[c] = "closed" =>
           (c \in hung' \union excused' <=> c \in hung \union excused)
  PROVE  Finished' = Finished /\ FinishedWell' = FinishedWell
BY DEF Finished, FinishedWell

\* A close counts for the client's own file, and for it alone.
LEMMA FilesCountedStep ==
  ASSUME File!FileServerAssumption, FileInv, [File!Next]_(File!vars)
  PROVE  FilesCounted'
<1> USE Serving, FinishedFinite
    DEF FileInv, File!TypeOK, File!FileServerAssumption, FilesCounted, MayHold, Holds,
        File!Fds, File!request, File!world
<1>1. ASSUME NEW c \in Clients, File!Connect(c) PROVE FilesCounted'
  <2>1. Finished' = Finished /\ FinishedWell' = FinishedWell
    BY <1>1, FinishedKept DEF File!Connect
  <2> QED
    BY <1>1, <2>1 DEF File!Connect
<1>2. ASSUME NEW c \in Clients, File!HangUp(c) PROVE FilesCounted'
  <2>1. Finished' = Finished /\ FinishedWell' = FinishedWell
    BY <1>2, FinishedKept DEF File!HangUp
  <2> QED
    BY <1>2, <2>1 DEF File!HangUp
<1>3. ASSUME NEW c \in Clients, File!Accept(c) PROVE FilesCounted'
  <2>1. Finished' = Finished /\ FinishedWell' = FinishedWell
    BY <1>3, FinishedKept DEF File!Accept
  <2> QED
    BY <1>3, <2>1 DEF File!Accept
<1>4. ASSUME NEW c \in Clients, File!AcceptFails(c) PROVE FilesCounted'
  <2>1. c \notin Finished /\ FinishedWell' = FinishedWell
    BY <1>4 DEF File!AcceptFails, Finished, FinishedWell
  <2>2. Finished' = Finished \/ Finished' = Finished \union {c}
    BY <1>4 DEF File!AcceptFails, Finished
  <2>3. Cardinality(Finished') \in Nat /\ Cardinality(Finished') >= Cardinality(Finished)
    BY <2>1, <2>2, FS_AddElement
  <2>4. files' = files /\ MayHold = 0 /\ MayHold' = 0 /\ Holds = 0 /\ Holds' = 0
    BY <1>4 DEF File!AcceptFails
  <2> HIDE DEF MayHold, Holds
  <2> QED
    BY <2>1, <2>3, <2>4
<1>5. CASE File!RecvByte
  <2>1. Finished' = Finished /\ FinishedWell' = FinishedWell
    BY <1>5, FinishedKept DEF File!RecvByte
  <2> QED
    BY <1>5, <2>1 DEF File!RecvByte
<1>6. CASE File!RecvEnds
  <2>1. Finished' = Finished /\ FinishedWell' = FinishedWell
    BY <1>6, FinishedKept DEF File!RecvEnds
  <2> QED
    BY <1>6, <2>1 DEF File!RecvEnds
<1>7. ASSUME srv \in {"recv", "open", "read", "send"}, srv' \in {"close", "dead"},
             excused' = excused \union {cur},
             UNCHANGED <<cur, files, file, hung, conn>>
      PROVE  FilesCounted'
  <2>1. cur \in Clients /\ conn[cur] = "open"
    BY <1>7 DEF OneOpen
  <2>2. Finished' = Finished /\ FinishedWell' = FinishedWell
    BY <1>7, <2>1, FinishedKept
  <2> QED
    BY <1>7, <2>2
<1>8. CASE File!Open
  <2>1. Finished' = Finished /\ FinishedWell' = FinishedWell
    BY <1>8, FinishedKept DEF File!Open
  <2> QED
    BY <1>8, <2>1 DEF File!Open
<1>9. CASE File!Read
  <2>1. Finished' = Finished /\ FinishedWell' = FinishedWell
    BY <1>9, FinishedKept DEF File!Read
  <2> QED
    BY <1>9, <2>1 DEF File!Read
<1>10. CASE File!Send
  <2>1. Finished' = Finished /\ FinishedWell' = FinishedWell
    BY <1>10, FinishedKept DEF File!Send
  <2> QED
    BY <1>10, <2>1 DEF File!Send
<1>11. CASE File!CloseClient
  <2>1. cur \in Clients /\ conn[cur] = "open" /\ cur \notin Finished /\ cur \notin FinishedWell
    BY <1>11 DEF File!CloseClient, OneOpen, Finished, FinishedWell
  <2>2. Finished' = IF file[cur] # File!NoFile THEN Finished \union {cur} ELSE Finished
    BY <1>11, <2>1 DEF File!CloseClient, Finished
  <2>3. FinishedWell' = IF file[cur] # File!NoFile /\ cur \notin hung \union excused
                          THEN FinishedWell \union {cur} ELSE FinishedWell
    BY <1>11, <2>1, <2>2 DEF File!CloseClient, FinishedWell
  <2>4. Cardinality(Finished') = Cardinality(Finished) + MayHold
    <3>1. CASE file[cur] # File!NoFile
      <4>1. Cardinality(Finished') = Cardinality(Finished) + 1
        BY <2>1, <2>2, <3>1, FS_AddElement
      <4> QED
        BY <1>11, <3>1, <4>1 DEF File!CloseClient
    <3>2. CASE file[cur] = File!NoFile
      BY <2>2, <3>2
    <3> QED
      BY <3>1, <3>2
  <2>5. \/ Cardinality(FinishedWell') = Cardinality(FinishedWell)
        \/ Cardinality(FinishedWell') = Cardinality(FinishedWell) + 1 /\ Holds = 1
    BY <1>11, <2>1, <2>3, FS_AddElement DEF File!CloseClient
  <2>6. files' = files /\ MayHold' = 0 /\ Holds' = 0 /\ MayHold \in {0, 1} /\ Holds \in {0, 1}
    BY <1>11 DEF File!CloseClient
  <2> HIDE DEF MayHold, Holds
  <2> QED
    BY <2>4, <2>5, <2>6
<1>12. CASE UNCHANGED <<srv, cur, files, file, hung, conn, excused>>
  <2>1. Finished' = Finished /\ FinishedWell' = FinishedWell
    BY <1>12 DEF Finished, FinishedWell
  <2> QED
    BY <1>12, <2>1
<1> QED
  BY <1>1, <1>2, <1>3, <1>4, <1>5, <1>6, <1>7, <1>8, <1>9, <1>10, <1>11, <1>12
     DEF File!Next, File!Server, File!Failure, File!Idle, File!SendByte, File!NoMemory,
         File!OpenFails, File!ReadFails, File!SendFails, File!vars

\* file_server.c starts with nobody served.
LEMMA FileInitially == ASSUME File!FileServerAssumption, File!Init PROVE FileInv
<1> USE FinishedFinite DEF File!Init, File!FileServerAssumption
<1>1. File!TypeOK
  BY DEF File!TypeOK, File!Fds
<1>2. Asking
  <2>1. \A c \in Clients : fline[c] \in Nat
    OBVIOUS
  <2> QED
    BY <2>1 DEF Asking
<1>3. OneOpen
  BY DEF OneOpen
<1>4. BufferHolds
  BY DEF BufferHolds
<1>5. Progress
  BY DEF Progress
<1>6. File!FileWhole
  BY DEF File!FileWhole
<1>7. FilesCounted
  <2>1. Finished = {} /\ FinishedWell = {}
    BY DEF Finished, FinishedWell
  <2> QED
    BY <2>1, FS_EmptySet DEF FilesCounted, MayHold, Holds
<1> QED
  BY <1>1, <1>2, <1>3, <1>4, <1>5, <1>6, <1>7 DEF FileInv

\* Every step of file_server.c preserves its invariant.
LEMMA FileStep ==
  ASSUME File!FileServerAssumption, FileInv, [File!Next]_(File!vars)
  PROVE  FileInv'
BY FileTypeStep, AskingStep, OneOpenStep, BufferHoldsStep, ProgressStep, FileWholeStep,
   FilesCountedStep
   DEF FileInv

\* What the invariant says of read_line's buffer, of the end of the server and of
\* the descriptors.
LEMMA FilePromises ==
  ASSUME File!FileServerAssumption, FileInv
  PROVE  File!LineFits /\ File!DiesOnlyOfHangUp /\ File!LeaksFilesOnly
<1> USE DEF FileInv, File!TypeOK
<1>1. File!LineFits
  BY DEF File!LineFits, BufferHolds
<1>2. File!DiesOnlyOfHangUp
  <2>1. ASSUME srv = "dead" PROVE cur \in hung /\ got[cur] < file[cur]
    <3>1. file[cur] \in Nat
      BY <2>1, Serving, LengthsAsked DEF Progress
    <3> QED
      BY <2>1, <3>1 DEF Progress
  <2> QED
    BY <2>1 DEF File!DiesOnlyOfHangUp
<1>3. File!LeaksFilesOnly
  <2> SUFFICES ASSUME srv = "accept"
               PROVE  files \in Cardinality(FinishedWell)..Cardinality(Finished)
    <3>1. \A S : File!Cardinality(S) = Cardinality(S)
      BY DEF File!Cardinality, Cardinality
    <3>2. {c \in Clients \ (hung \union excused) : conn[c] = "closed" /\ file[c] # File!NoFile}
            = FinishedWell
      BY DEF Finished, FinishedWell
    <3>3. {c \in Clients : conn[c] = "closed" /\ file[c] # File!NoFile} = Finished
      BY DEF Finished
    <3>4. srv = "accept" => File!Fds = files
      BY DEF File!Fds
    <3> QED
      BY <3>1, <3>2, <3>3, <3>4 DEF File!LeaksFilesOnly
  <2>1. files \in Nat /\ MayHold = 0 /\ Holds = 0
    BY File!FileServerAssumption DEF MayHold, Holds, File!FileServerAssumption
  <2> QED
    BY <2>1, FinishedFinite DEF FilesCounted
<1> QED
  BY <1>1, <1>2, <1>3

-----------------------------------------------------------------------------
(* shell.c *)

\* While a line is read the buffer holds it.
LineHeld == Len(line) <= MaxLine /\ cap >= 1 /\ (sh = "read" => Len(line) <= cap)

\* strtok gives one word per round.  A line of fewer words than the first capacity
\* never makes the array grow, and a longer one has been noticed when it was typed.
Splitting ==
  /\ sh \in {"split", "execute", "wait"} => (Ezsh!Words >= CAPINIT => crowded)
  /\ sh = "split" =>
       /\ next <= Ezsh!Words + 1
       /\ Ezsh!Words < CAPINIT =>
            cap = CAPINIT /\ Len(tokens) = next - 1 /\ \A k \in 1..next - 1 : tokens[k] = k
  /\ moved => crowded

\* There is a child only while the shell waits for it, or died waiting.
ChildAwaited == sh \in {"read", "split", "execute"} => kid = "none"

\* The inductive invariant of shell.c.
EzInv ==
  /\ Ezsh!TypeOK /\ LineHeld /\ Splitting /\ ChildAwaited
  /\ Ezsh!LineFits /\ Ezsh!FewWordsSplit

\* A line has no more words than characters.
LEMMA WordsBounded ==
  ASSUME line \in Seq(Ezsh!Chars)
  PROVE  Ezsh!Words \in Nat /\ Ezsh!Words <= Len(line)
<1> DEFINE starts == {k \in 1..Len(line) : line[k] = "w" /\ (k = 1 \/ line[k - 1] = "_")}
<1>1. Len(line) \in Nat
  OBVIOUS
<1>2. IsFiniteSet(1..Len(line)) /\ Cardinality(1..Len(line)) = Len(line)
  BY <1>1, FS_Interval
<1>3. starts \subseteq 1..Len(line)
  OBVIOUS
<1>4. IsFiniteSet(starts) /\ Cardinality(starts) \in Nat /\ Cardinality(starts) <= Len(line)
  BY <1>2, <1>3, FS_Subset, FS_CardinalityType, ZenonT(60)
<1>5. Ezsh!Words = Cardinality(starts)
  BY DEF Ezsh!Words, Ezsh!Cardinality, Cardinality
<1> QED
  BY <1>4, <1>5

\* Lines that are not touched keep their words.
LEMMA WordsKept == ASSUME UNCHANGED line PROVE Ezsh!Words' = Ezsh!Words
BY DEF Ezsh!Words

\* What split_line hands to execute, as a function.
LEMMA ArgvIs ==
  ASSUME NEW q \in Seq(Int), NEW w \in Nat, Len(q) = w + 1,
         \A k \in 1..w : q[k] = k, q[w + 1] = 0
  PROVE  q = [k \in 1..w + 1 |-> IF k <= w THEN k ELSE 0]
<1>1. DOMAIN q = 1..w + 1 /\ q = [k \in DOMAIN q |-> q[k]]
  OBVIOUS
<1>2. \A k \in 1..w + 1 : q[k] = IF k <= w THEN k ELSE 0
  OBVIOUS
<1> QED
  BY <1>1, <1>2

\* The variables of shell.c keep their types; strtok stops at the last word.
LEMMA EzTypeStep ==
  ASSUME Ezsh!ShellAssumption, EzInv, [Ezsh!Next]_(Ezsh!vars)
  PROVE  Ezsh!TypeOK'
<1> USE WordsBounded, WordsKept
    DEF EzInv, Ezsh!TypeOK, Ezsh!ShellAssumption, Ezsh!NextLine, LineHeld, Splitting,
        Ezsh!NULL, Ezsh!ARRAY
<1>1. ASSUME NEW c \in Ezsh!Chars, Ezsh!ReadChar(c) PROVE Ezsh!TypeOK'
  BY <1>1 DEF Ezsh!ReadChar
<1>2. CASE Ezsh!EndOfLine
  <2>1. line' \in Seq(Ezsh!Chars) /\ tokens' \in Seq(Int)
    BY <1>2 DEF Ezsh!EndOfLine
  <2>2. lines' \in 0..MaxLines /\ cap' \in Nat /\ next' \in 1..MaxLine + 1
    BY <1>2 DEF Ezsh!EndOfLine
  <2>3. moved' \in BOOLEAN /\ crowded' \in BOOLEAN /\ wild' \in BOOLEAN
    BY <1>2 DEF Ezsh!EndOfLine
  <2> QED
    BY <1>2, <2>1, <2>2, <2>3 DEF Ezsh!EndOfLine
<1>3. CASE Ezsh!EndOfInput
  BY <1>3 DEF Ezsh!EndOfInput
<1>4. CASE Ezsh!NoArray
  BY <1>4 DEF Ezsh!NoArray
<1>5. ASSUME NEW r \in {"grows", "moves", "fails"}, Ezsh!StoreToken(r) PROVE Ezsh!TypeOK'
  BY <1>5 DEF Ezsh!StoreToken
<1>6. CASE Ezsh!EndTokens
  BY <1>6 DEF Ezsh!EndTokens
<1>7. CASE Ezsh!Builtin
  <2>1. line' \in Seq(Ezsh!Chars) /\ tokens' \in Seq(Int)
    BY <1>7 DEF Ezsh!Builtin
  <2>2. lines' \in 0..MaxLines /\ cap' \in Nat /\ next' \in 1..MaxLine + 1
    BY <1>7 DEF Ezsh!Builtin
  <2>3. moved' \in BOOLEAN /\ crowded' \in BOOLEAN /\ wild' \in BOOLEAN
    BY <1>7 DEF Ezsh!Builtin
  <2> QED
    BY <1>7, <2>1, <2>2, <2>3 DEF Ezsh!Builtin
<1>8. CASE Ezsh!ExitCommand
  BY <1>8 DEF Ezsh!ExitCommand
<1>9. CASE Ezsh!Launch
  BY <1>9 DEF Ezsh!Launch
<1>10. CASE Ezsh!LaunchFails
  BY <1>10 DEF Ezsh!LaunchFails
<1>11. CASE Ezsh!ExecFails
  BY <1>11 DEF Ezsh!ExecFails
<1>12. CASE Ezsh!Exec
  BY <1>12 DEF Ezsh!Exec
<1>13. CASE Ezsh!CommandEnds
  BY <1>13 DEF Ezsh!CommandEnds
<1>14. CASE Ezsh!Wait
  <2>1. line' \in Seq(Ezsh!Chars) /\ tokens' \in Seq(Int)
    BY <1>14 DEF Ezsh!Wait
  <2>2. lines' \in 0..MaxLines /\ cap' \in Nat /\ next' \in 1..MaxLine + 1
    BY <1>14 DEF Ezsh!Wait
  <2>3. moved' \in BOOLEAN /\ crowded' \in BOOLEAN /\ wild' \in BOOLEAN
    BY <1>14 DEF Ezsh!Wait
  <2> QED
    BY <1>14, <2>1, <2>2, <2>3 DEF Ezsh!Wait
<1>15. CASE Ezsh!WaitFails
  BY <1>15 DEF Ezsh!WaitFails
<1>16. CASE Ezsh!Dies
  BY <1>16 DEF Ezsh!Dies
<1>17. CASE UNCHANGED Ezsh!vars
  BY <1>17 DEF Ezsh!vars
<1> QED
  BY <1>1, <1>2, <1>3, <1>4, <1>5, <1>6, <1>7, <1>8, <1>9, <1>10, <1>11, <1>12, <1>13,
     <1>14, <1>15, <1>16, <1>17
     DEF Ezsh!Next, Ezsh!Shell, Ezsh!User, Ezsh!Kid, Ezsh!Ended, Ezsh!vars

\* A full buffer is doubled before the next character is stored.
LEMMA LineHeldStep ==
  ASSUME Ezsh!ShellAssumption, EzInv, [Ezsh!Next]_(Ezsh!vars)
  PROVE  LineHeld'
<1> USE WordsBounded, WordsKept
    DEF EzInv, Ezsh!TypeOK, Ezsh!ShellAssumption, Ezsh!NextLine, LineHeld
<1>1. ASSUME NEW c \in Ezsh!Chars, Ezsh!ReadChar(c) PROVE LineHeld'
  BY <1>1 DEF Ezsh!ReadChar
<1>2. CASE Ezsh!EndOfLine
  BY <1>2 DEF Ezsh!EndOfLine
<1>3. CASE Ezsh!EndOfInput
  BY <1>3 DEF Ezsh!EndOfInput
<1>4. CASE Ezsh!NoArray
  BY <1>4 DEF Ezsh!NoArray
<1>5. ASSUME NEW r \in {"grows", "moves", "fails"}, Ezsh!StoreToken(r) PROVE LineHeld'
  BY <1>5 DEF Ezsh!StoreToken
<1>6. CASE Ezsh!EndTokens
  BY <1>6 DEF Ezsh!EndTokens
<1>7. CASE Ezsh!Builtin
  BY <1>7 DEF Ezsh!Builtin
<1>8. CASE Ezsh!ExitCommand
  BY <1>8 DEF Ezsh!ExitCommand
<1>9. CASE Ezsh!LaunchFails
  BY <1>9 DEF Ezsh!LaunchFails
<1>10. CASE Ezsh!Wait
  BY <1>10 DEF Ezsh!Wait
<1>11. CASE Ezsh!WaitFails
  BY <1>11 DEF Ezsh!WaitFails
<1>12. CASE Ezsh!Dies
  BY <1>12 DEF Ezsh!Dies
<1>13. CASE UNCHANGED <<line, cap, sh>>
  BY <1>13
<1> QED
  BY <1>1, <1>2, <1>3, <1>4, <1>5, <1>6, <1>7, <1>8, <1>9, <1>10, <1>11, <1>12, <1>13
     DEF Ezsh!Next, Ezsh!Shell, Ezsh!User, Ezsh!Kid, Ezsh!Ended, Ezsh!Launch,
         Ezsh!ExecFails, Ezsh!Exec, Ezsh!CommandEnds, Ezsh!vars, Ezsh!Launch

\* With few words the array is never full when a word or the NULL is stored.
LEMMA SplittingStep ==
  ASSUME Ezsh!ShellAssumption, EzInv, [Ezsh!Next]_(Ezsh!vars)
  PROVE  Splitting'
<1> USE WordsBounded, WordsKept
    DEF EzInv, Ezsh!TypeOK, Ezsh!ShellAssumption, Ezsh!NextLine, LineHeld, Splitting
<1>1. ASSUME NEW c \in Ezsh!Chars, Ezsh!ReadChar(c) PROVE Splitting'
  BY <1>1 DEF Ezsh!ReadChar
<1>2. CASE Ezsh!EndOfLine
  <2>1. Ezsh!Words \in Nat /\ Ezsh!Words' = Ezsh!Words /\ CAPINIT \in Nat
    BY <1>2 DEF Ezsh!EndOfLine
  <2>2. Ezsh!Words >= CAPINIT => crowded'
    BY <1>2, <2>1 DEF Ezsh!EndOfLine
  <2>3. cap' = CAPINIT /\ tokens' = <<>> /\ next' = 1 /\ ~moved'
    BY <1>2 DEF Ezsh!EndOfLine
  <2>4. Len(tokens') = next' - 1 /\ \A k \in 1..next' - 1 : tokens'[k] = k
    BY <2>3
  <2>5. next' <= Ezsh!Words' + 1
    BY <2>1, <2>3
  <2> QED
    BY <2>1, <2>2, <2>3, <2>4, <2>5
<1>3. CASE Ezsh!EndOfInput
  BY <1>3 DEF Ezsh!EndOfInput
<1>4. CASE Ezsh!NoArray
  BY <1>4 DEF Ezsh!NoArray
<1>5. ASSUME NEW r \in {"grows", "moves", "fails"}, Ezsh!StoreToken(r) PROVE Splitting'
  BY <1>5 DEF Ezsh!StoreToken
<1>6. CASE Ezsh!EndTokens
  BY <1>6 DEF Ezsh!EndTokens
<1>7. CASE Ezsh!Builtin
  BY <1>7 DEF Ezsh!Builtin
<1>8. CASE Ezsh!ExitCommand
  BY <1>8 DEF Ezsh!ExitCommand
<1>9. CASE Ezsh!Launch
  BY <1>9 DEF Ezsh!Launch
<1>10. CASE Ezsh!LaunchFails
  BY <1>10 DEF Ezsh!LaunchFails
<1>11. CASE Ezsh!ExecFails
  BY <1>11 DEF Ezsh!ExecFails
<1>12. CASE Ezsh!Exec
  BY <1>12 DEF Ezsh!Exec
<1>13. CASE Ezsh!CommandEnds
  BY <1>13 DEF Ezsh!CommandEnds
<1>14. CASE Ezsh!Wait
  BY <1>14 DEF Ezsh!Wait
<1>15. CASE Ezsh!WaitFails
  BY <1>15 DEF Ezsh!WaitFails
<1>16. CASE Ezsh!Dies
  BY <1>16 DEF Ezsh!Dies
<1>17. CASE UNCHANGED Ezsh!vars
  BY <1>17 DEF Ezsh!vars
<1> QED
  BY <1>1, <1>2, <1>3, <1>4, <1>5, <1>6, <1>7, <1>8, <1>9, <1>10, <1>11, <1>12, <1>13,
     <1>14, <1>15, <1>16, <1>17
     DEF Ezsh!Next, Ezsh!Shell, Ezsh!User, Ezsh!Kid, Ezsh!Ended, Ezsh!vars

\* A store leaves its memory only behind a line of too many words.
LEMMA EzFitsStep ==
  ASSUME Ezsh!ShellAssumption, EzInv, [Ezsh!Next]_(Ezsh!vars)
  PROVE  Ezsh!LineFits'
<1> USE WordsBounded, WordsKept
    DEF EzInv, Ezsh!TypeOK, Ezsh!ShellAssumption, Ezsh!NextLine, LineHeld, Splitting, Ezsh!LineFits
<1>1. ASSUME NEW c \in Ezsh!Chars, Ezsh!ReadChar(c) PROVE Ezsh!LineFits'
  BY <1>1 DEF Ezsh!ReadChar
<1>2. CASE Ezsh!EndOfLine
  BY <1>2 DEF Ezsh!EndOfLine
<1>3. CASE Ezsh!EndOfInput
  BY <1>3 DEF Ezsh!EndOfInput
<1>4. CASE Ezsh!NoArray
  BY <1>4 DEF Ezsh!NoArray
<1>5. ASSUME NEW r \in {"grows", "moves", "fails"}, Ezsh!StoreToken(r) PROVE Ezsh!LineFits'
  BY <1>5 DEF Ezsh!StoreToken
<1>6. CASE Ezsh!EndTokens
  BY <1>6 DEF Ezsh!EndTokens
<1>7. CASE Ezsh!Builtin
  BY <1>7 DEF Ezsh!Builtin
<1>8. CASE Ezsh!ExitCommand
  BY <1>8 DEF Ezsh!ExitCommand
<1>9. CASE Ezsh!Launch
  BY <1>9 DEF Ezsh!Launch
<1>10. CASE Ezsh!LaunchFails
  BY <1>10 DEF Ezsh!LaunchFails
<1>11. CASE Ezsh!ExecFails
  BY <1>11 DEF Ezsh!ExecFails
<1>12. CASE Ezsh!Exec
  BY <1>12 DEF Ezsh!Exec
<1>13. CASE Ezsh!CommandEnds
  BY <1>13 DEF Ezsh!CommandEnds
<1>14. CASE Ezsh!Wait
  BY <1>14 DEF Ezsh!Wait
<1>15. CASE Ezsh!WaitFails
  BY <1>15 DEF Ezsh!WaitFails
<1>16. CASE Ezsh!Dies
  BY <1>16 DEF Ezsh!Dies
<1>17. CASE UNCHANGED Ezsh!vars
  BY <1>17 DEF Ezsh!vars
<1> QED
  BY <1>1, <1>2, <1>3, <1>4, <1>5, <1>6, <1>7, <1>8, <1>9, <1>10, <1>11, <1>12, <1>13,
     <1>14, <1>15, <1>16, <1>17
     DEF Ezsh!Next, Ezsh!Shell, Ezsh!User, Ezsh!Kid, Ezsh!Ended, Ezsh!vars

\* The words are stored in their order, the NULL behind them.
LEMMA FewWordsStep ==
  ASSUME Ezsh!ShellAssumption, EzInv, [Ezsh!Next]_(Ezsh!vars)
  PROVE  Ezsh!FewWordsSplit'
<1> USE WordsBounded, WordsKept
    DEF EzInv, Ezsh!TypeOK, Ezsh!ShellAssumption, Ezsh!NextLine, Splitting, Ezsh!FewWordsSplit
<1>1. ASSUME NEW c \in Ezsh!Chars, Ezsh!ReadChar(c) PROVE Ezsh!FewWordsSplit'
  BY <1>1 DEF Ezsh!ReadChar
<1>2. CASE Ezsh!EndOfLine
  BY <1>2 DEF Ezsh!EndOfLine
<1>3. CASE Ezsh!EndOfInput
  BY <1>3 DEF Ezsh!EndOfInput
<1>4. CASE Ezsh!NoArray
  BY <1>4 DEF Ezsh!NoArray
<1>5. ASSUME NEW r \in {"grows", "moves", "fails"}, Ezsh!StoreToken(r) PROVE Ezsh!FewWordsSplit'
  BY <1>5 DEF Ezsh!StoreToken
<1>6. CASE Ezsh!EndTokens
  <2>1. UNCHANGED line /\ Ezsh!Words \in Nat
    BY <1>6 DEF Ezsh!EndTokens
  <2>2. ASSUME Ezsh!Words < CAPINIT
        PROVE  tokens' = [k \in 1..Ezsh!Words + 1 |-> IF k <= Ezsh!Words THEN k ELSE 0]
    <3>1. next = Ezsh!Words + 1 /\ Len(tokens) = Ezsh!Words
      BY <1>6, <2>1, <2>2 DEF Ezsh!EndTokens
    <3>2. \A k \in 1..Ezsh!Words : tokens[k] = k
      BY <1>6, <2>1, <2>2, <3>1 DEF Ezsh!EndTokens
    <3>3. tokens' = Append(tokens, 0) /\ tokens \in Seq(Int)
      BY <1>6 DEF Ezsh!EndTokens, Ezsh!NULL
    <3>4. /\ tokens' \in Seq(Int) /\ Len(tokens') = Ezsh!Words + 1
          /\ \A k \in 1..Ezsh!Words : tokens'[k] = k
          /\ tokens'[Ezsh!Words + 1] = 0
      BY <2>1, <3>1, <3>2, <3>3
    <3> QED
      BY <2>1, <3>4, ArgvIs
  <2>3. Ezsh!Words' = Ezsh!Words
    BY <2>1
  <2> QED
    BY <2>2, <2>3 DEF Ezsh!NULL
<1>7. CASE Ezsh!Builtin
  BY <1>7 DEF Ezsh!Builtin
<1>8. CASE Ezsh!ExitCommand
  BY <1>8 DEF Ezsh!ExitCommand
<1>9. CASE Ezsh!Launch
  BY <1>9 DEF Ezsh!Launch
<1>10. CASE Ezsh!LaunchFails
  BY <1>10 DEF Ezsh!LaunchFails
<1>11. CASE Ezsh!ExecFails
  BY <1>11 DEF Ezsh!ExecFails
<1>12. CASE Ezsh!Exec
  BY <1>12 DEF Ezsh!Exec
<1>13. CASE Ezsh!CommandEnds
  BY <1>13 DEF Ezsh!CommandEnds
<1>14. CASE Ezsh!Wait
  BY <1>14 DEF Ezsh!Wait
<1>15. CASE Ezsh!WaitFails
  BY <1>15 DEF Ezsh!WaitFails
<1>16. CASE Ezsh!Dies
  BY <1>16 DEF Ezsh!Dies
<1>17. CASE UNCHANGED Ezsh!vars
  BY <1>17 DEF Ezsh!vars
<1> QED
  BY <1>1, <1>2, <1>3, <1>4, <1>5, <1>6, <1>7, <1>8, <1>9, <1>10, <1>11, <1>12, <1>13,
     <1>14, <1>15, <1>16, <1>17
     DEF Ezsh!Next, Ezsh!Shell, Ezsh!User, Ezsh!Kid, Ezsh!Ended, Ezsh!vars

\* fork leads to wait, and wait reaps.
LEMMA ChildStep ==
  ASSUME Ezsh!ShellAssumption, EzInv, [Ezsh!Next]_(Ezsh!vars)
  PROVE  ChildAwaited'
<1> USE WordsBounded, WordsKept
    DEF EzInv, Ezsh!TypeOK, Ezsh!ShellAssumption, Ezsh!NextLine, ChildAwaited
<1>1. ASSUME NEW c \in Ezsh!Chars, Ezsh!ReadChar(c) PROVE ChildAwaited'
  BY <1>1 DEF Ezsh!ReadChar
<1>2. CASE Ezsh!EndOfLine
  BY <1>2 DEF Ezsh!EndOfLine
<1>3. CASE Ezsh!EndOfInput
  BY <1>3 DEF Ezsh!EndOfInput
<1>4. CASE Ezsh!NoArray
  BY <1>4 DEF Ezsh!NoArray
<1>5. ASSUME NEW r \in {"grows", "moves", "fails"}, Ezsh!StoreToken(r) PROVE ChildAwaited'
  BY <1>5 DEF Ezsh!StoreToken
<1>6. CASE Ezsh!EndTokens
  BY <1>6 DEF Ezsh!EndTokens
<1>7. CASE Ezsh!Builtin
  BY <1>7 DEF Ezsh!Builtin
<1>8. CASE Ezsh!ExitCommand
  BY <1>8 DEF Ezsh!ExitCommand
<1>9. CASE Ezsh!Launch
  BY <1>9 DEF Ezsh!Launch
<1>10. CASE Ezsh!LaunchFails
  BY <1>10 DEF Ezsh!LaunchFails
<1>11. CASE Ezsh!ExecFails
  BY <1>11 DEF Ezsh!ExecFails
<1>12. CASE Ezsh!Exec
  BY <1>12 DEF Ezsh!Exec
<1>13. CASE Ezsh!CommandEnds
  BY <1>13 DEF Ezsh!CommandEnds
<1>14. CASE Ezsh!Wait
  BY <1>14 DEF Ezsh!Wait
<1>15. CASE Ezsh!WaitFails
  BY <1>15 DEF Ezsh!WaitFails
<1>16. CASE Ezsh!Dies
  BY <1>16 DEF Ezsh!Dies
<1>17. CASE UNCHANGED Ezsh!vars
  BY <1>17 DEF Ezsh!vars
<1> QED
  BY <1>1, <1>2, <1>3, <1>4, <1>5, <1>6, <1>7, <1>8, <1>9, <1>10, <1>11, <1>12, <1>13,
     <1>14, <1>15, <1>16, <1>17
     DEF Ezsh!Next, Ezsh!Shell, Ezsh!User, Ezsh!Kid, Ezsh!Ended, Ezsh!vars

\* shell.c starts with an empty line.
LEMMA EzInitially == ASSUME Ezsh!ShellAssumption, Ezsh!Init PROVE EzInv
<1> USE DEF Ezsh!Init, Ezsh!ShellAssumption
<1>1. Ezsh!TypeOK
  <2>1. line \in Seq(Ezsh!Chars) /\ tokens \in Seq(Int)
    OBVIOUS
  <2>2. lines \in 0..MaxLines /\ cap \in Nat /\ next \in 1..MaxLine + 1
    OBVIOUS
  <2>3. moved \in BOOLEAN /\ crowded \in BOOLEAN /\ wild \in BOOLEAN
    OBVIOUS
  <2> QED
    BY <2>1, <2>2, <2>3 DEF Ezsh!TypeOK
<1>2. LineHeld
  BY DEF LineHeld
<1>3. Splitting /\ ChildAwaited /\ Ezsh!LineFits /\ Ezsh!FewWordsSplit
  BY DEF Splitting, ChildAwaited, Ezsh!LineFits, Ezsh!FewWordsSplit
<1> QED
  BY <1>1, <1>2, <1>3 DEF EzInv

\* Every step of shell.c preserves its invariant.
LEMMA EzStep ==
  ASSUME Ezsh!ShellAssumption, EzInv, [Ezsh!Next]_(Ezsh!vars)
  PROVE  EzInv'
BY EzTypeStep, LineHeldStep, SplittingStep, EzFitsStep, FewWordsStep, ChildStep DEF EzInv

-----------------------------------------------------------------------------
(* listener.c and talker.c *)

\* A socket is open from socket to the failure of bind, and there is an address
\* left as long as one is tried.
Sockets ==
  /\ lst = "socket" => socks = 0
  /\ lst \in {"bind", "recv", "input", "reply"} => socks = 1 /\ addrs > 0
  /\ lst = "ended" /\ addrs = 0 => socks = 0

\* The listener answers the datagram it took last, and every reply under way or
\* printed has the number of a datagram of its receiver.
Replies ==
  /\ lst \in {"input", "reply"} => Len(asked) > 0 /\ peer = asked[Len(asked)]
  /\ \A m \in back : asked[m[2]] = m[1]
  /\ shown \in [Talkers -> Nat]
  /\ \A t \in Talkers : tst[t] = "printed" => shown[t] \in 1..Len(asked) /\ asked[shown[t]] = t

\* The buffer is the smallest one that holds what was typed of the reply.
ReplyHeld ==
  lst = "input" =>
    /\ n < MaxReply
    /\ \E k \in 0..MaxReply :
         /\ ucap = Talk!Capacity[k] /\ n <= ucap
         /\ \A j \in 0..MaxReply : j < k => Talk!Capacity[j] < n

\* The inductive invariant of listener.c and talker.c.
TalkInv == Talk!TypeOK /\ Sockets /\ Replies /\ ReplyHeld /\ Talk!OverrunsExactly

\* The recursive definition of the capacities means what it says: there is such a
\* function.
LEMMA CapacityDef ==
  ASSUME Talk!TalkAssumption
  PROVE  /\ Talk!Capacity \in [0..MaxReply -> Nat]
         /\ Talk!Capacity[0] = BUFINIT
         /\ \A k \in 1..MaxReply : Talk!Capacity[k] = 2 * Talk!Capacity[k - 1]
<1> USE DEF Talk!TalkAssumption
<1> DEFINE Doubles(m) == {g \in [0..m -> Nat] :
                            g[0] = BUFINIT /\ \A k \in 1..m : g[k] = 2 * g[k - 1]}
           S == {m \in Nat : Doubles(m) # {}}
<1>1. 0 \in S
  <2>1. [k \in 0..0 |-> BUFINIT] \in Doubles(0)
    OBVIOUS
  <2> QED
    BY <2>1
<1>2. ASSUME NEW m \in Nat, m \in S PROVE m + 1 \in S
  <2>1. PICK g \in [0..m -> Nat] : g[0] = BUFINIT /\ \A k \in 1..m : g[k] = 2 * g[k - 1]
    BY <1>2
  <2> DEFINE h == [k \in 0..m + 1 |-> IF k = m + 1 THEN 2 * g[m] ELSE g[k]]
  <2>2. h \in [0..m + 1 -> Nat]
    BY <2>1
  <2>3. h[0] = BUFINIT
    BY <2>1
  <2>4. \A k \in 1..m + 1 : h[k] = 2 * h[k - 1]
    BY <2>1
  <2> HIDE DEF h
  <2>5. h \in Doubles(m + 1)
    BY <2>2, <2>3, <2>4
  <2>6. m + 1 \in Nat
    OBVIOUS
  <2> HIDE DEF Doubles
  <2> QED
    BY <2>5, <2>6
<1> HIDE DEF S
<1>3. MaxReply \in S
  BY <1>1, <1>2, NatSetInduction
<1>4. PICK g \in [0..MaxReply -> Nat] :
        g[0] = BUFINIT /\ \A k \in 1..MaxReply : g[k] = 2 * g[k - 1]
  BY <1>3 DEF S
<1>5. g = [k \in 0..MaxReply |-> IF k = 0 THEN BUFINIT ELSE 2 * g[k - 1]]
  BY <1>4
<1> DEFINE c == Talk!Capacity
<1>6. c = [k \in 0..MaxReply |-> IF k = 0 THEN BUFINIT ELSE 2 * c[k - 1]]
  BY <1>5 DEF Talk!Capacity
<1> HIDE DEF c
<1>7. /\ DOMAIN c = 0..MaxReply /\ c[0] = BUFINIT
      /\ \A k \in 1..MaxReply : c[k] = 2 * c[k - 1]
  BY <1>6
<1>8. \A m \in Nat : m \in 0..MaxReply => c[m] \in Nat
  <2> DEFINE T == {m \in Nat : m \in 0..MaxReply => c[m] \in Nat}
  <2>1. 0 \in T
    BY <1>7
  <2>2. ASSUME NEW m \in Nat, m \in T PROVE m + 1 \in T
    <3>1. ASSUME m + 1 \in 0..MaxReply PROVE c[m + 1] \in Nat
      <4>1. m \in 0..MaxReply /\ m + 1 \in 1..MaxReply /\ (m + 1) - 1 = m
        BY <3>1
      <4>2. c[m + 1] = 2 * c[m] /\ c[m] \in Nat
        BY <1>7, <2>2, <4>1
      <4> QED
        BY <4>2
    <3> QED
      BY <3>1
  <2> HIDE DEF T
  <2>3. \A m \in Nat : m \in T
    BY <2>1, <2>2, NatSetInduction
  <2> QED
    BY <2>3 DEF T
<1>9. c \in [0..MaxReply -> Nat]
  BY <1>6, <1>8
<1> QED
  BY <1>7, <1>9 DEF c

\* Capacities grow, and faster than their number.
LEMMA CapacityGrows ==
  ASSUME Talk!TalkAssumption
  PROVE  /\ \A k \in 0..MaxReply : Talk!Capacity[k] \in Nat /\ Talk!Capacity[k] > k
         /\ \A k \in 0..MaxReply : \A j \in 0..MaxReply :
              j < k => Talk!Capacity[j] < Talk!Capacity[k]
<1> USE DEF Talk!TalkAssumption
<1> DEFINE c == Talk!Capacity
           S == {m \in Nat : m \in 0..MaxReply =>
                   c[m] > m /\ \A j \in 0..MaxReply : j < m => c[j] < c[m]}
<1>1. /\ \A k \in 0..MaxReply : c[k] \in Nat
      /\ c[0] = BUFINIT /\ \A k \in 1..MaxReply : c[k] = 2 * c[k - 1]
  BY CapacityDef
<1> HIDE DEF c
<1>2. 0 \in S
  BY <1>1
<1>3. ASSUME NEW m \in Nat, m \in S PROVE m + 1 \in S
  <2> SUFFICES ASSUME m + 1 \in 0..MaxReply
               PROVE  c[m + 1] > m + 1 /\ \A j \in 0..MaxReply : j < m + 1 => c[j] < c[m + 1]
    OBVIOUS
  <2>1. m \in 0..MaxReply /\ m + 1 \in 1..MaxReply /\ (m + 1) - 1 = m
    OBVIOUS
  <2>2. c[m + 1] = 2 * c[m] /\ c[m] \in Nat /\ c[m] > m
    BY <1>1, <1>3, <2>1
  <2>3. ASSUME NEW j \in 0..MaxReply, j < m + 1 PROVE c[j] < c[m + 1]
    <3>1. j = m \/ c[j] < c[m]
      BY <1>3, <2>1, <2>3
    <3>2. c[j] \in Nat
      BY <1>1
    <3> QED
      BY <2>2, <3>1, <3>2
  <2> QED
    BY <2>2, <2>3
<1> HIDE DEF S
<1>4. \A m \in Nat : m \in S
  BY <1>2, <1>3, NatSetInduction
<1>5. \A k \in 0..MaxReply : k \in Nat
  OBVIOUS
<1>6. \A k \in 0..MaxReply :
        c[k] \in Nat /\ c[k] > k /\ \A j \in 0..MaxReply : j < k => c[j] < c[k]
  BY <1>1, <1>4, <1>5 DEF S
<1> QED
  BY <1>6 DEF c

\* The variables keep their types: a reply has the number of a message taken.
LEMMA TalkTypeStep ==
  ASSUME Talk!TalkAssumption, TalkInv, [Talk!Next]_(Talk!vars)
  PROVE  Talk!TypeOK'
<1> USE DEF TalkInv, Talk!TypeOK, Talk!TalkAssumption, Talk!startup, Talk!input, Talk!net,
        Sockets, Replies, ReplyHeld
<1>1. CASE Talk!Socket
  BY <1>1 DEF Talk!Socket
<1>2. CASE Talk!SocketFails
  BY <1>2 DEF Talk!SocketFails
<1>3. CASE Talk!Bind
  BY <1>3 DEF Talk!Bind
<1>4. CASE Talk!BindFails
  BY <1>4 DEF Talk!BindFails
<1>5. CASE Talk!NoAddress
  BY <1>5 DEF Talk!NoAddress
<1>6. ASSUME NEW t \in Talkers, NEW again \in BOOLEAN, Talk!HandleMessage(t, again) PROVE Talk!TypeOK'
  BY <1>6 DEF Talk!HandleMessage
<1>7. CASE Talk!TypeChar
  BY <1>7 DEF Talk!TypeChar
<1>8. CASE Talk!Newline
  BY <1>8 DEF Talk!Newline
<1>9. CASE Talk!EndOfInput
  BY <1>9 DEF Talk!EndOfInput
<1>10. CASE Talk!Reply
  BY <1>10 DEF Talk!Reply
<1>11. CASE Talk!ReplyFails
  BY <1>11 DEF Talk!ReplyFails
<1>12. CASE Talk!Dies
  BY <1>12 DEF Talk!Dies
<1>13. ASSUME NEW t \in Talkers, NEW found \in BOOLEAN, Talk!TalkerInit(t, found) PROVE Talk!TypeOK'
  BY <1>13 DEF Talk!TalkerInit
<1>14. ASSUME NEW t \in Talkers, Talk!TalkerSends(t) PROVE Talk!TypeOK'
  BY <1>14 DEF Talk!TalkerSends
<1>15. ASSUME NEW t \in Talkers, Talk!TalkerFails(t) PROVE Talk!TypeOK'
  BY <1>15 DEF Talk!TalkerFails
<1>16. ASSUME NEW t \in Talkers, NEW k \in 1..Len(asked), Talk!TalkerPrints(t, k) PROVE Talk!TypeOK'
  BY <1>16 DEF Talk!TalkerPrints
<1>17. CASE Talk!Lose
  BY <1>17 DEF Talk!Lose
<1>18. CASE UNCHANGED Talk!vars
  BY <1>18 DEF Talk!vars
<1> QED
  BY <1>1, <1>2, <1>3, <1>4, <1>5, <1>6, <1>7, <1>8, <1>9, <1>10, <1>11, <1>12, <1>13,
     <1>14, <1>15, <1>16, <1>17, <1>18
     DEF Talk!Next, Talk!Listener, Talk!User, Talk!Talker, Talk!Rest, Talk!vars

\* A socket that cannot be bound is closed before the next is tried.
LEMMA SocketsStep ==
  ASSUME Talk!TalkAssumption, TalkInv, [Talk!Next]_(Talk!vars)
  PROVE  Sockets'
<1> USE DEF TalkInv, Talk!TypeOK, Talk!TalkAssumption, Talk!startup, Talk!input, Talk!net, Sockets
<1>1. CASE Talk!Socket
  BY <1>1 DEF Talk!Socket
<1>2. CASE Talk!SocketFails
  BY <1>2 DEF Talk!SocketFails
<1>3. CASE Talk!Bind
  BY <1>3 DEF Talk!Bind
<1>4. CASE Talk!BindFails
  BY <1>4 DEF Talk!BindFails
<1>5. CASE Talk!NoAddress
  BY <1>5 DEF Talk!NoAddress
<1>6. ASSUME NEW t \in Talkers, NEW again \in BOOLEAN, Talk!HandleMessage(t, again) PROVE Sockets'
  BY <1>6 DEF Talk!HandleMessage
<1>7. CASE Talk!Newline
  BY <1>7 DEF Talk!Newline
<1>8. CASE Talk!EndOfInput
  BY <1>8 DEF Talk!EndOfInput
<1>9. CASE Talk!Reply
  BY <1>9 DEF Talk!Reply
<1>10. CASE Talk!ReplyFails
  BY <1>10 DEF Talk!ReplyFails
<1>11. CASE Talk!Dies
  BY <1>11 DEF Talk!Dies
<1>12. CASE UNCHANGED <<lst, addrs, socks>>
  BY <1>12
<1> QED
  BY <1>1, <1>2, <1>3, <1>4, <1>5, <1>6, <1>7, <1>8, <1>9, <1>10, <1>11, <1>12
     DEF Talk!Next, Talk!Listener, Talk!User, Talk!Talker, Talk!Rest, Talk!TypeChar,
         Talk!TalkerInit, Talk!TalkerSends, Talk!TalkerFails, Talk!TalkerPrints,
         Talk!Lose, Talk!vars

\* Numbers of datagrams never change, and the peer is the one who sent the last.
LEMMA RepliesStep ==
  ASSUME Talk!TalkAssumption, TalkInv, [Talk!Next]_(Talk!vars)
  PROVE  Replies'
<1> USE DEF TalkInv, Talk!TypeOK, Talk!TalkAssumption, Talk!startup, Talk!input, Talk!net, Replies
<1>1. CASE Talk!Socket
  BY <1>1 DEF Talk!Socket
<1>2. CASE Talk!SocketFails
  BY <1>2 DEF Talk!SocketFails
<1>3. CASE Talk!Bind
  BY <1>3 DEF Talk!Bind
<1>4. CASE Talk!BindFails
  BY <1>4 DEF Talk!BindFails
<1>5. CASE Talk!NoAddress
  BY <1>5 DEF Talk!NoAddress
<1>6. ASSUME NEW t \in Talkers, NEW again \in BOOLEAN, Talk!HandleMessage(t, again) PROVE Replies'
  BY <1>6 DEF Talk!HandleMessage
<1>7. CASE Talk!TypeChar
  BY <1>7 DEF Talk!TypeChar
<1>8. CASE Talk!Newline
  BY <1>8 DEF Talk!Newline
<1>9. CASE Talk!EndOfInput
  BY <1>9 DEF Talk!EndOfInput
<1>10. CASE Talk!Reply
  BY <1>10 DEF Talk!Reply
<1>11. CASE Talk!ReplyFails
  BY <1>11 DEF Talk!ReplyFails
<1>12. CASE Talk!Dies
  BY <1>12 DEF Talk!Dies
<1>13. ASSUME NEW t \in Talkers, NEW found \in BOOLEAN, Talk!TalkerInit(t, found) PROVE Replies'
  BY <1>13 DEF Talk!TalkerInit
<1>14. ASSUME NEW t \in Talkers, Talk!TalkerSends(t) PROVE Replies'
  BY <1>14 DEF Talk!TalkerSends
<1>15. ASSUME NEW t \in Talkers, Talk!TalkerFails(t) PROVE Replies'
  BY <1>15 DEF Talk!TalkerFails
<1>16. ASSUME NEW t \in Talkers, NEW k \in 1..Len(asked), Talk!TalkerPrints(t, k) PROVE Replies'
  BY <1>16 DEF Talk!TalkerPrints
<1>17. CASE Talk!Lose
  BY <1>17 DEF Talk!Lose
<1>18. CASE UNCHANGED Talk!vars
  BY <1>18 DEF Talk!vars
<1> QED
  BY <1>1, <1>2, <1>3, <1>4, <1>5, <1>6, <1>7, <1>8, <1>9, <1>10, <1>11, <1>12, <1>13,
     <1>14, <1>15, <1>16, <1>17, <1>18
     DEF Talk!Next, Talk!Listener, Talk!User, Talk!Talker, Talk!Rest, Talk!vars

\* The next character finds the smallest capacity that holds it.
LEMMA CapacityNext ==
  ASSUME Talk!TalkAssumption, TalkInv, lst = "input",
         ucap' = IF n = ucap THEN 2 * ucap ELSE ucap
  PROVE  \E k \in 0..MaxReply :
           /\ ucap' = Talk!Capacity[k] /\ n + 1 <= ucap'
           /\ \A j \in 0..MaxReply : j < k => Talk!Capacity[j] < n + 1
<1> USE DEF Talk!TalkAssumption
<1> DEFINE c == Talk!Capacity
<1>1. /\ \A k \in 0..MaxReply : c[k] \in Nat /\ c[k] > k
      /\ \A k \in 1..MaxReply : c[k] = 2 * c[k - 1]
      /\ \A k \in 0..MaxReply : \A j \in 0..MaxReply : j < k => c[j] < c[k]
  BY CapacityDef, CapacityGrows
<1>2. n \in Nat /\ n < MaxReply
  BY DEF TalkInv, Talk!TypeOK, ReplyHeld
<1>3. PICK k \in 0..MaxReply :
        ucap = c[k] /\ n <= ucap /\ \A j \in 0..MaxReply : j < k => c[j] < n
  BY DEF TalkInv, ReplyHeld
<1> HIDE DEF c
<1>4. CASE n = ucap
  <2>1. k + 1 \in 1..MaxReply /\ k + 1 \in 0..MaxReply /\ (k + 1) - 1 = k
    BY <1>1, <1>2, <1>3, <1>4
  <2>2. ucap' = c[k + 1] /\ n + 1 <= ucap'
    BY <1>1, <1>2, <1>3, <1>4, <2>1
  <2>3. ASSUME NEW j \in 0..MaxReply, j < k + 1 PROVE c[j] < n + 1
    <3>1. j = k \/ c[j] < n
      BY <1>3, <2>3
    <3> QED
      BY <1>1, <1>2, <1>3, <1>4, <3>1
  <2> QED
    BY <2>1, <2>2, <2>3 DEF c
<1>5. CASE n # ucap
  <2>1. ucap' = c[k] /\ n + 1 <= ucap'
    BY <1>1, <1>2, <1>3, <1>5, SMTT(30)
  <2>2. \A j \in 0..MaxReply : j < k => c[j] < n + 1
    BY <1>1, <1>2, <1>3
  <2> QED
    BY <2>1, <2>2 DEF c
<1> QED
  BY <1>4, <1>5

\* input_reply doubles a full buffer before it stores the next character.
LEMMA ReplyHeldStep ==
  ASSUME Talk!TalkAssumption, TalkInv, [Talk!Next]_(Talk!vars)
  PROVE  ReplyHeld'
<1> USE DEF TalkInv, Talk!TypeOK, Talk!TalkAssumption, Talk!input, ReplyHeld
<1>1. ASSUME NEW t \in Talkers, NEW again \in BOOLEAN, Talk!HandleMessage(t, again)
      PROVE  ReplyHeld'
  <2>1. n' = 0 /\ ucap' = BUFINIT
    BY <1>1 DEF Talk!HandleMessage
  <2>2. /\ 0 \in 0..MaxReply /\ ucap' = Talk!Capacity[0] /\ n' <= ucap' /\ n' < MaxReply
        /\ \A j \in 0..MaxReply : ~(j < 0)
    BY <2>1, CapacityDef
  <2> QED
    BY <2>2
<1>2. CASE Talk!TypeChar
  <2>1. n' = n + 1 /\ n' < MaxReply
    BY <1>2 DEF Talk!TypeChar
  <2>2. \E k \in 0..MaxReply :
          /\ ucap' = Talk!Capacity[k] /\ n' <= ucap'
          /\ \A j \in 0..MaxReply : j < k => Talk!Capacity[j] < n'
    BY <1>2, <2>1, CapacityNext DEF Talk!TypeChar
  <2> QED
    BY <2>1, <2>2
<1>3. CASE lst' # "input"
  BY <1>3
<1>4. CASE UNCHANGED <<lst, n, ucap>>
  BY <1>4
<1> QED
  BY <1>1, <1>2, <1>3, <1>4
     DEF Talk!Next, Talk!Listener, Talk!User, Talk!Talker, Talk!Rest, Talk!Socket,
         Talk!SocketFails, Talk!Bind, Talk!BindFails, Talk!NoAddress, Talk!Newline,
         Talk!EndOfInput, Talk!Reply, Talk!ReplyFails, Talk!Dies, Talk!TalkerInit,
         Talk!TalkerSends, Talk!TalkerFails, Talk!TalkerPrints, Talk!Lose, Talk!vars

\* The 0 behind the newline leaves the buffer exactly if the reply fills it.
LEMMA OverrunsStep ==
  ASSUME Talk!TalkAssumption, TalkInv, [Talk!Next]_(Talk!vars)
  PROVE  Talk!OverrunsExactly'
<1> USE DEF TalkInv, Talk!TypeOK, Talk!TalkAssumption, Talk!input
<1>1. CASE Talk!Newline
  <2> DEFINE c == Talk!Capacity
  <2>1. /\ n \in Nat /\ n' = n + 1 /\ lens' = lens \union {n + 1}
        /\ uwild \in BOOLEAN /\ uwild' = (uwild \/ n + 1 >= ucap')
    BY <1>1 DEF Talk!Newline
  <2>2. PICK k \in 0..MaxReply :
          ucap' = c[k] /\ n + 1 <= ucap' /\ \A j \in 0..MaxReply : j < k => c[j] < n + 1
    BY <1>1, CapacityNext DEF Talk!Newline
  <2>3. /\ \A m \in 0..MaxReply : c[m] \in Nat
        /\ \A m \in 0..MaxReply : \A j \in 0..MaxReply : j < m => c[j] < c[m]
    BY CapacityGrows
  <2> HIDE DEF c
  <2>4. n + 1 >= ucap' <=> \E m \in 0..MaxReply : c[m] = n + 1
    <3>1. ASSUME n + 1 >= ucap' PROVE c[k] = n + 1
      BY <2>1, <2>2, <2>3, <3>1
    <3>2. ASSUME NEW m \in 0..MaxReply, c[m] = n + 1 PROVE n + 1 >= ucap'
      <4>1. ~(m < k)
        BY <2>1, <2>2, <3>2
      <4>2. k = m \/ c[k] < c[m]
        BY <2>3, <4>1
      <4> QED
        BY <2>1, <2>2, <2>3, <3>2, <4>2
    <3> QED
      BY <3>1, <3>2
  <2>5. (\E m \in 0..MaxReply : c[m] \in lens') <=>
          (\E m \in 0..MaxReply : c[m] \in lens) \/ (\E m \in 0..MaxReply : c[m] = n + 1)
    BY <2>1
  <2>6. uwild <=> \E m \in 0..MaxReply : c[m] \in lens
    BY DEF c, Talk!OverrunsExactly
  <2>7. uwild' <=> uwild \/ n + 1 >= ucap'
    BY <2>1
  <2>8. uwild' <=> \E m \in 0..MaxReply : c[m] \in lens'
    BY <2>4, <2>5, <2>6, <2>7
  <2> QED
    BY <2>8 DEF c, Talk!OverrunsExactly
<1>2. CASE UNCHANGED <<uwild, lens>>
  BY <1>2 DEF Talk!OverrunsExactly
<1> QED
  BY <1>1, <1>2
     DEF Talk!Next, Talk!Listener, Talk!User, Talk!Talker, Talk!Rest, Talk!Socket,
         Talk!SocketFails, Talk!Bind, Talk!BindFails, Talk!NoAddress, Talk!HandleMessage,
         Talk!TypeChar, Talk!EndOfInput, Talk!Reply, Talk!ReplyFails, Talk!Dies,
         Talk!TalkerInit, Talk!TalkerSends, Talk!TalkerFails, Talk!TalkerPrints, Talk!Lose,
         Talk!vars

\* listener.c and talker.c start with no datagram taken and none under way.
LEMMA TalkInitially == ASSUME Talk!TalkAssumption, Talk!Init PROVE TalkInv
<1> USE DEF Talk!Init, Talk!TalkAssumption
<1>1. Talk!TypeOK
  <2>1. asked \in Seq(Talkers) /\ n \in 0..MaxReply /\ dups \in 0..MaxDups
    OBVIOUS
  <2>2. uwild \in BOOLEAN /\ lossy \in BOOLEAN
    OBVIOUS
  <2> QED
    BY <2>1, <2>2 DEF Talk!TypeOK
<1>2. Sockets /\ ReplyHeld
  BY DEF Sockets, ReplyHeld
<1>3. Replies
  BY DEF Replies
<1>4. Talk!OverrunsExactly
  BY DEF Talk!OverrunsExactly
<1> QED
  BY <1>1, <1>2, <1>3, <1>4 DEF TalkInv

\* Every step of listener, talker and network preserves the invariant.
LEMMA TalkStep ==
  ASSUME Talk!TalkAssumption, TalkInv, [Talk!Next]_(Talk!vars)
  PROVE  TalkInv'
BY TalkTypeStep, SocketsStep, RepliesStep, ReplyHeldStep, OverrunsStep DEF TalkInv

\* What the invariant says of sockets and answers.
LEMMA TalkPromises == ASSUME TalkInv PROVE Talk!OneSocket /\ Talk!AnswersAsker
<1>1. Talk!OneSocket
  BY DEF TalkInv, Sockets, Talk!OneSocket
<1>2. Talk!AnswersAsker
  BY DEF TalkInv, Replies, Talk!AnswersAsker
<1> QED
  BY <1>1, <1>2

-----------------------------------------------------------------------------
(* feast.c *)

\* The inductive invariant of feast.c: the array has a record for every platter.
FeastInv ==
  /\ Table!TypeOK
  /\ platters \in [Table!Platters -> [dish : Dishes \union {Table!None}, uses : Int]]

\* An order touches one platter: the one that has the dish, or the first of the
\* least used.
LEMMA ServeKeepsPlatters ==
  ASSUME Table!FeastAssumption, FeastInv, NEW d \in Dishes, Table!Serve(d)
  PROVE  /\ platters' \in [Table!Platters -> [dish : Dishes \union {Table!None}, uses : Int]]
         /\ \A i \in Table!Platters :
              \/ platters'[i] = [dish |-> Table!None, uses |-> -1]
              \/ platters'[i].dish \in Dishes /\ platters'[i].uses \in Nat
         /\ fetches' \in Nat
<1> USE DEF FeastInv, Table!TypeOK, Table!FeastAssumption, Table!None
<1>1. fetches' \in Nat
  BY DEF Table!Serve, Table!Fetch
<1>3. ASSUME NEW h \in Table!Holding(d), platters' = [platters EXCEPT ![h].uses = @ + 1]
      PROVE  /\ platters' \in [Table!Platters -> [dish : Dishes \union {Table!None}, uses : Int]]
             /\ \A i \in Table!Platters :
                  \/ platters'[i] = [dish |-> Table!None, uses |-> -1]
                  \/ platters'[i].dish \in Dishes /\ platters'[i].uses \in Nat
  <2>1. h \in Table!Platters /\ platters[h].dish = d
    BY <1>3 DEF Table!Holding
  <2>2. platters[h].dish \in Dishes /\ platters[h].uses \in Nat
    BY <2>1
  <2>3. platters'[h] = [platters[h] EXCEPT !.uses = @ + 1]
    BY <1>3, <2>1
  <2>4. platters'[h].dish \in Dishes /\ platters'[h].uses \in Nat
    BY <2>1, <2>2, <2>3
  <2>5. \A i \in Table!Platters \ {h} : platters'[i] = platters[i]
    BY <1>3
  <2> DEFINE Records == [dish : Dishes \union {Table!None}, uses : Int]
  <2>6. /\ platters \in [Table!Platters -> Records]
        /\ [platters[h] EXCEPT !.uses = @ + 1] \in Records
    <3>1. platters \in [Table!Platters -> Records]
      OBVIOUS
    <3>2. platters[h] \in Records
      BY <2>1, <3>1
    <3>3. [platters[h] EXCEPT !.uses = @ + 1] = [dish |-> platters[h].dish, uses |-> platters[h].uses + 1]
      BY <3>2, SMTT(30)
    <3> QED
      BY <3>1, <3>3, <2>2
  <2> HIDE DEF Records
  <2>7. platters' \in [Table!Platters -> Records]
    BY <1>3, <2>1, <2>6
  <2> QED
    BY <2>4, <2>5, <2>7 DEF Records
<1>4. ASSUME Table!Fetch(d)
      PROVE  /\ platters' \in [Table!Platters -> [dish : Dishes \union {Table!None}, uses : Int]]
             /\ \A i \in Table!Platters :
                  \/ platters'[i] = [dish |-> Table!None, uses |-> -1]
                  \/ platters'[i].dish \in Dishes /\ platters'[i].uses \in Nat
  <2> DEFINE l == Table!Least
  <2>1. platters' = [platters EXCEPT ![l] = [dish |-> d, uses |-> 0]]
    BY <1>4 DEF Table!Fetch
  <2> HIDE DEF l
  <2>2. \A i \in Table!Platters :
          platters'[i] = IF i = l THEN [dish |-> d, uses |-> 0] ELSE platters[i]
    BY <2>1
  <2> DEFINE Records == [dish : Dishes \union {Table!None}, uses : Int]
  <2>3. platters \in [Table!Platters -> Records] /\ [dish |-> d, uses |-> 0] \in Records
    OBVIOUS
  <2> HIDE DEF Records
  <2>4. platters' \in [Table!Platters -> Records]
    BY <2>1, <2>3
  <2> QED
    BY <2>2, <2>4 DEF Records
<1> QED
  BY <1>1, <1>3, <1>4 DEF Table!Serve

\* feast.c starts with empty platters.
LEMMA FeastInitially == ASSUME Table!FeastAssumption, Table!Init PROVE FeastInv
<1> USE DEF Table!Init, Table!None
<1>1. platters \in [Table!Platters -> [dish : Dishes \union {Table!None}, uses : Int]]
  OBVIOUS
<1>2. eof \in BOOLEAN
  OBVIOUS
<1>3. served \in 0..MaxOrders
  BY DEF Table!FeastAssumption
<1>4. /\ \A i \in Table!Platters : platters[i] = [dish |-> Table!None, uses |-> -1]
      /\ fetches \in Nat /\ state \in {"serving", "done"}
  OBVIOUS
<1> QED
  BY <1>1, <1>2, <1>3, <1>4 DEF FeastInv, Table!TypeOK

\* Every step of feast.c preserves its invariant.
LEMMA FeastStep ==
  ASSUME Table!FeastAssumption, FeastInv, [Table!Next]_(Table!vars)
  PROVE  FeastInv'
<1>1. ASSUME NEW d \in Dishes, Table!Order(d) PROVE FeastInv'
  <2>1. Table!Serve(d) /\ UNCHANGED state /\ eof' \in BOOLEAN
    BY <1>1 DEF Table!Order
  <2>2. served' \in 0..MaxOrders
    BY <1>1 DEF Table!Order, Table!Serve, FeastInv, Table!TypeOK, Table!FeastAssumption
  <2>3. state' \in {"serving", "done"}
    BY <2>1 DEF FeastInv, Table!TypeOK
  <2> QED
    BY <2>1, <2>2, <2>3, ServeKeepsPlatters DEF FeastInv, Table!TypeOK
<1>2. CASE Table!Stop
  BY <1>2 DEF Table!Stop, FeastInv, Table!TypeOK
<1>3. CASE UNCHANGED Table!vars
  BY <1>3 DEF Table!vars, FeastInv, Table!TypeOK
<1> QED
  BY <1>1, <1>2, <1>3 DEF Table!Next, Table!Done

-----------------------------------------------------------------------------
(* The run *)

ServersInv == ForkInv /\ FileInv /\ TalkInv /\ EzInv /\ FeastInv

\* A step of the run is a step of one program and a stutter of the others.
LEMMA StepOfOne ==
  ASSUME [Next]_vars
  PROVE  /\ [Forks!Next]_(Forks!vars) /\ [File!Next]_(File!vars)
         /\ [Talk!Next]_(Talk!vars) /\ [Ezsh!Next]_(Ezsh!vars)
         /\ [Table!Next]_(Table!vars)
<1>1. [Forks!Next]_(Forks!vars)
  BY DEF Next, vars, InFork, InFile, InTalk, InEzsh, InFeast, forking, Forks!vars, Forks!main, Forks!kids, Forks!signals
<1>2. [File!Next]_(File!vars)
  BY DEF Next, vars, InFork, InFile, InTalk, InEzsh, InFeast, fileserver, File!vars
<1>3. [Talk!Next]_(Talk!vars)
  BY DEF Next, vars, InFork, InFile, InTalk, InEzsh, InFeast, udp, Talk!vars
<1>4. [Ezsh!Next]_(Ezsh!vars)
  BY DEF Next, vars, InFork, InFile, InTalk, InEzsh, InFeast, ezsh, Ezsh!vars
<1>5. [Table!Next]_(Table!vars)
  BY DEF Next, vars, InFork, InFile, InTalk, InEzsh, InFeast, feast, Table!vars
<1> QED
  BY <1>1, <1>2, <1>3, <1>4, <1>5

\* The conjunction of the programs' invariants is an invariant of the run.
LEMMA ServersInvariant == FairSpec => []ServersInv
<1>1. Init => ServersInv
  BY ServersAssumption, ForkInitially, FileInitially, TalkInitially, EzInitially,
     FeastInitially
     DEF Init, ServersInv
<1>2. ServersInv /\ [Next]_vars => ServersInv'
  BY ServersAssumption, StepOfOne, ForkStep, FileStep, TalkStep, EzStep, FeastStep
     DEF ServersInv
<1> QED
  BY <1>1, <1>2, PTL DEF FairSpec

\* All variables of the five programs keep their types, and a line of any length
\* is read inside its buffer: read_line of file_server.c always, ezsh's unless a
\* line has CAPINIT words, input_reply of listener.c unless a reply is just as long
\* as a buffer it has grown to.
THEOREM LinesFitAlways == FairSpec => []LinesFit
<1>1. ServersInv => LinesFit
  BY ServersAssumption, FilePromises
     DEF ServersInv, LinesFit, ForkInv, FileInv, TalkInv, EzInv, FeastInv
<1> QED
  BY <1>1, ServersInvariant, PTL

\* server.c: while a child is a zombie, SIGCHLD is pending or its handler runs, for
\* any number of clients and of failures of accept and fork.
THEOREM ZombiesAlwaysNoticed == FairSpec => []ZombiesNoticed
<1>1. ServersInv => ZombiesNoticed
  BY DEF ServersInv, ForkInv
<1> QED
  BY <1>1, ServersInvariant, PTL

\* server.c: no child has another client's connection open.
THEOREM ConnectionsOwn == FairSpec => []NoForeignConnection
<1>1. ServersInv => NoForeignConnection
  BY ServersAssumption, ForkPromises DEF ServersInv
<1> QED
  BY <1>1, ServersInvariant, PTL

\* server.c: a client whose connection is closed again was greeted exactly once, or
\* not at all when fork or send failed for it.
THEOREM ClientsGreetedOnce == FairSpec => []GreetedOnce
<1>1. ServersInv => GreetedOnce
  BY ServersAssumption, ForkPromises DEF ServersInv
<1> QED
  BY <1>1, ServersInvariant, PTL

\* Every request gets its own answer: a client of file_server.c the whole file, a
\* talker the reply to its own datagram, a command of ezsh its words if they are few.
THEOREM EveryRequestServed == FairSpec => []RequestsServed
<1>1. ServersInv => RequestsServed
  BY ServersAssumption, TalkPromises
     DEF ServersInv, RequestsServed, FileInv, EzInv
<1> QED
  BY <1>1, ServersInvariant, PTL

\* A program that goes back to its next request has cleaned up: the file server has
\* only leaked the files it sent and dies only of a client that hangs up, the
\* listener has one socket, ezsh has no child.
THEOREM AlwaysCleanedUp == FairSpec => []CleanedUp
<1>1. ServersInv => Ezsh!ReadsAlone
  BY DEF ServersInv, EzInv, ChildAwaited, Ezsh!ReadsAlone, Ezsh!TypeOK
<1>2. ServersInv => File!DiesOnlyOfHangUp /\ File!LeaksFilesOnly /\ Talk!OneSocket
  BY ServersAssumption, FilePromises, TalkPromises DEF ServersInv
<1>3. ServersInv => CleanedUp
  BY <1>1, <1>2 DEF CleanedUp
<1> QED
  BY <1>3, ServersInvariant, PTL

\* What FeastProofs proves of feast.c, for the platters of the run.
Proved == INSTANCE FeastProofs

\* The instance means what the run's own instance of Feast means.
LEMMA SameFeast ==
  /\ Table!Init <=> Proved!Init
  /\ [Table!Next]_(Table!vars) <=> [Proved!Next]_(Proved!vars)
  /\ Table!FeastAssumption <=> Proved!FeastAssumption
<1> USE DEF Table!None, Proved!None, Table!Platters, Proved!Platters
<1>1. Table!Init <=> Proved!Init
  BY DEF Table!Init, Proved!Init
<1>2. Table!FeastAssumption <=> Proved!FeastAssumption
  BY DEF Table!FeastAssumption, Proved!FeastAssumption
<1>3. ASSUME NEW d PROVE Table!Serve(d) <=> Proved!Serve(d)
  <2>1. Table!Holding(d) = Proved!Holding(d) /\ Table!Least = Proved!Least
    BY DEF Table!Holding, Proved!Holding, Table!Least, Proved!Least
  <2> QED
    BY <2>1 DEF Table!Serve, Proved!Serve, Table!Fetch, Proved!Fetch
<1>4. Table!vars = Proved!vars /\ Table!vars' = Proved!vars'
  BY DEF Table!vars, Proved!vars
<1>5. ASSUME NEW d PROVE Table!Order(d) <=> Proved!Order(d)
  BY <1>3 DEF Table!Order, Proved!Order
<1>6. (Table!Stop <=> Proved!Stop) /\ (Table!Done <=> Proved!Done)
  BY <1>4 DEF Table!Stop, Proved!Stop, Table!Done, Proved!Done
<1>7. [Table!Next]_(Table!vars) <=> [Proved!Next]_(Proved!vars)
  BY <1>4, <1>5, <1>6 DEF Table!Next, Proved!Next
<1> QED
  BY <1>1, <1>2, <1>7

\* And so does the table.
LEMMA SameTable ==
  /\ Table!LFU!Init <=> Proved!LFU!Init
  /\ [Table!LFU!Next]_(Table!LFU!vars) <=> [Proved!LFU!Next]_(Proved!LFU!vars)
<1>1. Table!Table = Proved!Table
  BY DEF Table!Table, Proved!Table, Table!Holding, Proved!Holding, Table!None, Proved!None,
     Table!Platters, Proved!Platters
<1>2. Table!Table' = Proved!Table'
  BY DEF Table!Table, Proved!Table, Table!Holding, Proved!Holding, Table!None, Proved!None,
     Table!Platters, Proved!Platters
<1>3. \A S : Table!LFU!Cardinality(S) = Proved!LFU!Cardinality(S)
  BY DEF Table!LFU!Cardinality, Proved!LFU!Cardinality
<1>4. Table!LFU!OnTable = Proved!LFU!OnTable
  BY <1>1 DEF Table!LFU!OnTable, Proved!LFU!OnTable
<1>5. ASSUME NEW d, NEW S PROVE Table!LFU!Fetched(d, S) = Proved!LFU!Fetched(d, S)
  BY <1>1, <1>4 DEF Table!LFU!Fetched, Proved!LFU!Fetched
<1>6. Table!LFU!Next <=> Proved!LFU!Next
  BY <1>1, <1>2, <1>3, <1>4, <1>5
     DEF Table!LFU!Next, Proved!LFU!Next, Table!LFU!Use, Proved!LFU!Use,
         Table!LFU!Add, Proved!LFU!Add, Table!LFU!Replace, Proved!LFU!Replace
<1>7. Table!LFU!Init <=> Proved!LFU!Init
  BY <1>1 DEF Table!LFU!Init, Proved!LFU!Init
<1> QED
  BY <1>1, <1>2, <1>6, <1>7 DEF Table!LFU!vars, Proved!LFU!vars

\* feast.c as part of the run: the platters implement the least-frequently-used
\* table, for any table space and any orders.
THEOREM TableAlwaysLfu == FairSpec => TableIsLfu
<1>1. Init => Proved!Init
  BY SameFeast DEF Init
<1>2. [Next]_vars => [Proved!Next]_(Proved!vars)
  BY StepOfOne, SameFeast
<1>3. Proved!Spec => Proved!ImplementsLfu
  BY ServersAssumption, SameFeast, Proved!Refinement
<1> QED
  BY <1>1, <1>2, <1>3, SameTable, PTL
     DEF FairSpec, TableIsLfu, Table!ImplementsLfu, Table!LFU!Spec, Proved!Spec,
         Proved!ImplementsLfu, Proved!LFU!Spec

=============================================================================
