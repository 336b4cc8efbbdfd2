---------------------------- MODULE ServerProofs -----------------------------
(***************************************************************************)
(* Proofs about Server: the numbers never run out and stand for one file   *)
(* each, one thread at a time is in the database, and a line is executed   *)
(* once.                                                                   *)
(***************************************************************************)
EXTENDS Server, SequenceLemmas, FiniteSetTheorems

Pc == {"none", "start", "select", "read", "reading", "wait", "pipe", "handle", "fclose", "post",
       "answer", "write", "close", "close2", "exit", "exited"}
ThreadState == [pc : Pc, socket : Fd, file : Files, line : Texts, out : Fd, in : Fd,
                answer : Texts]

Types ==
  /\ client \in [Client -> {"off", "connected", "sent", "closed"}]
  /\ queue \in Seq(Client)
  /\ lines \in [Client -> Texts] /\ replies \in [Client -> Texts]
  /\ fd \in [Fd -> Files] /\ pipe \in [Thread -> Texts]
  /\ main \in {"accept", "create"}
  /\ Thread # {} => new_socket \in Fd
  /\ thread \in [Thread -> ThreadState]
  /\ semaphore \in Nat /\ executed \in [Client -> Nat] /\ up \in BOOLEAN

\* A number stands for a socket once it was accepted, for an end of a pipe while
\* the thread that made it has not closed it.
OneNumber == \A f, g \in Fd : fd[f] = fd[g] /\ f # g => fd[f] = Free
Owned(f) ==
  /\ \A c \in Client : fd[f] = Socket(c) => client[c] # "off" /\ c \notin ToSet(queue)
  /\ \A t \in Thread :
       /\ fd[f] = PipeOut(t) => /\ thread[t].out = f
                                /\ thread[t].pc \in {"handle", "fclose", "post", "answer", "write", "close"}
       /\ fd[f] = PipeIn(t) => thread[t].in = f /\ thread[t].pc \in {"handle", "fclose"}
Numbers == OneNumber /\ \A f \in Fd : Owned(f)

\* Every client connects once, and gets one thread.
NotStarted == {t \in Thread : thread[t].pc = "none"}
NotConnected == {c \in Client : client[c] = "off"}
Connections ==
  /\ \A i, j \in DOMAIN queue : queue[i] = queue[j] => i = j
  /\ \A c \in ToSet(queue) : client[c] # "off"
  /\ Cardinality(NotStarted) = Cardinality(NotConnected) + Len(queue) + (IF main = "create" THEN 1 ELSE 0)

\* Where the line of a client can be: still to be sent, in its socket, in a pipe
\* (a thread that takes another's number writes it there), in the buffers of a
\* thread, or executed.
Place(kind, t) == [kind |-> kind, of |-> t]
HasLine(t, c) == thread[t].pc \in {"wait", "pipe", "handle"} /\ thread[t].line = Line(c)
HasAnswer(t, c) == thread[t].pc = "write" /\ thread[t].answer = Line(c)
IsAt(c, place) ==
  \/ place = Place("new", 0) /\ client[c] \in {"off", "connected"}
  \/ place = Place("socket", 0) /\ lines[c] # Empty
  \/ place = Place("executed", 0) /\ executed[c] # 0
  \/ \E t \in Thread :
       \/ place = Place("pipe", t) /\ pipe[t] = Line(c)
       \/ place = Place("line", t) /\ HasLine(t, c)
       \/ place = Place("answer", t) /\ HasAnswer(t, c)
AtOnePlace(c) ==
  /\ executed[c] \in {0, 1} /\ lines[c] \in {Empty, Line(c)}
  /\ \A p, q : IsAt(c, p) /\ IsAt(c, q) => p = q
Once == \A c \in Client : AtOnePlace(c)

IInv == Types /\ Numbers /\ Connections /\ DbExclusive /\ Once

-----------------------------------------------------------------------------
\* The system's numbers

LEMMA LeastOf ==
  ASSUME NEW S \in SUBSET Nat, S # {}
  PROVE  Min(S) \in S
<1>1. \E x \in S : \A y \in S : x <= y
  BY LeastNumber
<1> QED
  BY <1>1 DEF Min

LEMMA Counts == /\ Cardinality(Client) \in Nat /\ IsFiniteSet(Client)
                /\ IsFiniteSet(Thread) /\ Cardinality(Thread) = Cardinality(Client)
                /\ IsFiniteSet(Fd) /\ Cardinality(Fd) = 3 * Cardinality(Client)
                /\ Thread \in SUBSET Nat /\ Fd \in SUBSET Nat
<1>1. IsFiniteSet(Client) /\ Cardinality(Client) \in Nat
  BY ServerAssumption, FS_CardinalityType
<1> DEFINE n == Cardinality(Client)
<1> HIDE DEF n
<1>2. n \in Nat
  BY <1>1 DEF n
<1>3. /\ IsFiniteSet(1..n) /\ Cardinality(1..n) = n
      /\ IsFiniteSet(1..(3 * n)) /\ Cardinality(1..(3 * n)) = 3 * n
  <2>1. 3 * n \in Int /\ 1 \in Int /\ n \in Int /\ n >= 0
    BY <1>2
  <2>2. IsFiniteSet(1..n) /\ Cardinality(1..n) = IF 1 > n THEN 0 ELSE n - 1 + 1
    BY <2>1, FS_Interval
  <2>3. IsFiniteSet(1..(3 * n)) /\ Cardinality(1..(3 * n)) = IF 1 > 3 * n THEN 0 ELSE 3 * n - 1 + 1
    BY <2>1, FS_Interval
  <2> QED
    BY <2>1, <2>2, <2>3
<1> QED
  BY <1>1, <1>2, <1>3 DEF n, Thread, Fd

\* There is a number for every file.
LEMMA FilesCounted ==
  /\ IsFiniteSet(Files \ {Free})
  /\ Cardinality(Files \ {Free}) \in Nat
  /\ Cardinality(Files \ {Free}) <= Cardinality(Fd)
<1> DEFINE A == {"socket"} \X Client
           B == {"out", "in"} \X Thread
           g == [file \in Files \ {Free} |-> <<file.kind, file.of>>]
<1>1. IsFiniteSet({"socket"}) /\ Cardinality({"socket"}) = 1
  BY FS_Singleton
<1>2. IsFiniteSet({"out", "in"}) /\ Cardinality({"out", "in"}) = 2
  <2>1. IsFiniteSet({"out"}) /\ Cardinality({"out"}) = 1
    BY FS_Singleton
  <2>2. {"out"} \cup {"in"} = {"out", "in"} /\ "in" \notin {"out"}
    OBVIOUS
  <2> QED
    BY <2>1, <2>2, FS_AddElement
<1>3. IsFiniteSet(A) /\ Cardinality(A) = 1 * Cardinality(Client)
  BY <1>1, Counts, FS_Product
<1>4. IsFiniteSet(B) /\ Cardinality(B) = 2 * Cardinality(Client)
  BY <1>2, Counts, FS_Product
<1>5. A \cap B = {}
  OBVIOUS
<1>6. IsFiniteSet(A \cup B) /\ Cardinality(A \cup B) = 3 * Cardinality(Client)
  <2>1. /\ IsFiniteSet(A \cup B)
        /\ Cardinality(A \cup B) = Cardinality(A) + Cardinality(B) - Cardinality(A \cap B)
    BY <1>3, <1>4, FS_Union
  <2>2. Cardinality(A \cap B) = 0
    BY <1>5, FS_EmptySet
  <2> QED
    BY <1>3, <1>4, <2>1, <2>2, Counts
<1>7. g \in Injection(Files \ {Free}, A \cup B)
  <2>1. \A file \in Files \ {Free} : g[file] \in A \cup B
    BY DEF Files, Socket, PipeOut, PipeIn
  <2>2. \A x, y \in Files \ {Free} : g[x] = g[y] => x = y
    BY DEF Files, Socket, PipeOut, PipeIn
  <2> QED
    BY <2>1, <2>2 DEF Injection, IsInjective
<1> HIDE DEF A, B, g
<1>8. IsFiniteSet(Files \ {Free}) /\ Cardinality(Files \ {Free}) <= Cardinality(A \cup B)
  BY <1>6, <1>7, FS_Injection
<1> QED
  BY <1>6, <1>8, Counts, FS_CardinalityType

LEMMA NumbersLeft ==
  ASSUME Types, OneNumber, NEW T \in SUBSET (Files \ {Free}), \A f \in Fd : fd[f] \notin T
  PROVE  IsFiniteSet(FreeFds) /\ Cardinality(FreeFds) >= Cardinality(T)
<1> DEFINE U == Fd \ FreeFds
           F == Files \ {Free}
           g == [f \in U |-> fd[f]]
<1>1. FreeFds \in SUBSET Fd
  BY DEF FreeFds
<1>2. /\ IsFiniteSet(FreeFds) /\ Cardinality(FreeFds) \in Nat
      /\ IsFiniteSet(U) /\ Cardinality(U) = Cardinality(Fd) - Cardinality(FreeFds)
  <2>1. IsFiniteSet(FreeFds) /\ IsFiniteSet(Fd)
    BY <1>1, Counts, FS_Subset
  <2>2. IsFiniteSet(Fd \ FreeFds)
        /\ Cardinality(Fd \ FreeFds) = Cardinality(Fd) - Cardinality(Fd \cap FreeFds)
    BY <2>1, FS_Difference
  <2>3. Fd \cap FreeFds = FreeFds
    BY <1>1
  <2> QED
    BY <2>1, <2>2, <2>3, FS_CardinalityType
<1>3. /\ IsFiniteSet(T) /\ Cardinality(T) \in Nat
      /\ IsFiniteSet(F \ T) /\ Cardinality(F \ T) = Cardinality(F) - Cardinality(T)
  <2>1. IsFiniteSet(T) /\ IsFiniteSet(F)
    BY FilesCounted, FS_Subset
  <2>2. IsFiniteSet(F \ T) /\ Cardinality(F \ T) = Cardinality(F) - Cardinality(F \cap T)
    BY <2>1, FS_Difference
  <2>3. F \cap T = T
    OBVIOUS
  <2> QED
    BY <2>1, <2>2, <2>3, FS_CardinalityType
<1>4. g \in Injection(U, F \ T)
  <2>1. \A f \in U : fd[f] \in F \ T
    BY DEF Types, FreeFds
  <2>2. \A f, h \in U : fd[f] = fd[h] => f = h
    BY DEF OneNumber, FreeFds
  <2> HIDE DEF U, F
  <2>3. g \in [U -> F \ T]
    BY <2>1
  <2> QED
    BY <2>2, <2>3 DEF Injection, IsInjective
<1>5. Cardinality(U) <= Cardinality(F \ T)
  BY <1>3, <1>4, FS_Injection
<1> QED
  BY <1>2, <1>3, <1>5, FilesCounted, Counts

\* A file without a number gets one that is free, and two files get two.
LEMMA NewNumber ==
  ASSUME Types, OneNumber, NEW file \in Files \ {Free}, \A f \in Fd : fd[f] # file
  PROVE  Fd1 \in FreeFds
<1>1. Cardinality({file}) = 1
  BY FS_Singleton
<1>2. IsFiniteSet(FreeFds) /\ Cardinality(FreeFds) >= 1
  BY <1>1, NumbersLeft
<1>3. FreeFds # {}
  BY <1>2, FS_EmptySet
<1>4. FreeFds \in SUBSET Nat
  BY Counts DEF FreeFds
<1> QED
  BY <1>3, <1>4, LeastOf DEF Fd1

LEMMA TwoNewNumbers ==
  ASSUME Types, OneNumber, NEW file \in Files \ {Free}, NEW other \in Files \ {Free}, file # other,
         \A f \in Fd : fd[f] # file /\ fd[f] # other
  PROVE  Fd1 \in FreeFds /\ Fd2 \in FreeFds /\ Fd1 # Fd2
<1>1. Fd1 \in FreeFds
  BY NewNumber
<1>2. Cardinality({file, other}) = 2
  <2>1. IsFiniteSet({file}) /\ Cardinality({file}) = 1
    BY FS_Singleton
  <2>2. {file, other} = {file} \cup {other} /\ other \notin {file}
    OBVIOUS
  <2> QED
    BY <2>1, <2>2, FS_AddElement
<1>3. IsFiniteSet(FreeFds) /\ Cardinality(FreeFds) >= 2
  <2>1. {file, other} \in SUBSET (Files \ {Free}) /\ \A f \in Fd : fd[f] \notin {file, other}
    OBVIOUS
  <2> QED
    BY <1>2, <2>1, NumbersLeft
<1>4. IsFiniteSet(FreeFds \ {Fd1}) /\ Cardinality(FreeFds \ {Fd1}) >= 1
  <2>1. Cardinality(FreeFds \ {Fd1}) = Cardinality(FreeFds) - 1 /\ IsFiniteSet(FreeFds \ {Fd1})
    BY <1>1, <1>3, FS_RemoveElement
  <2> QED
    BY <1>3, <2>1, FS_CardinalityType
<1>5. FreeFds \ {Fd1} # {}
  BY <1>4, FS_EmptySet
<1>6. FreeFds \ {Fd1} \in SUBSET Nat
  BY Counts DEF FreeFds
<1>7. Fd2 \in FreeFds \ {Fd1}
  BY <1>5, <1>6, LeastOf DEF Fd2
<1> QED
  BY <1>1, <1>7

-----------------------------------------------------------------------------
\* Types

LEMMA Members ==
  /\ \A c \in Client : Line(c) \in Texts /\ Reply(c) \in Texts /\ Socket(c) \in Files
  /\ Other \in Texts /\ Empty \in Texts /\ Free \in Files
  /\ \A t \in Thread : PipeOut(t) \in Files /\ PipeIn(t) \in Files
  /\ \A x \in Texts : Answer(x) \in Texts
  /\ \A file \in Files : /\ file.kind = "socket" => file.of \in Client
                         /\ file.kind \in {"in", "out"} => file.of \in Thread
  /\ \A file \in Files : file # Free <=> file.kind # "free"
<1>1. \A c \in Client : Line(c) \in Texts /\ Reply(c) \in Texts /\ Socket(c) \in Files
  BY DEF Texts, Files
<1>2. /\ Other \in Texts /\ Empty \in Texts /\ Free \in Files
      /\ \A t \in Thread : PipeOut(t) \in Files /\ PipeIn(t) \in Files
  BY DEF Texts, Files
<1>3. ASSUME NEW x \in Texts PROVE Answer(x) \in Texts
  BY <1>1, <1>2 DEF Texts, Line, Reply, Other, Empty, Answer
<1>4. ASSUME NEW file \in Files
      PROVE  /\ file.kind = "socket" => file.of \in Client
             /\ file.kind \in {"in", "out"} => file.of \in Thread
             /\ file # Free <=> file.kind # "free"
  BY DEF Files, Socket, PipeOut, PipeIn, Free
<1> QED
  BY <1>1, <1>2, <1>3, <1>4

\* What the thread of a step may change
LEMMA ThreadMoves ==
  ASSUME Types, NEW t \in Thread, NEW r \in ThreadState, thread' = [thread EXCEPT ![t] = r]
  PROVE  thread' \in [Thread -> ThreadState]
BY DEF Types

LEMMA GotoMoves ==
  ASSUME Types, NEW t \in Thread, NEW pc \in Pc, Goto(t, pc)
  PROVE  thread' \in [Thread -> ThreadState]
BY DEF Types, Goto, ThreadState

LEMMA CloseTypes ==
  ASSUME Types, NEW f \in Fd, Close(f)
  PROVE  fd' \in [Fd -> Files]
BY Members DEF Types, Close

LEMMA DrainTypes ==
  ASSUME Types, NEW file \in Files, Drain(file)
  PROVE  lines' \in [Client -> Texts] /\ pipe' \in [Thread -> Texts]
BY Members DEF Types, Drain

LEMMA WriteTypes ==
  ASSUME Types, NEW file \in Files, NEW text \in Texts, Write(file, text)
  PROVE  replies' \in [Client -> Texts] /\ pipe' \in [Thread -> Texts] /\ up' \in BOOLEAN
BY Members DEF Types, Write

LEMMA ContentTypes ==
  ASSUME Types, NEW file \in Files, file.kind \in {"socket", "out"}
  PROVE  Content(file) \in Texts
BY Members DEF Types, Content

\* A connection that was accepted has no thread yet, so there is one to create.
LEMMA StartsOne ==
  ASSUME Types, Connections, pthread_create
  PROVE  NotStarted # {}
<1>1. IsFiniteSet(NotConnected) /\ IsFiniteSet(NotStarted)
  BY Counts, FS_Subset DEF NotConnected, NotStarted
<1>2. Cardinality(NotConnected) \in Nat /\ Len(queue) \in Nat
  BY <1>1, FS_CardinalityType DEF Types
<1>3. Cardinality(NotStarted) >= 1
  BY <1>2 DEF pthread_create, Connections
<1> QED
  BY <1>1, <1>3, FS_EmptySet

LEMMA TypesStep ==
  ASSUME Types, Numbers, Connections, [Next]_vars PROVE Types'
<1>1. ASSUME NEW c \in Client, Connect(c) PROVE Types'
  BY <1>1 DEF Connect, Types
<1>2. ASSUME NEW c \in Client, Send(c) PROVE Types'
  BY <1>2, Members DEF Send, Types
<1>3. ASSUME NEW c \in Client, Receive(c) PROVE Types'
  BY <1>3 DEF Receive, Types
<1>4. CASE accept
  <2>1. queue # <<>> /\ Head(queue) \in Client /\ Tail(queue) \in Seq(Client)
    BY <1>4 DEF accept, Types
  <2>2. \A f \in Fd : fd[f] # Socket(Head(queue))
    BY <2>1 DEF Numbers, Owned, ToSet, Types
  <2>3. Socket(Head(queue)) \in Files \ {Free}
    BY <2>1, Members DEF Socket, Free
  <2>4. Fd1 \in Fd
    BY <2>2, <2>3, NewNumber DEF Numbers, FreeFds
  <2> QED
    BY <1>4, <2>1, <2>3, <2>4 DEF accept, Types
<1>5. CASE pthread_create
  <2>1. NotStarted # {}
    BY <1>5, StartsOne
  <2>2. Min(NotStarted) \in Thread
    BY <2>1, LeastOf, Counts DEF NotStarted
  <2>3. thread' \in [Thread -> ThreadState]
    BY <1>5, <2>2, GotoMoves DEF pthread_create, NotStarted, Pc
  <2> QED
    BY <1>5, <2>3 DEF pthread_create, Types, network
<1>6. ASSUME NEW t \in Thread, ThreadStep(t) PROVE Types'
  <2>1. thread[t] \in ThreadState /\ File(t) \in Files /\ new_socket \in Fd
    BY DEF Types, ThreadState, File
  <2>2. CASE process_communication_thread(t)
    BY <2>1, <2>2 DEF process_communication_thread, Types, network, Pc, ThreadState
  <2>3. CASE Select(t)
    BY <2>1, <2>3, GotoMoves DEF Select, Types, network, Pc
  <2>4. CASE BeginRead(t)
    BY <2>1, <2>4 DEF BeginRead, Types, network, Pc, ThreadState
  <2>5. CASE EndRead(t)
    <3> DEFINE file == thread[t].file
    <3>1. file \in Files /\ file.kind \in {"socket", "out"}
      BY <2>1, <2>5 DEF EndRead, Readable, ThreadState
    <3>2. Content(file) \in Texts
      BY <3>1, ContentTypes
    <3>3. lines' \in [Client -> Texts] /\ pipe' \in [Thread -> Texts]
      BY <2>5, <3>1, DrainTypes DEF EndRead
    <3>4. thread' \in [Thread -> ThreadState]
      <4> DEFINE line == Content(file)
                 r == [thread[t] EXCEPT !.pc = IF line = Empty THEN "exit" ELSE "wait",
                                        !.line = line, !.file = Free]
      <4>1. r \in ThreadState
        <5> HIDE DEF line
        <5>1. line \in Texts /\ Free \in Files
          BY <3>2, Members DEF line
        <5> QED
          BY <2>1, <5>1 DEF ThreadState, Pc
      <4>2. thread' = [thread EXCEPT ![t] = r]
        BY <2>1, <2>5 DEF EndRead, ThreadState, Types
      <4> HIDE DEF r
      <4> QED
        BY <4>1, <4>2, ThreadMoves
    <3> QED
      BY <2>5, <3>3, <3>4 DEF EndRead, Types
  <2>6. CASE sem_wait(t)
    BY <2>6, GotoMoves DEF sem_wait, Types, network, Pc
  <2>7. CASE Pipe(t)
    <3>1. /\ PipeOut(t) \in Files \ {Free} /\ PipeIn(t) \in Files \ {Free}
          /\ PipeOut(t) # PipeIn(t)
      BY Members DEF PipeOut, PipeIn, Free
    <3>2. \A f \in Fd : fd[f] # PipeOut(t) /\ fd[f] # PipeIn(t)
      BY <2>7 DEF Pipe, In, Numbers, Owned
    <3>3. Fd1 \in Fd /\ Fd2 \in Fd
      BY <3>1, <3>2, TwoNewNumbers DEF Numbers, FreeFds
    <3>4. thread' \in [Thread -> ThreadState]
      <4> DEFINE r == [thread[t] EXCEPT !.pc = "handle", !.out = Fd1, !.in = Fd2]
      <4>1. r \in ThreadState
        BY <2>1, <3>3 DEF ThreadState, Pc
      <4>2. thread' = [thread EXCEPT ![t] = r]
        BY <2>1, <2>7 DEF Pipe, ThreadState, Types
      <4> HIDE DEF r
      <4> QED
        BY <4>1, <4>2, ThreadMoves
    <3> QED
      BY <2>7, <3>1, <3>3, <3>4, Members DEF Pipe, Types, network
  <2>8. CASE db_handle(t)
    <3>1. executed' \in [Client -> Nat]
      <4>1. thread[t].line.kind = "line" => thread[t].line.of \in Client
        BY <2>1 DEF ThreadState, Texts, Line, Reply, Other, Empty
      <4> QED
        BY <2>8, <4>1 DEF db_handle, Types
    <3> QED
      BY <2>8, <3>1, GotoMoves DEF db_handle, Types, network, Pc
  <2>9. CASE fclose(t)
    <3>1. thread[t].in \in Fd /\ fd[thread[t].in] \in Files /\ Answer(thread[t].line) \in Texts
      BY <2>1, Members DEF ThreadState, Types
    <3>2. replies' \in [Client -> Texts] /\ pipe' \in [Thread -> Texts] /\ up' \in BOOLEAN
      BY <2>9, <3>1, WriteTypes DEF fclose
    <3>3. fd' \in [Fd -> Files]
      BY <2>9, <3>1, CloseTypes DEF fclose
    <3>4. thread' \in [Thread -> ThreadState]
      BY <2>9, GotoMoves DEF fclose, Pc
    <3> QED
      BY <2>9, <3>2, <3>3, <3>4 DEF fclose, Types
  <2>10. CASE sem_post(t)
    BY <2>10, GotoMoves DEF sem_post, Types, network, Pc
  <2>11. CASE ReadAnswer(t)
    <3> DEFINE file == fd[thread[t].out]
    <3>1. file \in Files
      BY <2>1 DEF ThreadState, Types
    <3>2. CASE file.kind \in {"free", "in"}
      <4>1. thread' \in [Thread -> ThreadState]
        <5> DEFINE text == Empty
                   r == [thread[t] EXCEPT !.pc = "write", !.answer = text]
        <5>1. thread' = [thread EXCEPT ![t] = r]
          BY <2>1, <2>11, <3>2 DEF ReadAnswer, ThreadState, Types
        <5>2. text \in Texts
          BY <2>1, Members
        <5> HIDE DEF text
        <5>3. r \in ThreadState
          BY <2>1, <5>2 DEF ThreadState, Pc
        <5> HIDE DEF r
        <5> QED
          BY <5>1, <5>3, ThreadMoves
      <4>2. UNCHANGED <<lines, pipe>>
        BY <2>11, <3>2 DEF ReadAnswer
      <4> QED
        BY <2>11, <4>1, <4>2 DEF ReadAnswer, Types
    <3>3. CASE ~(file.kind \in {"free", "in"})
      <4>1. file.kind \in {"socket", "out"}
        BY <2>11, <3>3 DEF ReadAnswer, Readable
      <4>2. Content(file) \in Texts
        BY <3>1, <4>1, ContentTypes
      <4>3. lines' \in [Client -> Texts] /\ pipe' \in [Thread -> Texts]
        BY <2>11, <3>1, <3>3, DrainTypes DEF ReadAnswer
      <4>4. thread' \in [Thread -> ThreadState]
        <5> DEFINE text == Content(file)
                   r == [thread[t] EXCEPT !.pc = "write", !.answer = text]
        <5>1. thread' = [thread EXCEPT ![t] = r]
          BY <2>1, <2>11, <3>3 DEF ReadAnswer, ThreadState, Types
        <5>2. text \in Texts
          BY <2>1, <4>2
        <5> HIDE DEF text
        <5>3. r \in ThreadState
          BY <2>1, <5>2 DEF ThreadState, Pc
        <5> HIDE DEF r
        <5> QED
          BY <5>1, <5>3, ThreadMoves
      <4> QED
        BY <2>11, <4>3, <4>4 DEF ReadAnswer, Types
    <3> QED
      BY <3>2, <3>3
  <2>12. CASE WriteAnswer(t)
    <3> DEFINE text == IF thread[t].answer = Empty THEN Other ELSE thread[t].answer
    <3>1. text \in Texts
      BY <2>1, Members DEF ThreadState
    <3>2. replies' \in [Client -> Texts] /\ pipe' \in [Thread -> Texts] /\ up' \in BOOLEAN
      BY <2>1, <2>12, <3>1, WriteTypes DEF WriteAnswer
    <3>3. thread' \in [Thread -> ThreadState]
      BY <2>12, GotoMoves DEF WriteAnswer, Pc
    <3> QED
      BY <2>12, <3>2, <3>3 DEF WriteAnswer, Types
  <2>13. CASE ClosePipeOut(t)
    BY <2>1, <2>13, CloseTypes, GotoMoves DEF ClosePipeOut, Types, network, ThreadState, Pc
  <2>14. CASE ClosePipeIn(t)
    BY <2>1, <2>14, CloseTypes, GotoMoves DEF ClosePipeIn, Types, network, ThreadState, Pc
  <2>15. CASE exit_thread(t)
    BY <2>1, <2>15, CloseTypes, GotoMoves DEF exit_thread, Types, network, ThreadState, Pc
  <2> QED
    BY <1>6, <2>2, <2>3, <2>4, <2>5, <2>6, <2>7, <2>8, <2>9, <2>10, <2>11, <2>12, <2>13,
       <2>14, <2>15 DEF ThreadStep
<1>7. CASE sigintHandler
  BY <1>7 DEF sigintHandler, Types, network
<1>8. CASE UNCHANGED vars
  BY <1>8 DEF vars, Types
<1> QED
  BY <1>1, <1>2, <1>3, <1>4, <1>5, <1>6, <1>7, <1>8 DEF Next, ClientStep

-----------------------------------------------------------------------------
\* Numbers

LEMMA QueueEntries ==
  ASSUME Types, Connections
  PROVE  /\ \A c \in Client : ToSet(Append(queue, c)) = ToSet(queue) \cup {c}
         /\ queue # <<>> => /\ Head(queue) \in ToSet(queue)
                            /\ ToSet(Tail(queue)) = ToSet(queue) \ {Head(queue)}
<1>1. queue \in Seq(Client)
  BY DEF Types
<1>2. ASSUME NEW c \in Client PROVE ToSet(Append(queue, c)) = ToSet(queue) \cup {c}
  <2>1. /\ Append(queue, c) \in Seq(Client) /\ Len(Append(queue, c)) = Len(queue) + 1
        /\ \A i \in 1..Len(queue) : Append(queue, c)[i] = queue[i]
        /\ Append(queue, c)[Len(queue) + 1] = c
    BY <1>1, AppendProperties
  <2>2. DOMAIN queue = 1..Len(queue) /\ Len(queue) \in Nat
        /\ DOMAIN Append(queue, c) = 1..(Len(queue) + 1)
    BY <1>1, <2>1
  <2> QED
    BY <2>1, <2>2 DEF ToSet
<1>3. ASSUME queue # <<>>
      PROVE  Head(queue) \in ToSet(queue) /\ ToSet(Tail(queue)) = ToSet(queue) \ {Head(queue)}
  <2>1. /\ Tail(queue) \in Seq(Client) /\ Len(Tail(queue)) = Len(queue) - 1 /\ Len(queue) >= 1
        /\ \A i \in 1..(Len(queue) - 1) : Tail(queue)[i] = queue[i + 1]
    BY <1>1, <1>3, HeadTailProperties
  <2>2. DOMAIN queue = 1..Len(queue) /\ Len(queue) \in Nat /\ Head(queue) = queue[1]
        /\ DOMAIN Tail(queue) = 1..(Len(queue) - 1)
    BY <1>1, <1>3, <2>1
  <2>3. \A i \in 2..Len(queue) : i - 1 \in 1..(Len(queue) - 1) /\ Tail(queue)[i - 1] = queue[i]
    BY <2>1, <2>2
  <2>4. \A i, j \in DOMAIN queue : queue[i] = queue[j] => i = j
    BY DEF Connections
  <2>5. ASSUME NEW x \in ToSet(queue), x # Head(queue) PROVE x \in ToSet(Tail(queue))
    <3>1. PICK i \in 1..Len(queue) : queue[i] = x
      BY <2>2 DEF ToSet
    <3>2. i \in 2..Len(queue)
      BY <2>2, <2>5, <3>1
    <3> QED
      BY <2>2, <2>3, <3>1, <3>2 DEF ToSet
  <2>6. ASSUME NEW x \in ToSet(Tail(queue)) PROVE x \in ToSet(queue) /\ x # Head(queue)
    <3>1. PICK i \in 1..(Len(queue) - 1) : Tail(queue)[i] = x
      BY <2>2 DEF ToSet
    <3>2. i + 1 \in 1..Len(queue) /\ 1 \in 1..Len(queue) /\ i + 1 # 1 /\ queue[i + 1] = x
      BY <2>1, <2>2, <3>1
    <3> QED
      BY <2>2, <2>4, <3>2 DEF ToSet
  <2>7. Head(queue) \in ToSet(queue)
    <3>1. 1 \in DOMAIN queue
      BY <2>1, <2>2
    <3> QED
      BY <2>2, <3>1 DEF ToSet
  <2> QED
    BY <2>5, <2>6, <2>7
<1> QED
  BY <1>2, <1>3

\* Two files of different kinds or owners differ.
LEMMA FilesDiffer ==
  /\ \A x, y : /\ Socket(x) # PipeOut(y) /\ Socket(x) # PipeIn(y) /\ PipeOut(x) # PipeIn(y)
               /\ Socket(x) = Socket(y) => x = y
               /\ PipeOut(x) = PipeOut(y) => x = y
               /\ PipeIn(x) = PipeIn(y) => x = y
  /\ \A x : Socket(x) # Free /\ PipeOut(x) # Free /\ PipeIn(x) # Free
BY DEF Socket, PipeOut, PipeIn, Free

LEMMA CloseKeepsNumbers ==
  ASSUME Types, Numbers, NEW t \in Thread, NEW f \in Fd, Close(f), UNCHANGED <<client, queue>>,
         NEW pc \in Pc, Goto(t, pc),
         fd'[thread[t].out] # PipeOut(t) \/ pc \in {"handle", "fclose", "post", "answer", "write", "close"},
         fd'[thread[t].in] # PipeIn(t) \/ pc \in {"handle", "fclose"}
  PROVE  Numbers'
<1>1. /\ fd \in [Fd -> Files] /\ thread \in [Thread -> ThreadState]
      /\ fd' = [fd EXCEPT ![f] = Free] /\ thread' = [thread EXCEPT ![t].pc = pc]
  BY DEF Close, Goto, Types
<1>2. OneNumber'
  BY <1>1 DEF OneNumber, Numbers
<1>3. ASSUME NEW g \in Fd PROVE Owned(g)'
  <2>1. fd'[g] = Free \/ fd'[g] = fd[g]
    BY <1>1
  <2>2. Owned(g)
    BY DEF Numbers
  <2>3. \A u \in Thread : /\ thread'[u].out = thread[u].out /\ thread'[u].in = thread[u].in
                          /\ thread'[u].pc = IF u = t THEN pc ELSE thread[u].pc
    BY <1>1 DEF ThreadState
  <2> QED
    BY <2>1, <2>2, <2>3, FilesDiffer DEF Owned
<1> QED
  BY <1>2, <1>3 DEF Numbers

\* No number changes.
LEMMA MoveKeepsNumbers ==
  ASSUME Types, Numbers, NEW t \in Thread, UNCHANGED <<client, queue, fd>>,
         \A u \in Thread : u # t => thread'[u] = thread[u],
         thread'[t].out = thread[t].out /\ thread'[t].in = thread[t].in,
         \/ thread[t].pc \notin {"handle", "fclose", "post", "answer", "write", "close"}
         \/ thread[t].pc = "handle" /\ thread'[t].pc = "fclose"
         \/ thread[t].pc \in {"post", "answer", "write"} /\ thread'[t].pc \in {"answer", "write", "close"}
  PROVE  Numbers'
<1>1. OneNumber'
  BY DEF OneNumber, Numbers
<1>2. ASSUME NEW f \in Fd PROVE Owned(f)'
  BY DEF Numbers, Owned
<1> QED
  BY <1>1, <1>2 DEF Numbers

LEMMA NumbersStep ==
  ASSUME Types, Numbers, Connections, [Next]_vars PROVE Numbers'
<1> USE DEF Numbers
<1>1. ASSUME NEW c \in Client, Connect(c) PROVE Numbers'
  <2>1. client' = [client EXCEPT ![c] = "connected"] /\ client[c] = "off" /\ queue' = Append(queue, c)
        /\ fd' = fd /\ thread' = thread
    BY <1>1 DEF Connect
  <2>2. ToSet(queue') = ToSet(queue) \cup {c}
    BY <2>1, QueueEntries
  <2> QED
    BY <2>1, <2>2 DEF Types, OneNumber, Owned
<1>2. ASSUME NEW c \in Client, Send(c) \/ Receive(c) PROVE Numbers'
  BY <1>2 DEF Send, Receive, Types, OneNumber, Owned
<1>3. CASE accept
  <2>1. queue # <<>> /\ Head(queue) \in Client /\ Tail(queue) \in Seq(Client)
    BY <1>3 DEF accept, Types
  <2>2. Head(queue) \in ToSet(queue) /\ ToSet(queue') = ToSet(queue) \ {Head(queue)}
    BY <1>3, <2>1, QueueEntries DEF accept
  <2>3. \A f \in Fd : fd[f] # Socket(Head(queue))
    BY <2>1, <2>2 DEF Owned
  <2>4. Socket(Head(queue)) \in Files \ {Free}
    BY <2>1, Members, FilesDiffer
  <2>5. Fd1 \in Fd
    BY <2>3, <2>4, NewNumber DEF FreeFds
  <2>6. \A f \in Fd : fd'[f] = IF f = Fd1 THEN Socket(Head(queue)) ELSE fd[f]
    BY <1>3, <2>5 DEF accept, Types
  <2>7. client[Head(queue)] # "off" /\ client' = client /\ thread' = thread
    BY <1>3, <2>2 DEF accept, Connections
  <2>8. OneNumber'
    BY <2>3, <2>6 DEF OneNumber
  <2>9. ASSUME NEW f \in Fd PROVE Owned(f)'
    BY <2>2, <2>6, <2>7, FilesDiffer DEF Owned
  <2> QED
    BY <2>8, <2>9
<1>4. CASE pthread_create
  <2>1. /\ thread' = [thread EXCEPT ![Min(NotStarted)].pc = "start"]
        /\ UNCHANGED <<client, queue, fd>>
    BY <1>4 DEF pthread_create, Goto, NotStarted, network
  <2>2. OneNumber'
    BY <2>1 DEF OneNumber
  <2>3. NotStarted # {}
    BY <1>4, StartsOne
  <2>4. Min(NotStarted) \in NotStarted
    BY <2>3, LeastOf, Counts DEF NotStarted
  <2>5. \A t \in Thread : /\ thread'[t].out = thread[t].out /\ thread'[t].in = thread[t].in
                          /\ thread[t].pc = "none" \/ thread'[t].pc = thread[t].pc
    BY <2>1, <2>4 DEF NotStarted, Types, ThreadState
  <2>6. ASSUME NEW f \in Fd PROVE Owned(f)'
    BY <2>1, <2>5 DEF Owned
  <2> QED
    BY <2>2, <2>6
<1>5. ASSUME NEW t \in Thread, ThreadStep(t) PROVE Numbers'
  <2>1. /\ thread \in [Thread -> ThreadState] /\ thread[t] \in ThreadState
        /\ fd \in [Fd -> Files] /\ OneNumber /\ \A f \in Fd : Owned(f)
    BY DEF Types
  <2>2. thread[t].in \in Fd /\ thread[t].out \in Fd /\ thread[t].socket \in Fd
    BY <2>1 DEF ThreadState
  <2>3. CASE process_communication_thread(t)
    BY <2>1, <2>3, MoveKeepsNumbers DEF process_communication_thread, In, network, ThreadState
  <2>4. CASE Select(t)
    BY <2>1, <2>4, MoveKeepsNumbers DEF Select, Goto, In, network, ThreadState
  <2>5. CASE BeginRead(t)
    BY <2>1, <2>5, MoveKeepsNumbers DEF BeginRead, In, network, ThreadState
  <2>6. CASE EndRead(t)
    BY <2>1, <2>6, MoveKeepsNumbers DEF EndRead, In, network, ThreadState
  <2>7. CASE sem_wait(t)
    BY <2>1, <2>7, MoveKeepsNumbers DEF sem_wait, Goto, In, network, ThreadState
  <2>8. CASE Pipe(t)
    <3>1. \A f \in Fd : fd[f] # PipeOut(t) /\ fd[f] # PipeIn(t)
      BY <2>1, <2>8 DEF Pipe, In, Owned
    <3>2. PipeOut(t) \in Files \ {Free} /\ PipeIn(t) \in Files \ {Free} /\ PipeOut(t) # PipeIn(t)
      BY Members, FilesDiffer
    <3>3. Fd1 \in FreeFds /\ Fd2 \in FreeFds /\ Fd1 # Fd2
      BY <2>1, <3>1, <3>2, TwoNewNumbers
    <3>4. \A f \in Fd : fd'[f] = IF f = Fd1 THEN PipeOut(t) ELSE IF f = Fd2 THEN PipeIn(t) ELSE fd[f]
      BY <2>1, <2>8, <3>3 DEF Pipe, FreeFds
    <3>5. /\ thread'[t].out = Fd1 /\ thread'[t].in = Fd2 /\ thread'[t].pc = "handle"
          /\ \A u \in Thread : u # t => thread'[u] = thread[u]
      BY <2>1, <2>8 DEF Pipe, ThreadState
    <3>6. OneNumber'
      BY <2>1, <3>1, <3>2, <3>4 DEF OneNumber
    <3>7. UNCHANGED <<client, queue>>
      BY <2>8 DEF Pipe, network
    <3>8. ASSUME NEW f \in Fd PROVE Owned(f)'
      <4>1. CASE f = Fd1 \/ f = Fd2
        BY <3>4, <3>5, <4>1, FilesDiffer DEF Owned
      <4>2. CASE f # Fd1 /\ f # Fd2
        BY <2>1, <3>1, <3>4, <3>5, <3>7, <4>2 DEF Owned
      <4> QED
        BY <4>1, <4>2
    <3> QED
      BY <3>6, <3>8
  <2>9. CASE db_handle(t)
    BY <2>1, <2>9, MoveKeepsNumbers DEF db_handle, Goto, In, network, ThreadState
  <2>10. CASE fclose(t)
    <3>1. fd'[thread[t].in] # PipeIn(t)
      BY <2>1, <2>2, <2>10, FilesDiffer DEF fclose, Close
    <3> QED
      BY <2>1, <2>2, <2>10, <3>1, CloseKeepsNumbers DEF fclose, Pc
  <2>11. CASE sem_post(t)
    BY <2>1, <2>11, MoveKeepsNumbers DEF sem_post, Goto, In, network, ThreadState
  <2>12. CASE ReadAnswer(t)
    <3>1. /\ thread[t].pc = "answer" /\ UNCHANGED <<client, queue, fd>>
          /\ \E text : thread' = [thread EXCEPT ![t].pc = "write", ![t].answer = text]
      BY <2>12 DEF ReadAnswer, In
    <3> QED
      BY <2>1, <3>1, MoveKeepsNumbers DEF ThreadState
  <2>13. CASE WriteAnswer(t)
    BY <2>1, <2>13, MoveKeepsNumbers DEF WriteAnswer, Goto, In, network, ThreadState
  <2>14. CASE ClosePipeOut(t)
    <3>1. fd'[thread[t].out] # PipeOut(t) /\ UNCHANGED <<client, queue>>
      BY <2>1, <2>2, <2>14, FilesDiffer DEF ClosePipeOut, Close, network
    <3>2. fd'[thread[t].in] # PipeIn(t)
      BY <2>1, <2>2, <2>14, FilesDiffer DEF ClosePipeOut, Close, In, Owned
    <3> QED
      BY <2>1, <2>2, <2>14, <3>1, <3>2, CloseKeepsNumbers DEF ClosePipeOut, Pc
  <2>15. CASE ClosePipeIn(t)
    <3>1. fd'[thread[t].out] # PipeOut(t) /\ UNCHANGED <<client, queue>>
      BY <2>1, <2>2, <2>15, FilesDiffer DEF ClosePipeIn, Close, In, Owned, network
    <3>2. fd'[thread[t].in] # PipeIn(t)
      BY <2>1, <2>2, <2>15, FilesDiffer DEF ClosePipeIn, Close
    <3> QED
      BY <2>1, <2>2, <2>15, <3>1, <3>2, CloseKeepsNumbers DEF ClosePipeIn, Pc
  <2>16. CASE exit_thread(t)
    <3>1. UNCHANGED <<client, queue>>
      BY <2>16 DEF exit_thread, network
    <3>2. fd'[thread[t].in] # PipeIn(t) /\ fd'[thread[t].out] # PipeOut(t)
      BY <2>1, <2>2, <2>16, FilesDiffer DEF exit_thread, Close, In, Owned
    <3> QED
      BY <2>1, <2>2, <2>16, <3>1, <3>2, CloseKeepsNumbers DEF exit_thread, Pc
  <2> QED
    BY <1>5, <2>3, <2>4, <2>5, <2>6, <2>7, <2>8, <2>9, <2>10, <2>11, <2>12, <2>13,
       <2>14, <2>15, <2>16 DEF ThreadStep
<1>6. CASE sigintHandler \/ UNCHANGED vars
  BY <1>6 DEF sigintHandler, vars, network, OneNumber, Owned
<1> QED
  BY <1>1, <1>2, <1>3, <1>4, <1>5, <1>6 DEF Next, ClientStep

-----------------------------------------------------------------------------
\* Connections

\* What the steps of the threads leave alone
LEMMA ThreadsDoNotConnect ==
  ASSUME Types, NEW t \in Thread, ThreadStep(t)
  PROVE  /\ UNCHANGED <<client, queue, main, new_socket>>
         /\ thread[t].pc # "none" /\ thread'[t].pc # "none"
         /\ \A u \in Thread : u # t => thread'[u] = thread[u]
<1>1. thread \in [Thread -> ThreadState]
  BY DEF Types
<1> USE DEF In, Goto, network
<1>2. CASE process_communication_thread(t) \/ Select(t) \/ BeginRead(t) \/ EndRead(t)
  BY <1>1, <1>2 DEF process_communication_thread, Select, BeginRead, EndRead, ThreadState
<1>3. CASE sem_wait(t) \/ Pipe(t) \/ db_handle(t) \/ fclose(t) \/ sem_post(t)
  BY <1>1, <1>3 DEF sem_wait, Pipe, db_handle, fclose, sem_post, ThreadState
<1>4. CASE ReadAnswer(t)
  <2>1. /\ UNCHANGED <<client, queue, main, new_socket>> /\ thread[t].pc = "answer"
        /\ \E text : thread' = [thread EXCEPT ![t].pc = "write", ![t].answer = text]
    BY <1>4 DEF ReadAnswer
  <2> QED
    BY <1>1, <2>1 DEF ThreadState
<1>5. CASE WriteAnswer(t) \/ ClosePipeOut(t) \/ ClosePipeIn(t) \/ exit_thread(t)
  BY <1>1, <1>5 DEF WriteAnswer, ClosePipeOut, ClosePipeIn, exit_thread, ThreadState
<1> QED
  BY <1>2, <1>3, <1>4, <1>5 DEF ThreadStep

LEMMA ConnectionsStep ==
  ASSUME Types, Numbers, Connections, [Next]_vars PROVE Connections'
<1>1. /\ IsFiniteSet(NotConnected) /\ IsFiniteSet(NotStarted)
      /\ Cardinality(NotConnected) \in Nat /\ Cardinality(NotStarted) \in Nat
      /\ queue \in Seq(Client) /\ Len(queue) \in Nat /\ DOMAIN queue = 1..Len(queue)
  <2>1. IsFiniteSet(NotConnected) /\ IsFiniteSet(NotStarted)
    BY Counts, FS_Subset DEF NotConnected, NotStarted
  <2> QED
    BY <2>1, FS_CardinalityType DEF Types
<1>2. ASSUME NEW c \in Client, Connect(c) PROVE Connections'
  <2>1. /\ client' = [client EXCEPT ![c] = "connected"] /\ client[c] = "off"
        /\ queue' = Append(queue, c) /\ UNCHANGED <<thread, main>>
    BY <1>2 DEF Connect
  <2>2. c \notin ToSet(queue) /\ \A i \in DOMAIN queue : queue[i] # c
    BY <2>1 DEF Connections, ToSet
  <2>3. ToSet(queue') = ToSet(queue) \cup {c}
    BY <2>1, QueueEntries
  <2>4. /\ Len(queue') = Len(queue) + 1 /\ DOMAIN queue' = 1..(Len(queue) + 1)
        /\ \A i \in 1..Len(queue) : queue'[i] = queue[i]
        /\ queue'[Len(queue) + 1] = c
    BY <1>1, <2>1, AppendProperties
  <2>5. \A i, j \in DOMAIN queue' : queue'[i] = queue'[j] => i = j
    BY <1>1, <2>2, <2>4 DEF Connections
  <2>6. \A d \in ToSet(queue') : client'[d] # "off"
    BY <2>1, <2>3 DEF Connections, Types
  <2>7. NotConnected' = NotConnected \ {c} /\ c \in NotConnected /\ NotStarted' = NotStarted
    BY <2>1 DEF NotConnected, NotStarted, Types
  <2>8. Cardinality(NotConnected') = Cardinality(NotConnected) - 1
    BY <1>1, <2>7, FS_RemoveElement
  <2> QED
    BY <1>1, <2>1, <2>4, <2>5, <2>6, <2>7, <2>8 DEF Connections
<1>3. ASSUME NEW c \in Client, Send(c) \/ Receive(c) PROVE Connections'
  <2>1. UNCHANGED <<queue, main, thread>>
    BY <1>3 DEF Send, Receive
  <2>2. \A d \in Client : client'[d] = "off" <=> client[d] = "off"
    BY <1>3 DEF Send, Receive, Types
  <2>3. NotConnected' = NotConnected /\ NotStarted' = NotStarted
    BY <2>1, <2>2 DEF NotConnected, NotStarted
  <2>4. ToSet(queue) \subseteq Client
    BY <1>1 DEF ToSet
  <2> QED
    BY <2>1, <2>2, <2>3, <2>4 DEF Connections
<1>4. CASE accept
  <2>1. /\ queue # <<>> /\ queue' = Tail(queue) /\ UNCHANGED <<client, thread>>
        /\ main = "accept" /\ main' = "create"
    BY <1>4 DEF accept
  <2>2. ToSet(queue') = ToSet(queue) \ {Head(queue)}
    BY <2>1, QueueEntries
  <2>3. /\ Len(queue') = Len(queue) - 1 /\ DOMAIN queue' = 1..(Len(queue) - 1)
        /\ \A i \in 1..(Len(queue) - 1) : queue'[i] = queue[i + 1]
    BY <1>1, <2>1, HeadTailProperties
  <2>4. \A i, j \in DOMAIN queue' : queue'[i] = queue'[j] => i = j
    <3> SUFFICES ASSUME NEW i \in DOMAIN queue', NEW j \in DOMAIN queue', queue'[i] = queue'[j]
                 PROVE  i = j
      OBVIOUS
    <3>1. i + 1 \in DOMAIN queue /\ j + 1 \in DOMAIN queue /\ i \in Int /\ j \in Int
      BY <1>1, <2>3
    <3>2. queue[i + 1] = queue[j + 1]
      BY <1>1, <2>3
    <3>3. i + 1 = j + 1
      BY <3>1, <3>2 DEF Connections
    <3> QED
      BY <3>1, <3>3
  <2>5. NotConnected' = NotConnected /\ NotStarted' = NotStarted
    BY <2>1 DEF NotConnected, NotStarted
  <2> QED
    BY <1>1, <2>1, <2>2, <2>3, <2>4, <2>5 DEF Connections
<1>5. CASE pthread_create
  <2> DEFINE t == Min(NotStarted)
  <2>1. /\ thread' = [thread EXCEPT ![t].pc = "start"] /\ main = "create" /\ main' = "accept"
        /\ UNCHANGED <<client, queue>>
    BY <1>5 DEF pthread_create, Goto, NotStarted, network
  <2>2. t \in NotStarted
    BY <1>5, StartsOne, LeastOf, Counts DEF NotStarted
  <2> HIDE DEF t
  <2>3. NotStarted' = NotStarted \ {t} /\ NotConnected' = NotConnected
    BY <2>1, <2>2 DEF NotStarted, NotConnected, Types, ThreadState
  <2>4. Cardinality(NotStarted') = Cardinality(NotStarted) - 1
    BY <1>1, <2>2, <2>3, FS_RemoveElement
  <2> QED
    BY <1>1, <2>1, <2>3, <2>4 DEF Connections
<1>6. ASSUME NEW t \in Thread, ThreadStep(t) PROVE Connections'
  <2>1. NotStarted' = NotStarted /\ NotConnected' = NotConnected
    BY <1>6, ThreadsDoNotConnect DEF NotStarted, NotConnected
  <2> QED
    BY <1>6, <2>1, ThreadsDoNotConnect DEF Connections
<1>7. CASE sigintHandler \/ UNCHANGED vars
  <2>1. UNCHANGED <<client, queue, main, thread>>
    BY <1>7 DEF sigintHandler, vars, network
  <2> QED
    BY <2>1 DEF Connections, NotStarted, NotConnected
<1> QED
  BY <1>2, <1>3, <1>4, <1>5, <1>6, <1>7 DEF Next, ClientStep

-----------------------------------------------------------------------------
\* The database

Inside == {t \in Thread : thread[t].pc \in InDatabase}

LEMMA ExclusiveStep ==
  ASSUME Types, Connections, DbExclusive, [Next]_vars PROVE DbExclusive'
<1>1. IsFiniteSet(Inside) /\ Cardinality(Inside) \in Nat
  <2>1. IsFiniteSet(Inside)
    BY Counts, FS_Subset DEF Inside
  <2> QED
    BY <2>1, FS_CardinalityType
<1>2. Cardinality(Inside) <= 1 /\ semaphore = 1 - Cardinality(Inside)
  BY DEF DbExclusive, Inside
<1>3. ASSUME Inside' = Inside, semaphore' = semaphore PROVE DbExclusive'
  BY <1>2, <1>3 DEF DbExclusive, Inside
<1>4. ASSUME NEW t \in Thread, ThreadStep(t) PROVE DbExclusive'
  <2>1. /\ thread \in [Thread -> ThreadState] /\ thread[t] \in ThreadState
        /\ \A u \in Thread : u # t => thread'[u] = thread[u]
    BY <1>4, ThreadsDoNotConnect DEF Types
  <2>2. CASE sem_wait(t)
    <3>1. semaphore > 0 /\ semaphore' = semaphore - 1 /\ thread[t].pc = "wait" /\ thread'[t].pc = "pipe"
      BY <2>1, <2>2 DEF sem_wait, In, Goto, ThreadState
    <3>2. Inside' = Inside \cup {t} /\ t \notin Inside
      BY <2>1, <3>1 DEF Inside, InDatabase
    <3>3. Cardinality(Inside') = Cardinality(Inside) + 1
      BY <1>1, <3>2, FS_AddElement
    <3> QED
      BY <1>1, <1>2, <3>1, <3>3 DEF DbExclusive, Inside
  <2>3. CASE sem_post(t)
    <3>1. semaphore' = semaphore + 1 /\ thread[t].pc = "post" /\ thread'[t].pc = "answer"
      BY <2>1, <2>3 DEF sem_post, In, Goto, ThreadState
    <3>2. Inside' = Inside \ {t} /\ t \in Inside
      BY <2>1, <3>1 DEF Inside, InDatabase
    <3>3. Cardinality(Inside') = Cardinality(Inside) - 1
      BY <1>1, <3>2, FS_RemoveElement
    <3> QED
      BY <1>1, <1>2, <3>1, <3>3 DEF DbExclusive, Inside
  <2>4. ASSUME thread[t].pc \in InDatabase <=> thread'[t].pc \in InDatabase, semaphore' = semaphore
        PROVE  DbExclusive'
    <3>1. Inside' = Inside
      BY <2>1, <2>4 DEF Inside
    <3> QED
      BY <1>3, <2>4, <3>1
  <2> USE DEF In, Goto, InDatabase
  <2>5. CASE process_communication_thread(t) \/ Select(t) \/ BeginRead(t) \/ EndRead(t)
    BY <2>1, <2>4, <2>5 DEF process_communication_thread, Select, BeginRead, EndRead, ThreadState
  <2>6. CASE Pipe(t) \/ db_handle(t) \/ fclose(t)
    BY <2>1, <2>4, <2>6 DEF Pipe, db_handle, fclose, ThreadState
  <2>7. CASE ReadAnswer(t)
    <3>1. /\ thread[t].pc = "answer" /\ semaphore' = semaphore
          /\ \E text : thread' = [thread EXCEPT ![t].pc = "write", ![t].answer = text]
      BY <2>7 DEF ReadAnswer
    <3> QED
      BY <2>1, <2>4, <3>1 DEF ThreadState
  <2>8. CASE WriteAnswer(t) \/ ClosePipeOut(t) \/ ClosePipeIn(t) \/ exit_thread(t)
    BY <2>1, <2>4, <2>8 DEF WriteAnswer, ClosePipeOut, ClosePipeIn, exit_thread, ThreadState
  <2> QED
    BY <1>4, <2>2, <2>3, <2>5, <2>6, <2>7, <2>8 DEF ThreadStep
<1>5. CASE pthread_create
  <2>1. Min(NotStarted) \in NotStarted
    BY <1>5, StartsOne, LeastOf, Counts DEF NotStarted
  <2>2. thread' = [thread EXCEPT ![Min(NotStarted)].pc = "start"] /\ semaphore' = semaphore
    BY <1>5 DEF pthread_create, Goto, NotStarted
  <2>3. \A t \in Thread : thread'[t].pc \in InDatabase <=> thread[t].pc \in InDatabase
    BY <2>1, <2>2 DEF NotStarted, Types, ThreadState, InDatabase
  <2>4. Inside' = Inside
    BY <2>3 DEF Inside
  <2> QED
    BY <1>3, <2>2, <2>4
<1>6. CASE accept \/ (\E c \in Client : ClientStep(c)) \/ sigintHandler \/ UNCHANGED vars
  <2>1. thread' = thread /\ semaphore' = semaphore
    BY <1>6 DEF accept, ClientStep, Connect, Send, Receive, sigintHandler, vars
  <2> QED
    BY <1>3, <2>1 DEF Inside
<1> QED
  BY <1>4, <1>5, <1>6 DEF Next

-----------------------------------------------------------------------------
\* The line of a client

\* What holds the line after a step has held it before, or is where it went.
Moves(c, from, to) ==
  \A p : IsAt(c, p)' => \/ IsAt(c, p) /\ p # from
                        \/ p = to /\ IsAt(c, from)

LEMMA StaysOnce ==
  ASSUME NEW c, AtOnePlace(c), executed'[c] \in {0, 1}, lines'[c] \in {Empty, Line(c)},
         NEW from, NEW to,
         Moves(c, from, to)
  PROVE  AtOnePlace(c)'
<1>1. ASSUME NEW p, NEW q, IsAt(c, p)', IsAt(c, q)' PROVE p = q
  <2>1. \A x, y : IsAt(c, x) /\ IsAt(c, y) => x = y
    BY DEF AtOnePlace
  <2> QED
    BY <1>1, <2>1 DEF Moves
<1> QED
  BY <1>1 DEF AtOnePlace

LEMMA NothingMoves ==
  ASSUME NEW c, AtOnePlace(c), executed'[c] = executed[c], lines'[c] \in {lines[c], Empty},
         client'[c] \in {"off", "connected"} => client[c] \in {"off", "connected"},
         \A t \in Thread : /\ pipe'[t] = Line(c) => pipe[t] = Line(c)
                           /\ HasLine(t, c)' => HasLine(t, c)
                           /\ HasAnswer(t, c)' => HasAnswer(t, c)
  PROVE  AtOnePlace(c)'
<1>1. \A p : IsAt(c, p)' => IsAt(c, p)
  BY DEF IsAt
<1>2. executed'[c] \in {0, 1} /\ lines'[c] \in {Empty, Line(c)}
  BY DEF AtOnePlace
<1>3. \A p, q : IsAt(c, p) /\ IsAt(c, q) => p = q
  BY DEF AtOnePlace
<1>4. \A p, q : IsAt(c, p)' /\ IsAt(c, q)' => p = q
  BY <1>1, <1>3
<1> QED
  BY <1>2, <1>4 DEF AtOnePlace

\* The line in a text goes from a socket or a pipe to a buffer of a thread.
LEMMA Drained ==
  ASSUME Types, Once, NEW file \in Files, file.kind \in {"socket", "out"}, Drain(file),
         UNCHANGED <<client, executed>>, NEW c \in Client, NEW t \in Thread, NEW to,
         to \in {Place("line", t), Place("answer", t)},
         ~HasLine(t, c), ~HasAnswer(t, c),
         \A u \in Thread \ {t} : thread'[u] = thread[u],
         HasLine(t, c)' => to = Place("line", t) /\ Content(file) = Line(c),
         HasAnswer(t, c)' => to = Place("answer", t) /\ Content(file) = Line(c)
  PROVE  AtOnePlace(c)'
<1> DEFINE from == IF file.kind = "socket" THEN Place("socket", 0) ELSE Place("pipe", file.of)
<1>1. /\ AtOnePlace(c) /\ lines \in [Client -> Texts] /\ pipe \in [Thread -> Texts]
      /\ \A d \in Client : lines[d] \in {Empty, Line(d)}
  BY DEF Once, AtOnePlace, Types
<1>2. CASE Content(file) = Line(c)
  <2>1. \A d : Line(d) = Line(c) => d = c
    BY DEF Line
  <2>2. Line(c) # Empty
    BY DEF Line, Empty
  <2>3. IsAt(c, from) /\ file.kind = "socket" => file.of = c
    BY <1>1, <1>2, <2>1, <2>2, Members DEF Content, IsAt
  <2>4. IsAt(c, from)
    BY <1>1, <1>2, <2>1, <2>2, Members DEF Content, IsAt
  <2>5. file.kind = "socket" => lines'[c] = Empty /\ pipe' = pipe /\ file.of = c
    BY <1>1, <2>3, <2>4 DEF Drain
  <2>6. file.kind = "out" => lines' = lines /\ \A u \in Thread : pipe'[u] = IF u = file.of THEN Empty ELSE pipe[u]
    BY <1>1 DEF Drain
  <2>7. ASSUME NEW p, IsAt(c, p)'
        PROVE  \/ IsAt(c, p) /\ p # from
               \/ p = to /\ IsAt(c, from)
    <3>1. \A u \in Thread \ {t} : (HasLine(u, c)' <=> HasLine(u, c)) /\ (HasAnswer(u, c)' <=> HasAnswer(u, c))
      BY DEF HasLine, HasAnswer
    <3>2. CASE p = Place("new", 0) \/ p = Place("executed", 0)
      BY <2>7, <3>2 DEF IsAt, Place
    <3>3. CASE p = Place("socket", 0)
      BY <2>5, <2>6, <2>7, <3>3 DEF IsAt, Place
    <3>4. ASSUME NEW u \in Thread, p = Place("pipe", u), pipe'[u] = Line(c)
          PROVE  IsAt(c, p) /\ p # from
      BY <2>2, <2>5, <2>6, <3>4 DEF IsAt, Place
    <3>5. ASSUME NEW u \in Thread, \/ p = Place("line", u) /\ HasLine(u, c)'
                                   \/ p = Place("answer", u) /\ HasAnswer(u, c)'
          PROVE  \/ IsAt(c, p) /\ p # from
                 \/ p = to
      BY <3>1, <3>5 DEF IsAt, Place
    <3> QED
      BY <2>4, <2>7, <3>2, <3>3, <3>4, <3>5 DEF IsAt
  <2>8. lines'[c] \in {Empty, Line(c)} /\ executed'[c] \in {0, 1}
    BY <1>1, <2>5, <2>6 DEF AtOnePlace
  <2> HIDE DEF from
  <2>9. Moves(c, from, to)
    BY <2>7 DEF Moves
  <2> QED
    BY <1>1, <2>8, <2>9, StaysOnce
<1>3. CASE Content(file) # Line(c)
  <2>1. lines'[c] \in {lines[c], Empty} /\ \A u \in Thread : pipe'[u] \in {pipe[u], Empty}
    BY <1>1 DEF Drain
  <2>2. Empty # Line(c)
    BY DEF Line, Empty
  <2>3. \A u \in Thread : /\ HasLine(u, c)' => HasLine(u, c)
                          /\ HasAnswer(u, c)' => HasAnswer(u, c)
    BY <1>3 DEF HasLine, HasAnswer
  <2> QED
    BY <1>1, <2>1, <2>2, <2>3, NothingMoves
<1> QED
  BY <1>2, <1>3

LEMMA OnceStep ==
  ASSUME Types, Numbers, Connections, Once, [Next]_vars PROVE Once'
<1> SUFFICES ASSUME NEW c \in Client PROVE AtOnePlace(c)'
  BY DEF Once
<1>1. AtOnePlace(c) /\ thread \in [Thread -> ThreadState] /\ lines \in [Client -> Texts]
      /\ pipe \in [Thread -> Texts] /\ client \in [Client -> {"off", "connected", "sent", "closed"}]
      /\ executed \in [Client -> Nat]
  BY DEF Once, Types
<1>2. \A d : (Line(d) = Line(c) => d = c) /\ Line(d) # Empty /\ Line(d) # Other /\ Reply(d) # Line(c)
  BY DEF Line, Empty, Other, Reply
<1>3. ASSUME NEW d \in Client, Connect(d) PROVE AtOnePlace(c)'
  BY <1>1, <1>3, NothingMoves DEF Connect, HasLine, HasAnswer
<1>4. ASSUME NEW d \in Client, Receive(d) PROVE AtOnePlace(c)'
  BY <1>1, <1>4, NothingMoves DEF Receive, HasLine, HasAnswer
<1>5. ASSUME NEW d \in Client, Send(d) PROVE AtOnePlace(c)'
  <2>1. /\ client[d] = "connected" /\ client' = [client EXCEPT ![d] = "sent"]
        /\ lines' = [lines EXCEPT ![d] = Line(d)] /\ UNCHANGED <<pipe, thread, executed>>
    BY <1>5 DEF Send
  <2>2. \A t \in Thread : (HasLine(t, c)' <=> HasLine(t, c)) /\ (HasAnswer(t, c)' <=> HasAnswer(t, c))
    BY <2>1 DEF HasLine, HasAnswer
  <2>3. CASE d = c
    <3>1. lines'[c] = Line(c) /\ client'[c] = "sent" /\ executed'[c] \in {0, 1}
      BY <1>1, <2>1, <2>3 DEF AtOnePlace
    <3>2. IsAt(c, Place("new", 0))
      BY <2>1, <2>3 DEF IsAt
    <3>3. ASSUME NEW p, IsAt(c, p)'
          PROVE  \/ IsAt(c, p) /\ p # Place("new", 0)
                 \/ p = Place("socket", 0) /\ IsAt(c, Place("new", 0))
      BY <2>1, <2>2, <3>1, <3>2, <3>3 DEF IsAt, Place
    <3>4. Moves(c, Place("new", 0), Place("socket", 0))
      BY <3>3 DEF Moves
    <3> QED
      BY <1>1, <3>1, <3>4, StaysOnce
  <2>4. CASE d # c
    BY <1>1, <2>1, <2>2, <2>4, NothingMoves
  <2> QED
    BY <2>3, <2>4
<1>6. ASSUME NEW t \in Thread, ThreadStep(t) PROVE AtOnePlace(c)'
  <2>1. /\ client' = client /\ thread[t] \in ThreadState
        /\ \A u \in Thread : u # t => thread'[u] = thread[u]
    BY <1>1, <1>6, ThreadsDoNotConnect
  <2>2. \A u \in Thread \ {t} : (HasLine(u, c)' <=> HasLine(u, c)) /\ (HasAnswer(u, c)' <=> HasAnswer(u, c))
    BY <2>1 DEF HasLine, HasAnswer
  <2>3. ASSUME executed' = executed, lines' = lines,
               \A u \in Thread : pipe'[u] = Line(c) => pipe[u] = Line(c),
               HasLine(t, c)' => HasLine(t, c), HasAnswer(t, c)' => HasAnswer(t, c)
        PROVE  AtOnePlace(c)'
    BY <1>1, <2>1, <2>2, <2>3, NothingMoves
  <2>4. CASE process_communication_thread(t) \/ Select(t) \/ BeginRead(t)
    BY <1>1, <2>1, <2>3, <2>4 DEF process_communication_thread, Select, BeginRead, Goto, network,
                                  HasLine, HasAnswer, ThreadState
  <2>5. CASE EndRead(t)
    <3> DEFINE file == thread[t].file
    <3>1. file \in Files /\ file.kind \in {"socket", "out"} /\ Drain(file) /\ thread[t].pc = "reading"
      BY <2>1, <2>5 DEF EndRead, Readable, ThreadState, In
    <3>2. thread'[t].line = Content(file) /\ thread'[t].pc \in {"wait", "exit"} /\ executed' = executed
      BY <1>1, <2>1, <2>5 DEF EndRead, ThreadState
    <3>3. /\ ~HasLine(t, c) /\ ~HasAnswer(t, c) /\ ~HasAnswer(t, c)'
          /\ HasLine(t, c)' => Content(file) = Line(c)
      <4> HIDE DEF file
      <4> QED
        BY <3>1, <3>2 DEF HasLine, HasAnswer
    <3> HIDE DEF file
    <3> QED
      BY <2>1, <3>1, <3>2, <3>3, Drained
  <2>6. CASE sem_wait(t)
    BY <1>1, <2>1, <2>3, <2>6 DEF sem_wait, Goto, network, In, HasLine, HasAnswer, ThreadState
  <2>7. CASE Pipe(t)
    BY <1>1, <1>2, <2>1, <2>3, <2>7 DEF Pipe, Goto, network, In, HasLine, HasAnswer, ThreadState
  <2>8. CASE db_handle(t)
    <3>1. /\ thread[t].pc = "handle" /\ thread'[t].pc = "fclose" /\ UNCHANGED <<lines, pipe>>
          /\ thread[t].line \in Texts
      BY <1>1, <2>1, <2>8 DEF db_handle, In, Goto, network, ThreadState
    <3>2. CASE thread[t].line = Line(c)
      <4>1. IsAt(c, Place("line", t))
        BY <3>1, <3>2 DEF IsAt, HasLine
      <4>2. executed[c] = 0
        BY <1>1, <4>1 DEF AtOnePlace, IsAt, Place
      <4>3. executed'[c] = 1
        BY <1>1, <2>8, <3>2, <4>2 DEF db_handle, Line
      <4>4. ~HasLine(t, c)' /\ ~HasAnswer(t, c)'
        BY <3>1 DEF HasLine, HasAnswer
      <4>5. ASSUME NEW p, IsAt(c, p)'
            PROVE  \/ IsAt(c, p) /\ p # Place("line", t)
                   \/ p = Place("executed", 0) /\ IsAt(c, Place("line", t))
        <5>1. lines' = lines /\ pipe' = pipe /\ client' = client
          BY <2>1, <3>1
        <5>2. \A u \in Thread : /\ HasLine(u, c)' => u # t /\ HasLine(u, c)
                                /\ HasAnswer(u, c)' => HasAnswer(u, c)
          BY <2>2, <4>4
        <5>3. CASE p = Place("new", 0) \/ p = Place("socket", 0) \/ p = Place("executed", 0)
          BY <4>1, <4>5, <5>1, <5>3 DEF IsAt, Place
        <5>4. ASSUME NEW u \in Thread, \/ p = Place("pipe", u) /\ pipe'[u] = Line(c)
                                       \/ p = Place("line", u) /\ HasLine(u, c)'
                                       \/ p = Place("answer", u) /\ HasAnswer(u, c)'
              PROVE  IsAt(c, p) /\ p # Place("line", t)
          BY <5>1, <5>2, <5>4 DEF IsAt, Place
        <5> QED
          BY <4>5, <5>3, <5>4 DEF IsAt
      <4>6. lines'[c] \in {Empty, Line(c)}
        BY <1>1, <3>1 DEF AtOnePlace
      <4>7. Moves(c, Place("line", t), Place("executed", 0))
        BY <4>5 DEF Moves
      <4> QED
        BY <1>1, <4>3, <4>6, <4>7, StaysOnce
    <3>3. CASE thread[t].line # Line(c)
      <4>1. executed'[c] = executed[c]
        BY <1>1, <2>8, <3>1, <3>3 DEF db_handle, Texts, Line, Reply, Other, Empty
      <4>2. \A u \in Thread : (HasLine(u, c)' => HasLine(u, c)) /\ (HasAnswer(u, c)' => HasAnswer(u, c))
        BY <2>2, <3>1 DEF HasLine, HasAnswer
      <4> QED
        BY <1>1, <2>1, <3>1, <4>1, <4>2, NothingMoves
    <3> QED
      BY <3>2, <3>3
  <2>9. CASE fclose(t)
    <3>1. Answer(thread[t].line) # Line(c)
      BY <1>2 DEF Answer
    <3>2. \A u \in Thread : pipe'[u] = Line(c) => pipe[u] = Line(c)
      BY <1>1, <2>9, <3>1 DEF fclose, Write
    <3>3. thread[t].pc = "fclose" /\ thread'[t].pc = "post" /\ executed' = executed /\ lines' = lines
      BY <1>1, <2>1, <2>9 DEF fclose, In, Goto, ThreadState
    <3> QED
      BY <2>3, <3>2, <3>3 DEF HasLine, HasAnswer
  <2>10. CASE sem_post(t)
    BY <1>1, <2>1, <2>3, <2>10 DEF sem_post, Goto, network, HasLine, HasAnswer, ThreadState
  <2>11. CASE ReadAnswer(t)
    <3> DEFINE file == fd[thread[t].out]
    <3>1. file \in Files /\ thread[t].pc = "answer" /\ executed' = executed
      BY <2>1, <2>11 DEF ReadAnswer, In, ThreadState, Types
    <3>2. CASE file.kind \in {"free", "in"}
      <4>1. UNCHANGED <<lines, pipe>> /\ thread' = [thread EXCEPT ![t].pc = "write", ![t].answer = Empty]
        BY <2>11, <3>2 DEF ReadAnswer
      <4>2. thread'[t].pc = "write" /\ thread'[t].answer = Empty
        BY <1>1, <2>1, <4>1 DEF ThreadState
      <4>3. ~HasLine(t, c)' /\ ~HasAnswer(t, c)'
        BY <1>2, <4>2 DEF HasLine, HasAnswer
      <4> QED
        BY <2>3, <3>1, <4>1, <4>3
    <3>3. CASE ~(file.kind \in {"free", "in"})
      <4>1. /\ Readable(file) /\ Drain(file)
            /\ thread' = [thread EXCEPT ![t].pc = "write", ![t].answer = Content(file)]
        BY <2>11, <3>3 DEF ReadAnswer
      <4>2. file.kind \in {"socket", "out"}
        BY <4>1 DEF Readable
      <4> HIDE DEF file
      <4>3. thread'[t].pc = "write" /\ thread'[t].answer = Content(file)
        BY <1>1, <2>1, <4>1 DEF ThreadState
      <4>4. /\ ~HasLine(t, c) /\ ~HasAnswer(t, c) /\ ~HasLine(t, c)'
            /\ HasAnswer(t, c)' => Content(file) = Line(c)
        BY <3>1, <4>3 DEF HasLine, HasAnswer
      <4> QED
        BY <2>1, <3>1, <4>1, <4>2, <4>4, Drained
    <3> QED
      BY <3>2, <3>3
  <2>12. CASE WriteAnswer(t)
    <3> DEFINE file == File(t)
               text == IF thread[t].answer = Empty THEN Other ELSE thread[t].answer
    <3>1. file \in Files /\ thread[t].pc = "write" /\ thread'[t].pc = "close"
          /\ executed' = executed /\ lines' = lines
      BY <1>1, <2>1, <2>12 DEF WriteAnswer, In, Goto, File, ThreadState, Types
    <3>2. pipe' = IF file.kind = "in" THEN [pipe EXCEPT ![file.of] = text] ELSE pipe
      BY <2>12 DEF WriteAnswer, Write
    <3>3. ~HasLine(t, c)' /\ ~HasAnswer(t, c)'
      BY <3>1 DEF HasLine, HasAnswer
    <3>4. CASE text = Line(c)
      <4>1. IsAt(c, Place("answer", t))
        BY <1>2, <3>1, <3>4 DEF IsAt, HasAnswer
      <4>2. ASSUME NEW p, IsAt(c, p)'
            PROVE  \/ IsAt(c, p) /\ p # Place("answer", t)
                   \/ p = Place("pipe", file.of) /\ IsAt(c, Place("answer", t))
        <5> HIDE DEF file, text
        <5> QED
          BY <1>1, <2>1, <2>2, <3>1, <3>2, <3>3, <4>1, <4>2 DEF IsAt, Place
      <4>3. lines'[c] \in {Empty, Line(c)} /\ executed'[c] \in {0, 1}
        BY <1>1, <3>1 DEF AtOnePlace
      <4> HIDE DEF file
      <4>4. Moves(c, Place("answer", t), Place("pipe", file.of))
        BY <4>2 DEF Moves
      <4> QED
        BY <1>1, <4>3, <4>4, StaysOnce
    <3>5. CASE text # Line(c)
      <4>1. \A u \in Thread : pipe'[u] = Line(c) => pipe[u] = Line(c)
        <5> HIDE DEF file, text
        <5> QED
          BY <1>1, <3>2, <3>5
      <4> QED
        BY <2>3, <3>1, <3>3, <4>1
    <3> QED
      BY <3>4, <3>5
  <2>13. CASE ClosePipeOut(t) \/ ClosePipeIn(t) \/ exit_thread(t)
    BY <1>1, <2>1, <2>3, <2>13 DEF ClosePipeOut, ClosePipeIn, exit_thread, Goto, network,
                                   HasLine, HasAnswer, ThreadState
  <2> QED
    BY <1>6, <2>4, <2>5, <2>6, <2>7, <2>8, <2>9, <2>10, <2>11, <2>12, <2>13 DEF ThreadStep
<1>7. CASE pthread_create
  <2>1. Min(NotStarted) \in NotStarted
    BY <1>7, StartsOne, LeastOf, Counts DEF NotStarted
  <2>2. /\ thread' = [thread EXCEPT ![Min(NotStarted)].pc = "start"]
        /\ UNCHANGED <<client, lines, pipe, executed>>
    BY <1>7 DEF pthread_create, Goto, NotStarted, network
  <2>3. \A t \in Thread : (HasLine(t, c)' => HasLine(t, c)) /\ (HasAnswer(t, c)' => HasAnswer(t, c))
    BY <1>1, <2>1, <2>2 DEF HasLine, HasAnswer, ThreadState, NotStarted
  <2> QED
    BY <1>1, <2>2, <2>3, NothingMoves
<1>8. CASE accept \/ sigintHandler \/ UNCHANGED vars
  <2>1. UNCHANGED <<client, lines, pipe, thread, executed>>
    BY <1>8 DEF accept, sigintHandler, vars, network
  <2> QED
    BY <1>1, <2>1, NothingMoves DEF HasLine, HasAnswer
<1> QED
  BY <1>3, <1>4, <1>5, <1>6, <1>7, <1>8 DEF Next, ClientStep

-----------------------------------------------------------------------------
\* The theorems

LEMMA InitIInv == ASSUME Init PROVE IInv
<1>1. /\ IsFiniteSet({}) /\ Cardinality({}) = 0 /\ Cardinality(Client) \in Nat
      /\ \A c \in Client : client[c] = "off" /\ lines[c] = Empty /\ executed[c] = 0
      /\ \A f \in Fd : fd[f] = Free
      /\ \A t \in Thread : thread[t].pc = "none" /\ pipe[t] = Empty
      /\ queue = <<>> /\ main = "accept" /\ semaphore = 1
  BY Counts, FS_EmptySet DEF Init
<1>2. Types
  <2>1. Thread # {} => 1 \in Fd /\ 1 \in Thread
    BY Counts DEF Thread, Fd
  <2>2. ASSUME NEW t \in Thread
        PROVE  [pc |-> "none", socket |-> 1, file |-> Free, line |-> Empty,
                out |-> 1, in |-> 1, answer |-> Empty] \in ThreadState
    BY <2>1, Members DEF ThreadState, Pc
  <2>3. /\ replies \in [Client -> Texts] /\ lines \in [Client -> Texts] /\ pipe \in [Thread -> Texts]
        /\ fd \in [Fd -> Files]
    BY Members DEF Init
  <2>4. thread \in [Thread -> ThreadState]
    BY <2>2 DEF Init
  <2> QED
    BY <2>1, <2>3, <2>4 DEF Init, Types
<1>3. Numbers
  BY <1>1, FilesDiffer DEF Numbers, OneNumber, Owned
<1>4. Connections
  <2>1. ToSet(queue) = {} /\ DOMAIN queue = {} /\ Len(queue) = 0
    BY <1>1 DEF ToSet
  <2>2. NotStarted = Thread /\ NotConnected = Client
    BY <1>1 DEF NotStarted, NotConnected
  <2> QED
    BY <1>1, <2>1, <2>2, Counts DEF Connections
<1>5. DbExclusive
  <2>1. Inside = {}
    BY <1>1 DEF Inside, InDatabase
  <2>2. Cardinality(Inside) = 0
    BY <1>1, <2>1
  <2> QED
    BY <1>1, <2>2 DEF DbExclusive, Inside
<1>6. ASSUME NEW c \in Client PROVE AtOnePlace(c)
  <2>1. Line(c) # Empty
    BY DEF Line, Empty
  <2>2. \A p : IsAt(c, p) => p = Place("new", 0)
    BY <1>1, <2>1 DEF IsAt, HasLine, HasAnswer
  <2> QED
    BY <1>1, <2>2 DEF AtOnePlace
<1> QED
  BY <1>2, <1>3, <1>4, <1>5, <1>6 DEF IInv, Once

LEMMA SpecInv == Spec => []IInv
<1>1. Init => IInv
  BY InitIInv
<1>2. IInv /\ [Next]_vars => IInv'
  BY TypesStep, NumbersStep, ConnectionsStep, ExclusiveStep, OnceStep DEF IInv
<1> QED
  BY <1>1, <1>2, PTL DEF Spec

\* No two numbers stand for the same file, and every number a thread or main
\* holds is one the process can have: the closes of numbers that fclose has
\* already closed never make the system run out of them, for any number of clients.
THEOREM ServerTypeCorrect == Spec => []TypeOK
<1>1. IInv => TypeOK
  <2> SUFFICES ASSUME IInv PROVE TypeOK
    OBVIOUS
  <2>1. \A t \in Thread : thread[t] \in ThreadState
    BY DEF IInv, Types
  <2>2. ASSUME NEW t \in Thread
        PROVE  /\ {thread[t].socket, thread[t].in, thread[t].out} \subseteq Fd
               /\ thread[t].file \in Files /\ {thread[t].line, thread[t].answer} \subseteq Texts
    BY <2>1 DEF ThreadState
  <2> QED
    BY <2>2 DEF TypeOK, IInv, Types, Numbers, OneNumber
<1> QED
  BY <1>1, SpecInv, PTL

\* At most one thread is between sem_wait and sem_post, and the semaphore counts
\* it, for any number of clients.
THEOREM OneThreadInDatabase == Spec => []DbExclusive
<1>1. IInv => DbExclusive
  BY DEF IInv
<1> QED
  BY <1>1, SpecInv, PTL

\* db_handle gets the line of a client at most once, whatever sockets and pipes
\* the threads mistake for their own.
THEOREM LineExecutedOnce == Spec => []ExecutedOnce
<1>1. IInv => ExecutedOnce
  BY DEF IInv, Once, AtOnePlace, ExecutedOnce
<1> QED
  BY <1>1, SpecInv, PTL
=============================================================================
