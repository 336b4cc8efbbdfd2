------------------------------- MODULE Server --------------------------------
(***************************************************************************)
(* The threads of server-side/server.c: main accepts connections and       *)
(* starts a thread for each; the threads take turns in the database under  *)
(* a semaphore and get the text of an answer through a pipe.  A client     *)
(* (client-side/client.c) connects, sends one line, waits for the answer   *)
(* and closes.                                                             *)
(*                                                                         *)
(* Sockets and pipe ends are known to the threads by number only, and the  *)
(* system hands out the lowest free number.  thread_socket and fds[] are   *)
(* such numbers, new_socket is the variable of main the threads read       *)
(* theirs from.  nb_threads is left out: it is only printed.               *)
(***************************************************************************)
EXTENDS Integers, Sequences, FiniteSets, FiniteSetsExt

CONSTANTS Client,
          Prompt,       \* whether clients send their line before a select times out
          None

ASSUME ServerAssumption == IsFiniteSet(Client) /\ Prompt \in BOOLEAN /\ None \notin Client

Thread == 1..Cardinality(Client)
Fd == 1..(3 * Cardinality(Client))      \* never exhausted: a socket and a pipe each

\* What an open number stands for
Socket(c) == [kind |-> "socket", of |-> c]
PipeOut(t) == [kind |-> "out", of |-> t]        \* fds[0]
PipeIn(t) == [kind |-> "in", of |-> t]          \* fds[1]
Free == [kind |-> "free", of |-> None]

\* A line, its answer, a line that is no command and what the database says of
\* it, and an empty buffer
Line(c) == [kind |-> "line", of |-> c]
Reply(c) == [kind |-> "reply", of |-> c]
Other == [kind |-> "other", of |-> None]
Empty == [kind |-> "empty", of |-> None]
Answer(line) == IF line.kind = "line" THEN Reply(line.of) ELSE Other

VARIABLES client,       \* what each client does: off, connected, sent, closed
          queue,        \* connections not accepted yet
          lines,        \* the line in each socket that the server has not read
          replies,      \* the first text each client is sent, Empty if none
          fd,           \* what each number stands for
          pipe,         \* the text in the pipe of each thread
          main,         \* what main does: accept, create
          new_socket,
          thread,       \* what each thread does, its numbers and buffers
          semaphore,
          executed,     \* how often the database got each client's line
          up            \* the process runs

vars == <<client, queue, lines, replies, fd, pipe, main, new_socket, thread,
          semaphore, executed, up>>
network == <<client, queue, lines, replies>>

-----------------------------------------------------------------------------
\* The lowest free numbers
FreeFds == {f \in Fd : fd[f] = Free}
Fd1 == Min(FreeFds)
Fd2 == Min(FreeFds \ {Fd1})

Holds(t, file) == thread[t].pc = "reading" /\ thread[t].file = file

\* A file is open while a number stands for it or a thread waits in read.
Open(file) == \/ \E f \in Fd : fd[f] = file
              \/ \E t \in Thread : Holds(t, file)

\* select, read: there is text, or nobody will write any
Readable(file) ==
  \/ file.kind = "socket" /\ (lines[file.of] # Empty \/ client[file.of] = "closed")
  \/ file.kind = "out" /\ (pipe[file.of] # Empty \/ ~Open(PipeIn(file.of)))

Content(file) == IF file.kind = "socket" THEN lines[file.of] ELSE pipe[file.of]
Drain(file) ==
  /\ lines' = IF file.kind = "socket" THEN [lines EXCEPT ![file.of] = Empty] ELSE lines
  /\ pipe' = IF file.kind = "out" THEN [pipe EXCEPT ![file.of] = Empty] ELSE pipe

\* write to a number: text to a client that has closed is lost, a pipe nobody
\* reads raises SIGPIPE, which ends the process.
Write(file, text) ==
  /\ replies' = IF file.kind = "socket" /\ replies[file.of] = Empty
                THEN [replies EXCEPT ![file.of] = text] ELSE replies
  /\ pipe' = IF file.kind = "in" THEN [pipe EXCEPT ![file.of] = text] ELSE pipe
  /\ up' = ~(file.kind = "in" /\ ~Open(PipeOut(file.of)))

Close(f) == fd' = [fd EXCEPT ![f] = Free]

Goto(t, pc) == thread' = [thread EXCEPT ![t].pc = pc]
In(t, pc) == up /\ thread[t].pc = pc

-----------------------------------------------------------------------------
\* The clients (send_line_receive_response)
Connect(c) ==
  /\ up /\ client[c] = "off"
  /\ client' = [client EXCEPT ![c] = "connected"]
  /\ queue' = Append(queue, c)
  /\ UNCHANGED <<lines, replies, fd, pipe, main, new_socket, thread, semaphore, executed, up>>

Send(c) ==
  /\ client[c] = "connected"
  /\ client' = [client EXCEPT ![c] = "sent"]
  /\ lines' = [lines EXCEPT ![c] = Line(c)]
  /\ UNCHANGED <<queue, replies, fd, pipe, main, new_socket, thread, semaphore, executed, up>>

\* recv returns with a text, or with none when the server has closed.
ServerClosed(c) == ~up \/ ~(Open(Socket(c)) \/ \E i \in 1..Len(queue) : queue[i] = c)
Receive(c) ==
  /\ client[c] = "sent"
  /\ replies[c] # Empty \/ ServerClosed(c)
  /\ client' = [client EXCEPT ![c] = "closed"]
  /\ UNCHANGED <<queue, lines, replies, fd, pipe, main, new_socket, thread, semaphore, executed, up>>

-----------------------------------------------------------------------------
\* main: new_socket = accept(...)
accept ==
  /\ up /\ main = "accept" /\ queue # <<>>
  /\ queue' = Tail(queue)
  /\ fd' = [fd EXCEPT ![Fd1] = Socket(Head(queue))]
  /\ new_socket' = Fd1
  /\ main' = "create"
  /\ UNCHANGED <<client, lines, replies, pipe, thread, semaphore, executed, up>>

\* pthread_create(..., &new_socket): the thread gets the address.
pthread_create ==
  /\ up /\ main = "create"
  /\ Goto(Min({t \in Thread : thread[t].pc = "none"}), "start")
  /\ main' = "accept"
  /\ UNCHANGED <<network, fd, pipe, new_socket, semaphore, executed, up>>

\* process_communication_thread reads the variable.
process_communication_thread(t) ==
  /\ In(t, "start")
  /\ thread' = [thread EXCEPT ![t].pc = "select", ![t].socket = new_socket]
  /\ UNCHANGED <<network, fd, pipe, main, new_socket, semaphore, executed, up>>

File(t) == fd[thread[t].socket]

\* select, which fails on a number that is not open and times out after 5 s
\* without text, so that the thread exits
Select(t) ==
  /\ In(t, "select")
  /\ ~(Prompt /\ File(t).kind = "socket" /\ client[File(t).of] = "connected")
  /\ Goto(t, IF File(t) # Free /\ Readable(File(t)) THEN "read" ELSE "exit")
  /\ UNCHANGED <<network, fd, pipe, main, new_socket, semaphore, executed, up>>

\* read looks the number up and waits for text.  There was some for select, but
\* another thread may have read it.
BeginRead(t) ==
  /\ In(t, "read")
  /\ thread' = [thread EXCEPT ![t].pc = IF File(t).kind \in {"free", "in"} THEN "exit" ELSE "reading",
                              ![t].file = File(t)]
  /\ UNCHANGED <<network, fd, pipe, main, new_socket, semaphore, executed, up>>

\* Mutant: the line is not cleared before the read, so that of the last command
\* is still there when the client has closed.
EndReadStale(t) ==
  /\ In(t, "reading") /\ Readable(thread[t].file)
  /\ LET read == Content(thread[t].file)
         line == IF read = Empty THEN thread[t].line ELSE read IN
       thread' = [thread EXCEPT ![t].pc = IF line = Empty THEN "exit" ELSE "wait",
                                ![t].line = line, ![t].file = Free]
  /\ Drain(thread[t].file)
  /\ UNCHANGED <<client, queue, replies, fd, main, new_socket, semaphore, executed, up>>

EndRead(t) ==
  /\ In(t, "reading") /\ Readable(thread[t].file)
  /\ LET line == Content(thread[t].file) IN
       thread' = [thread EXCEPT ![t].pc = IF line = Empty THEN "exit" ELSE "wait",
                                ![t].line = line, ![t].file = Free]
  /\ Drain(thread[t].file)
  /\ UNCHANGED <<client, queue, replies, fd, main, new_socket, semaphore, executed, up>>

\* Mutant: a semaphore that is taken does not stop the thread.
SemWaitUnblocked(t) ==
  /\ In(t, "wait")
  /\ semaphore' = semaphore - 1
  /\ Goto(t, "pipe")
  /\ UNCHANGED <<network, fd, pipe, main, new_socket, executed, up>>

\* Mutant: the semaphore is not taken.
SemWaitIgnored(t) ==
  /\ In(t, "wait")
  /\ Goto(t, "pipe")
  /\ UNCHANGED <<network, fd, pipe, main, new_socket, semaphore, executed, up>>

sem_wait(t) ==
  /\ In(t, "wait") /\ semaphore > 0
  /\ semaphore' = semaphore - 1
  /\ Goto(t, "pipe")
  /\ UNCHANGED <<network, fd, pipe, main, new_socket, executed, up>>

\* pipe(fds), fdopen(fds[1], "w")
Pipe(t) ==
  /\ In(t, "pipe")
  /\ fd' = [fd EXCEPT ![Fd1] = PipeOut(t), ![Fd2] = PipeIn(t)]
  /\ pipe' = [pipe EXCEPT ![t] = Empty]
  /\ thread' = [thread EXCEPT ![t].pc = "handle", ![t].out = Fd1, ![t].in = Fd2]
  /\ UNCHANGED <<network, main, new_socket, semaphore, executed, up>>

\* db_handle: the answer stays in the buffer of f.  It fits in the pipe: a line of
\* LINE_SIZE bytes has room for seven selects, of 8192 bytes each.
db_handle(t) ==
  /\ In(t, "handle")
  /\ LET line == thread[t].line IN
       executed' = IF line.kind = "line" THEN [executed EXCEPT ![line.of] = @ + 1] ELSE executed
  /\ Goto(t, "fclose")
  /\ UNCHANGED <<network, fd, pipe, main, new_socket, semaphore, up>>

\* fclose(f) writes the answer to the number and closes the number.
fclose(t) ==
  /\ In(t, "fclose")
  /\ Write(fd[thread[t].in], Answer(thread[t].line))
  /\ Close(thread[t].in)
  /\ Goto(t, "post")
  /\ UNCHANGED <<client, queue, lines, main, new_socket, semaphore, executed>>

\* Mutant: the semaphore is not given back.
SemPostForgotten(t) ==
  /\ In(t, "post")
  /\ Goto(t, "answer")
  /\ UNCHANGED <<network, fd, pipe, main, new_socket, semaphore, executed, up>>

sem_post(t) ==
  /\ In(t, "post")
  /\ semaphore' = semaphore + 1
  /\ Goto(t, "answer")
  /\ UNCHANGED <<network, fd, pipe, main, new_socket, executed, up>>

\* read(fds[0], answer): nothing when the number is closed or not readable, and
\* a wait when it stands for a file another thread will write to.
ReadAnswer(t) ==
  /\ In(t, "answer")
  /\ LET file == fd[thread[t].out] IN
       IF file.kind \in {"free", "in"}
       THEN /\ thread' = [thread EXCEPT ![t].pc = "write", ![t].answer = Empty]
            /\ UNCHANGED <<lines, pipe>>
       ELSE /\ Readable(file)
            /\ thread' = [thread EXCEPT ![t].pc = "write", ![t].answer = Content(file)]
            /\ Drain(file)
  /\ UNCHANGED <<client, queue, replies, fd, main, new_socket, semaphore, executed, up>>

\* write(thread_socket, answer): an empty buffer is sent as well.
WriteAnswer(t) ==
  /\ In(t, "write")
  /\ Write(File(t), IF thread[t].answer = Empty THEN Other ELSE thread[t].answer)
  /\ Goto(t, "close")
  /\ UNCHANGED <<client, queue, lines, fd, main, new_socket, semaphore, executed>>

\* close(fds[0]), and then ...
ClosePipeOut(t) ==
  /\ In(t, "close")
  /\ Close(thread[t].out)
  /\ Goto(t, "close2")
  /\ UNCHANGED <<network, pipe, main, new_socket, semaphore, executed, up>>

\* ... close(fds[1]), the number fclose has closed already
ClosePipeIn(t) ==
  /\ In(t, "close2")
  /\ Close(thread[t].in)
  /\ Goto(t, "select")
  /\ UNCHANGED <<network, pipe, main, new_socket, semaphore, executed, up>>

exit_thread(t) ==
  /\ In(t, "exit")
  /\ Close(thread[t].socket)
  /\ Goto(t, "exited")
  /\ UNCHANGED <<network, pipe, main, new_socket, semaphore, executed, up>>

\* sigintHandler: exit(0) from whatever the threads are doing
sigintHandler ==
  /\ up /\ up' = FALSE
  /\ UNCHANGED <<network, fd, pipe, main, new_socket, thread, semaphore, executed>>

Init ==
  /\ client = [c \in Client |-> "off"] /\ queue = <<>>
  /\ lines = [c \in Client |-> Empty] /\ replies = [c \in Client |-> Empty]
  /\ fd = [f \in Fd |-> Free] /\ pipe = [t \in Thread |-> Empty]
  /\ main = "accept" /\ new_socket = 1
  /\ thread = [t \in Thread |-> [pc |-> "none", socket |-> 1, file |-> Free, line |-> Empty,
                                 out |-> 1, in |-> 1, answer |-> Empty]]
  /\ semaphore = 1
  /\ executed = [c \in Client |-> 0]
  /\ up = TRUE

ThreadStep(t) ==
  \/ process_communication_thread(t) \/ Select(t) \/ BeginRead(t) \/ EndRead(t)
  \/ sem_wait(t) \/ Pipe(t) \/ db_handle(t) \/ fclose(t) \/ sem_post(t)
  \/ ReadAnswer(t) \/ WriteAnswer(t) \/ ClosePipeOut(t) \/ ClosePipeIn(t) \/ exit_thread(t)

ClientStep(c) == Connect(c) \/ Send(c) \/ Receive(c)

Next == \/ \E c \in Client : ClientStep(c)
        \/ accept \/ pthread_create
        \/ \E t \in Thread : ThreadStep(t)
        \/ sigintHandler

\* The system runs every thread and client that can go on.  Nothing orders the
\* threads at the semaphore.
Fairness == /\ WF_vars(accept \/ pthread_create)
            /\ \A t \in Thread : WF_vars(ThreadStep(t))
            /\ \A c \in Client : WF_vars(Send(c) \/ Receive(c))

Spec == Init /\ [][Next]_vars /\ Fairness

-----------------------------------------------------------------------------
Files == {Socket(c) : c \in Client} \union {Free}
         \union {PipeOut(t) : t \in Thread} \union {PipeIn(t) : t \in Thread}
Texts == {Line(c) : c \in Client} \union {Reply(c) : c \in Client} \union {Other, Empty}
InDatabase == {"pipe", "handle", "fclose", "post"}

\* TYPE: no two numbers stand for the same file.
TypeOK ==
  /\ client \in [Client -> {"off", "connected", "sent", "closed"}]
  /\ lines \in [Client -> Texts] /\ replies \in [Client -> Texts]
  /\ fd \in [Fd -> Files] /\ pipe \in [Thread -> Texts]
  /\ \A f, g \in Fd : fd[f] = fd[g] /\ f # g => fd[f] = Free
  /\ \A t \in Thread : /\ {thread[t].socket, thread[t].in, thread[t].out} \subseteq Fd
                       /\ thread[t].file \in Files
                       /\ {thread[t].line, thread[t].answer} \subseteq Texts
  /\ semaphore \in Nat /\ up \in BOOLEAN

\* One thread at a time is in the database, and the semaphore is free when none
\* is: the cache, the header and the stream of the file have no other lock.
DbExclusive == LET inside == Cardinality({t \in Thread : thread[t].pc \in InDatabase}) IN
               inside <= 1 /\ semaphore = 1 - inside

\* The database never gets a line twice, even when two threads took the same
\* socket from new_socket and both see its text in select.
ExecutedOnce == \A c \in Client : executed[c] <= 1

\* A thread that waits for the semaphore gets it, unless the process ends.
WaitersServed == \A t \in Thread : thread[t].pc = "wait" ~> (thread[t].pc # "wait" \/ ~up)

\* server.c: the answers are sent back to the client through its socket; so what a
\* client receives is the answer to its own line.
RepliesToSender == \A c, d \in Client : replies[c] = Reply(d) => c = d

\* README.md: "Launch any number of clients"; so a client that sends a line gets
\* an answer, unless the process ends.
ClientsAnswered == \A c \in Client : client[c] = "sent" ~> (replies[c] # Empty \/ ~up)
=============================================================================
