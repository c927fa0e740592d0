-------------------------------- MODULE Pool --------------------------------
(* The two pools of an API process under hanging vCenters and directories:    *)
(* the worker threads that run dependencies, handlers and background tasks,   *)
(* and the connections of the database engine.  A handler keeps the           *)
(* connection its user was read with while it waits for a thread, and keeps   *)
(* both while it waits for a vCenter, as a login does while it waits for the  *)
(* directory.  Sweeps run on the scheduler's own thread and share the         *)
(* connections.                                                               *)
EXTENDS Naturals, Sequences, FiniteSets

CONSTANTS Clients,      \* requests the process handles at a time
          Sweepers,     \* threads of the scheduler
          Threads,      \* worker threads (external; 40)
          Conns         \* DB_POOL_SIZE and the overflow (30)

ASSUME SizesAssumption == /\ Threads \in Nat \ {0} /\ Conns \in Nat \ {0}
                          /\ Conns < Threads
ASSUME ClientsAssumption == Clients \cap Sweepers = {}

VARIABLES pc,           \* where each request, task or sweep is
          queue,        \* clients waiting for a thread, in order
          thread,       \* those that have one
          conn          \* who holds a database connection

vars == <<pc, queue, thread, conn>>

Actors == Clients \cup Sweepers

Init ==
  /\ pc = [a \in Actors |-> "idle"]
  /\ queue = <<>> /\ thread = {} /\ conn = {}

Move(a, from, to) == pc[a] = from /\ pc' = [pc EXCEPT ![a] = to]

\* The first in the queue gets a thread (external).
Grant ==
  /\ queue # <<>>
  /\ Cardinality(thread) < Threads
  /\ thread' = thread \cup {Head(queue)}
  /\ queue' = Tail(queue)
  /\ UNCHANGED <<pc, conn>>

\* A session takes a connection at its first statement, and after each commit.
Connect == Cardinality(conn) < Conns
-----------------------------------------------------------------------------
(* Requests *)

Arrive(c) ==
  /\ Move(c, "idle", "auth")
  /\ queue' = Append(queue, c)
  /\ UNCHANGED <<thread, conn>>

\* get_current_user reads the user and returns its thread, not its connection.
Authenticate(c) ==
  /\ c \in thread /\ Connect
  /\ Move(c, "auth", "handler")
  /\ conn' = conn \cup {c}
  /\ thread' = thread \ {c}
  /\ queue' = Append(queue, c)

\* 401 or 403.
Refuse(c) ==
  /\ c \in thread /\ Connect
  /\ Move(c, "auth", "idle")
  /\ thread' = thread \ {c}
  /\ UNCHANGED <<queue, conn>>

\* login has no user to read first.  It reads the account and, for a local one,
\* checks the password and commits the audit log, which returns the connection.
LoginLocal(c) ==
  /\ c \in thread /\ Connect
  /\ Move(c, "auth", "refresh")
  /\ UNCHANGED <<queue, thread, conn>>

\* For any other it waits for the directory, in the transaction of that read.
\* Only the connection to the directory has a timeout, its answers have none.
CallDirectory(c) ==
  /\ c \in thread /\ Connect
  /\ Move(c, "auth", "directory")
  /\ conn' = conn \cup {c}
  /\ UNCHANGED <<queue, thread>>

\* The directory refuses, or its answer is written to the account and committed.
DirectoryAnswers(c) ==
  /\ \/ Move(c, "directory", "token")  /\ UNCHANGED thread
     \/ Move(c, "directory", "idle")   /\ thread' = thread \ {c}
  /\ conn' = conn \ {c}
  /\ UNCHANGED queue

\* The account is refreshed for the token, and the audit log committed.
IssueToken(c) ==
  /\ c \in thread /\ Connect
  /\ Move(c, "token", "refresh")
  /\ UNCHANGED <<queue, thread, conn>>

LeaveConnected(c) ==            \* mutant: get_db without its finally
  /\ c \in thread
  /\ Move(c, "handler", "idle")
  /\ thread' = thread \ {c}
  /\ UNCHANGED <<queue, conn>>

\* A handler that needs the database only ends, and get_db closes the session.
Handle(c) ==
  /\ c \in thread
  /\ Move(c, "handler", "idle")
  /\ thread' = thread \ {c} /\ conn' = conn \ {c}
  /\ UNCHANGED <<queue>>

\* test_vcenter, get_inventory and apply_drs wait for the vCenter themselves.
CallVcenter(c) ==
  /\ c \in thread
  /\ Move(c, "handler", "vcenter")
  /\ UNCHANGED <<queue, thread, conn>>

\* A handler that returns what it wrote commits, which returns the connection,
\* and refreshes the row, which takes one again; trigger_analysis among them.
Commit(c, row) ==
  /\ c \in thread
  /\ Move(c, "handler", row)
  /\ conn' = conn \ {c}
  /\ UNCHANGED <<queue, thread>>

Reply(c) ==
  /\ c \in thread /\ Connect
  /\ Move(c, "refresh", "idle")
  /\ thread' = thread \ {c}
  /\ UNCHANGED <<queue, conn>>

\* trigger_analysis: the session is closed before the response is sent, and the
\* task is run after it.
Respond(c) ==
  /\ c \in thread /\ Connect
  /\ Move(c, "run", "task")
  /\ thread' = thread \ {c}
  /\ queue' = Append(queue, c)
  /\ UNCHANGED conn
-----------------------------------------------------------------------------
(* Background tasks and sweeps *)

BeginUnconnected(a) ==          \* mutant: the session is closed before the scan
  /\ a \in thread \cup Sweepers /\ Connect
  /\ Move(a, "task", "vcenter")
  /\ UNCHANGED <<queue, thread, conn>>

\* The session reads run, connection and patterns, and stays in its transaction.
Begin(a) ==
  /\ a \in thread \cup Sweepers /\ Connect
  /\ Move(a, "task", "vcenter")
  /\ conn' = conn \cup {a}
  /\ UNCHANGED <<queue, thread>>

Tick(s) ==
  /\ Move(s, "idle", "task")
  /\ UNCHANGED <<queue, thread, conn>>

\* The vCenter answers or refuses; the result is committed and the session
\* closed.  The sweep goes on to its next connection or ends.
Answer(a) ==
  /\ Move(a, "vcenter", IF a \in Sweepers THEN "next" ELSE "idle")
  /\ thread' = thread \ {a} /\ conn' = conn \ {a}
  /\ UNCHANGED <<queue>>

Loop(s, to) ==
  /\ Move(s, "next", to)
  /\ UNCHANGED <<queue, thread, conn>>
-----------------------------------------------------------------------------
Waits(a) == \/ a \in thread /\ pc[a] \in {"auth", "token", "refresh", "run", "task"}
            \/ a \in Sweepers /\ pc[a] = "task"

TimeOutNever(a) == FALSE /\ UNCHANGED vars   \* mutant: no pool timeout

\* No connection for 30 seconds: the request ends with status 500 and the task,
\* or the sweep, leaves its run behind.
TimeOut(a) ==
  /\ Waits(a) /\ ~Connect
  /\ pc' = [pc EXCEPT ![a] = "idle"]
  /\ thread' = thread \ {a}
  /\ UNCHANGED <<queue, conn>>

\* What a request, a task or a sweep does next by itself.
Step(a) ==
  \/ a \in Clients /\ (\/ Authenticate(a) \/ Refuse(a) \/ LoginLocal(a)
                       \/ CallDirectory(a) \/ IssueToken(a) \/ Handle(a)
                       \/ CallVcenter(a) \/ Reply(a) \/ Respond(a)
                       \/ \E row \in {"refresh", "run"} : Commit(a, row))
  \/ a \in Sweepers /\ \E to \in {"task", "idle"} : Loop(a, to)
  \/ Begin(a) \/ TimeOut(a)

Next == \/ Grant
        \/ \E c \in Clients : Arrive(c) \/ DirectoryAnswers(c)
        \/ \E s \in Sweepers : Tick(s)
        \/ \E a \in Actors : Step(a) \/ Answer(a)

Spec == Init /\ [][Next]_vars

\* Threads are granted and steps are taken, a wait for a connection ending with
\* the connection or after its 30 seconds.  No vCenter and no
\* directory need answer.
FairSpec == Spec /\ WF_vars(Grant) /\ \A a \in Actors : WF_vars(Step(a))
-----------------------------------------------------------------------------
(* Properties *)

\* Waiting for a system that need not answer.
Remote == {"vcenter", "directory"}
Pcs == {"idle", "auth", "token", "handler", "refresh", "run", "task", "next"} \cup Remote

TypeOK ==
  /\ pc \in [Actors -> Pcs]
  /\ queue \in Seq(Clients) /\ thread \subseteq Clients /\ conn \subseteq Actors

\* A connection is held by a request between its user's read and its end or
\* commit, and by whatever waits for a vCenter or the directory, and by nothing
\* else: none leaks over any sequence of refusals, timeouts and answers.
NoLeak == conn = {a \in Actors : pc[a] \in {"handler"} \cup Remote}

\* However many vCenters and logins hang, some worker thread is left for
\* requests: each that hangs holds a connection, and there are fewer of these
\* than threads.
ThreadLeft ==
  /\ Cardinality(conn) <= Conns /\ Cardinality(thread) <= Threads
  /\ Cardinality({c \in thread : pc[c] \in Remote}) < Threads

\* So every request that does not itself wait for a vCenter or the directory is
\* answered and every task and sweep gets on or gives up, though threads wait
\* for connections and connections for threads.
Answered == \A a \in Actors :
  pc[a] \in Pcs \ ({"idle"} \cup Remote) ~> pc[a] \in {"idle"} \cup Remote
=============================================================================
