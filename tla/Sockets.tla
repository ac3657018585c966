------------------------------ MODULE Sockets -------------------------------
(***************************************************************************)
(* The part of the operating system the TCP side of the server works with, *)
(* modelled from how the server uses it: the queue of the listening        *)
(* socket, the descriptor table of the process, and the byte streams to    *)
(* the clients, as sequences of whole reply messages.                      *)
(*                                                                         *)
(* A descriptor is a small number that is given out again as soon as it    *)
(* has been closed, lowest number first (POSIX accept), so a thread that   *)
(* keeps using a closed descriptor may hit the connection of another       *)
(* client.                                                                 *)
(***************************************************************************)
EXTENDS Naturals, Sequences

CONSTANTS Conns,     \* client connections; each carries one request
          NoConn,    \* a descriptor that is not open
          MaxFd,     \* descriptors are 0 .. MaxFd
          SentKinds  \* what a client may send: see TcpServer!ServeConn

ASSUME ConnAssumption == NoConn \notin Conns
ASSUME FdAssumption == MaxFd \in Nat
ASSUME KindAssumption ==
  SentKinds \subseteq {"full", "overlong", "truncated", "short", "badmagic",
                       "zero", "tiny", "empty"}

VARIABLES backlog,   \* connections waiting to be accepted
          sent,      \* sent[c]: the kind of bytes client c sends, or "none"
          silent,    \* clients that have connected and not sent anything yet
          gone,      \* clients that have closed or lost their end
          fdTab,     \* fdTab[f]: the connection behind descriptor f
          wire       \* wire[c]: the replies delivered to client c, in order

sockVars == <<backlog, sent, silent, gone, fdTab, wire>>

Fds == 0 .. MaxFd

SockInit == /\ backlog = {}
            /\ sent = [c \in Conns |-> "none"]
            /\ silent = {}
            /\ gone = {}
            /\ fdTab = [f \in Fds |-> NoConn]
            /\ wire = [c \in Conns |-> <<>>]

\* A client connects, to send a request of any kind ...
ClientConnect(c) == /\ sent[c] = "none"
                    /\ \E k \in SentKinds : sent' = [sent EXCEPT ![c] = k]
                    /\ silent' = silent \cup {c}
                    /\ backlog' = backlog \cup {c}
                    /\ UNCHANGED <<gone, fdTab, wire>>

\* ... which it does in its own time, or never.
ClientSend(c) == /\ c \in silent \ gone
                 /\ silent' = silent \ {c}
                 /\ UNCHANGED <<backlog, sent, gone, fdTab, wire>>

\* A client goes away, at any time after it connected.
ClientGone(c) == /\ sent[c] # "none"
                 /\ c \notin gone
                 /\ gone' = gone \cup {c}
                 /\ UNCHANGED <<backlog, sent, silent, fdTab, wire>>

\* What read() finds of the request of client c.  One that went without a word leaves
\* the end of its stream, which is a head that is too short.
Found(c) == IF c \in silent THEN "short" ELSE sent[c]

\* read() has no time-out: it waits for a client that has not sent what it announced
\* and has not gone.
Waits(c) == c \notin gone /\ (c \in silent \/ sent[c] = "truncated")

\* accept() returns descriptor f for connection c.
AcceptFd(f, c) == /\ c \in backlog
                  /\ fdTab[f] = NoConn
                  /\ \A g \in Fds : g < f => fdTab[g] # NoConn
                  /\ backlog' = backlog \ {c}
                  /\ fdTab' = [fdTab EXCEPT ![f] = c]

\* The descriptor table after close(f); closing a closed one changes nothing.
Closed(f) == [fdTab EXCEPT ![f] = NoConn]

\* The client a write to f reaches, if any.
Reaches(f) == {c \in Conns \ gone : fdTab[f] = c}

\* The streams after message m has been written to f.
Written(f, m) == [c \in Conns |-> IF c \in Reaches(f) THEN Append(wire[c], m)
                                                      ELSE wire[c]]

SockTypeOK(Messages) == /\ backlog \subseteq Conns
                        /\ sent \in [Conns -> SentKinds \cup {"none"}]
                        /\ silent \subseteq Conns
                        /\ gone \subseteq Conns
                        /\ fdTab \in [Fds -> Conns \cup {NoConn}]
                        /\ wire \in [Conns -> Seq(Messages)]
=============================================================================
