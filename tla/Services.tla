------------------------------ MODULE Services ------------------------------
(***************************************************************************)
(* The registry, a subcontext that maps names to functions                 *)
(* (subcontexts_registry.c); the IPC servers that post their functions     *)
(* there (subcontexts_ipc.c); and the clients that look them up and call   *)
(* them (ipc_send.c).  Every process calls into the memory of the          *)
(* registry and of a server itself: nothing goes through their processes.  *)
(*                                                                         *)
(* A critical section of the registry lock is one step.  The functions of  *)
(* a server have no lock.  The names of the functions stand for the names  *)
(* that they are posted under.                                             *)
(***************************************************************************)
EXTENDS Integers, Sequences, FiniteSets

CONSTANTS
  Registry,       \* the process of the registry
  Servers,        \* processes that run subcontexts_ipc: several, or one and its restart
  Clients,        \* processes that run ipc_send
  Nil,
  IpcNames,       \* the functions of a server, in the order in which it posts them
  Room            \* how many entries fit into the first page of sc_malloc

Called == {"socket", "bind", "listen", "accept"}

ASSUME ServicesAssumption ==
  /\ IpcNames \in Seq(Called \cup {"connect", "send", "recv"})
  /\ Called \subseteq {IpcNames[i] : i \in DOMAIN IpcNames}
  /\ Registry \notin Servers \cup Clients
  /\ Servers \cap Clients = {}
  /\ IsFiniteSet(Clients)
  /\ Nil \notin Servers \cup Clients
  /\ Room \in Nat /\ Room >= 2

Posters == Servers \cup {Registry}
Procs == Posters \cup Clients
RegistryNames == <<"registry_post", "registry_find">>
IpcSet == {IpcNames[i] : i \in DOMAIN IpcNames}
Names == {RegistryNames[i] : i \in DOMAIN RegistryNames} \cup IpcSet

\* What a name is posted with: accept and connect with &sc_ipc_listen.
Sym(name) == IF name \in {"accept", "connect"} THEN "listen" ELSE name

VARIABLES
  \* the registry
  descriptive_name, \* is set
  user_root,        \* is set
  list,             \* the entries, the last one posted first
  room,             \* what is left of Room
  mallocHeld,       \* somebody died with the lock of sc_malloc
  \* each process
  pc,
  at,               \* the name it has come to
  \* each client
  joined,           \* the server whose subcontext it has joined
  found,            \* what registry_find returned
  sockNo, type, nextSock, addr,  \* its sc_ipc_sockState
  \* each server
  nextSockNo,
  activeSocket_list,
  \* history
  overlapped,       \* the names that two processes have posted at the same time
  socketRace        \* the servers where two calls of sc_ipc_socket overlapped

registry == <<descriptive_name, user_root, list, room, mallocHeld, overlapped>>
lookup == <<joined, found>>
sockets == <<sockNo, type, nextSock, addr, nextSockNo, activeSocket_list, socketRace>>
vars == <<registry, pc, at, lookup, sockets>>

Entry == [name : Names, sym : Names, owner : Posters]

\* NULL is no entry.
ASSUME NilAssumption == Nil \notin Entry

Init ==
  /\ descriptive_name = FALSE
  /\ user_root = FALSE
  /\ list = << >>
  /\ room = Room
  /\ mallocHeld = FALSE
  /\ pc = [p \in Procs |-> IF p = Registry THEN "post" ELSE "boot"]
  /\ at = [p \in Procs |-> 1]
  /\ joined = [c \in Clients |-> Nil]
  /\ found = [c \in Clients |-> [n \in IpcSet |-> Nil]]
  /\ sockNo = [c \in Clients |-> 0]
  /\ type = [c \in Clients |-> "none"]
  /\ nextSock = [c \in Clients |-> Nil]
  /\ addr = [c \in Clients |-> Nil]
  /\ nextSockNo = [s \in Servers |-> 1]
  /\ activeSocket_list = [s \in Servers |-> Nil]
  /\ overlapped = {}
  /\ socketRace = {}

Goto(p, label) == pc' = [pc EXCEPT ![p] = label]

-----------------------------------------------------------------------------
(* The registry                                                            *)

\* registry_find: the first entry of that name.
registry_find(name) ==
  LET hits == {i \in DOMAIN list : list[i].name = name}
  IN IF hits = {} THEN Nil
     ELSE list[CHOOSE i \in hits : \A j \in hits : i <= j]

NamesOf(p) == IF p = Registry THEN RegistryNames ELSE IpcNames
Name(p) == NamesOf(p)[at[p]]
Posting(p, name) == p \in Posters /\ pc[p] \in {"malloc", "push"} /\ Name(p) = name

\* registry_post begins with a registry_find.  A server that finds its name taken
\* runs into TODO(), and the names before this one stay.
MUT_PostFind_goOn(p) ==
  /\ p \in Posters
  /\ pc[p] = "post"
  /\ IF registry_find(Name(p)) = Nil
     THEN Goto(p, "malloc") /\ UNCHANGED at
     ELSE IF at[p] = Len(NamesOf(p))
     THEN Goto(p, "serve") /\ UNCHANGED at
     ELSE UNCHANGED pc /\ at' = [at EXCEPT ![p] = @ + 1]
  /\ overlapped' = overlapped \cup
       {n \in {Name(p)} : \E q \in Posters \ {p} : Posting(q, n)}
  /\ UNCHANGED <<descriptive_name, user_root, list, room, mallocHeld, lookup, sockets>>

PostFind(p) ==
  /\ p \in Posters
  /\ pc[p] = "post"
  /\ Goto(p, IF registry_find(Name(p)) = Nil THEN "malloc" ELSE "aborted")
  /\ overlapped' = overlapped \cup
       {n \in {Name(p)} : \E q \in Posters \ {p} : Posting(q, n)}
  /\ UNCHANGED <<descriptive_name, user_root, list, room, mallocHeld, at, lookup, sockets>>

\* sc_malloc (module ScMemory) finds a block in the first page.
MUT_PostMalloc_more(p) ==
  /\ pc[p] = "malloc"
  /\ ~ mallocHeld
  /\ room >= 0
  /\ room' = room - 1
  /\ Goto(p, "push")
  /\ UNCHANGED <<descriptive_name, user_root, list, mallocHeld, overlapped, at, lookup,
                 sockets>>

PostMalloc(p) ==
  /\ pc[p] = "malloc"
  /\ ~ mallocHeld
  /\ room > 0
  /\ room' = room - 1
  /\ Goto(p, "push")
  /\ UNCHANGED <<descriptive_name, user_root, list, mallocHeld, overlapped, at, lookup,
                 sockets>>

\* sc_malloc needs a new page.  It is code of the registry that runs in a server:
\* there lookupScLocal has no sc_local to find, and the fault ends in the assertion
\* of the handler that there is one subcontext.
PostNoRoom(p) ==
  /\ pc[p] = "malloc"
  /\ p \in Servers
  /\ ~ mallocHeld
  /\ room = 0
  /\ mallocHeld' = TRUE
  /\ Goto(p, "aborted")
  /\ UNCHANGED <<descriptive_name, user_root, list, room, overlapped, at, lookup, sockets>>

\* The entry becomes the first one.
MUT_PostPush_drop(p) ==
  /\ pc[p] = "push"
  /\ list' = <<[name |-> Name(p), sym |-> Sym(Name(p)), owner |-> p]>>
  /\ IF at[p] < Len(NamesOf(p))
     THEN Goto(p, "post") /\ at' = [at EXCEPT ![p] = @ + 1]
     ELSE Goto(p, IF p = Registry THEN "name" ELSE "serve") /\ UNCHANGED at
  /\ UNCHANGED <<descriptive_name, user_root, room, mallocHeld, overlapped, lookup, sockets>>

PostPush(p) ==
  /\ pc[p] = "push"
  /\ list' = <<[name |-> Name(p), sym |-> Sym(Name(p)), owner |-> p]>> \o list
  /\ IF at[p] < Len(NamesOf(p))
     THEN Goto(p, "post") /\ at' = [at EXCEPT ![p] = @ + 1]
     ELSE Goto(p, IF p = Registry THEN "name" ELSE "serve") /\ UNCHANGED at
  /\ UNCHANGED <<descriptive_name, user_root, room, mallocHeld, overlapped, lookup, sockets>>

\* A server dies on the way, outside of the locks.
Die(s) ==
  /\ pc[s] \in {"post", "malloc", "push"}
  /\ Goto(s, "aborted")
  /\ UNCHANGED <<registry, at, lookup, sockets>>

\* Only then the registry says who it is, and where its functions are.
MUT_SetName_first ==
  /\ pc[Registry] = "post"
  /\ descriptive_name' = TRUE
  /\ user_root' = TRUE
  /\ UNCHANGED <<pc, list, room, mallocHeld, overlapped, at, lookup, sockets>>

SetName ==
  /\ pc[Registry] = "name"
  /\ descriptive_name' = TRUE
  /\ Goto(Registry, "root")
  /\ UNCHANGED <<user_root, list, room, mallocHeld, overlapped, at, lookup, sockets>>

SetRoot ==
  /\ pc[Registry] = "root"
  /\ user_root' = TRUE
  /\ Goto(Registry, "serve")
  /\ UNCHANGED <<descriptive_name, list, room, mallocHeld, overlapped, at, lookup, sockets>>

-----------------------------------------------------------------------------
(* subcontexts_registry_bootstrap                                          *)

\* The registry cannot be opened or joined.
BootFails(p) ==
  /\ pc[p] = "boot"
  /\ Goto(p, "failed")
  /\ UNCHANGED <<registry, at, lookup, sockets>>

\* The name is compared: strcmp(NULL, ...) as long as there is none.
BootName(p) ==
  /\ pc[p] = "boot"
  /\ Goto(p, IF descriptive_name THEN "bootroot" ELSE "aborted")
  /\ UNCHANGED <<registry, at, lookup, sockets>>

\* user_root is read, and may still be NULL.
BootRoot(p) ==
  /\ pc[p] = "bootroot"
  /\ Goto(p, IF ~ user_root THEN "failed" ELSE IF p \in Servers THEN "post" ELSE "join")
  /\ UNCHANGED <<registry, at, lookup, sockets>>

-----------------------------------------------------------------------------
(* ipc_send                                                                *)

\* The client joins the subcontext that a server has made, whatever the server has
\* posted by now; or it fails to.
JoinIpc(c) ==
  /\ pc[c] = "join"
  /\ \/ /\ \E s \in Servers : joined' = [joined EXCEPT ![c] = s]
        /\ Goto(c, "find")
     \/ Goto(c, "failed") /\ UNCHANGED joined
  /\ UNCHANGED <<registry, at, found, sockets>>

\* It looks up the names, one by one, and ends if one is missing.
FindNext(c) ==
  /\ pc[c] = "find"
  /\ LET got == [found[c] EXCEPT ![IpcNames[at[c]]] = registry_find(IpcNames[at[c]])]
     IN /\ found' = [found EXCEPT ![c] = got]
        /\ IF at[c] < Len(IpcNames)
           THEN at' = [at EXCEPT ![c] = @ + 1] /\ UNCHANGED pc
           ELSE /\ Goto(c, IF \E n \in IpcSet : got[n] = Nil THEN "failed" ELSE "socket")
                /\ UNCHANGED at
  /\ UNCHANGED <<registry, joined, sockets>>

\* A function of another server is not mapped here.
CallsWild(c) ==
  /\ pc[c] \in Called
  /\ found[c][pc[c]].owner # joined[c]
  /\ Goto(c, "aborted")
  /\ UNCHANGED <<registry, at, lookup, sockets>>

Calls(c, name) == pc[c] = name /\ found[c][name].owner = joined[c]

-----------------------------------------------------------------------------
(* sc_ipc_socket                                                           *)

Creating(c) == pc[c] \in {"link", "number", "count", "type"}

\* sc_malloc fails.
SocketFails(c) ==
  /\ Calls(c, "socket")
  /\ Goto(c, "failed")
  /\ UNCHANGED <<registry, at, lookup, sockets>>

\* A new sc_ipc_sockState points to the first one of the list,
SocketNew(c) ==
  /\ Calls(c, "socket")
  /\ nextSock' = [nextSock EXCEPT ![c] = activeSocket_list[joined[c]]]
  /\ socketRace' = socketRace \cup
       {s \in {joined[c]} : \E d \in Clients \ {c} : joined[d] = s /\ Creating(d)}
  /\ Goto(c, "link")
  /\ UNCHANGED <<registry, at, lookup, sockNo, type, addr, nextSockNo, activeSocket_list>>

\* and takes its place.
SocketLink(c) ==
  /\ pc[c] = "link"
  /\ activeSocket_list' = [activeSocket_list EXCEPT ![joined[c]] = c]
  /\ Goto(c, "number")
  /\ UNCHANGED <<registry, at, lookup, sockNo, type, nextSock, addr, nextSockNo, socketRace>>

SocketNumber(c) ==
  /\ pc[c] = "number"
  /\ sockNo' = [sockNo EXCEPT ![c] = nextSockNo[joined[c]]]
  /\ Goto(c, "count")
  /\ UNCHANGED <<registry, at, lookup, type, nextSock, addr, nextSockNo, activeSocket_list,
                 socketRace>>

\* nextSockNo++, without a lock: of the value of before, or of now.
MUT_SocketCount_none(c) ==
  /\ pc[c] = "count"
  /\ Goto(c, "type")
  /\ UNCHANGED <<registry, at, lookup, sockets>>

SocketCount(c) ==
  /\ pc[c] = "count"
  /\ \E v \in {sockNo[c], nextSockNo[joined[c]]} :
       nextSockNo' = [nextSockNo EXCEPT ![joined[c]] = v + 1]
  /\ Goto(c, "type")
  /\ UNCHANGED <<registry, at, lookup, sockNo, type, nextSock, addr, activeSocket_list,
                 socketRace>>

SocketType(c) ==
  /\ pc[c] = "type"
  /\ type' = [type EXCEPT ![c] = "NEW"]
  /\ Goto(c, "bind")
  /\ UNCHANGED <<registry, at, lookup, sockNo, nextSock, addr, nextSockNo, activeSocket_list,
                 socketRace>>

-----------------------------------------------------------------------------
(* sc_ipc_bind, sc_ipc_listen, and what is posted as sc_ipc_accept         *)

\* The sockets that a search for a number meets: from the first one of the list of a
\* server on, up to the one that has it.
Chain(s, no) ==
  {c \in Clients : \A met \in SUBSET Clients :
     /\ activeSocket_list[s] \in met \cup {Nil}
     /\ \A d \in met : sockNo[d] # no => nextSock[d] \in met \cup {Nil}
     => c \in met}

findSockState(s, no) ==
  LET hits == {c \in Chain(s, no) : sockNo[c] = no}
  IN IF hits = {} THEN Nil ELSE CHOOSE c \in hits : TRUE

Socket(c) == findSockState(joined[c], sockNo[c])
SocketIs(c, t) == Socket(c) # Nil /\ type[Socket(c)] = t

\* The path does not fit into an address: the client ends.
PathTooLong(c) ==
  /\ pc[c] = "bind"
  /\ Goto(c, "failed")
  /\ UNCHANGED <<registry, at, lookup, sockets>>

Bind(c) ==
  /\ Calls(c, "bind")
  /\ IF SocketIs(c, "NEW")
     THEN /\ type' = [type EXCEPT ![Socket(c)] = "BIND"]
          /\ addr' = [addr EXCEPT ![Socket(c)] = c]
          /\ Goto(c, "listen")
     ELSE Goto(c, "failed") /\ UNCHANGED <<type, addr>>
  /\ UNCHANGED <<registry, at, lookup, sockNo, nextSock, nextSockNo, activeSocket_list,
                 socketRace>>

\* sc_ipc_listen, called under either name.
ListenAs(c, name, next) ==
  /\ Calls(c, name)
  /\ found[c][name].sym = "listen"
  /\ IF SocketIs(c, "BIND")
     THEN type' = [type EXCEPT ![Socket(c)] = "LISTEN"] /\ Goto(c, next)
     ELSE Goto(c, "failed") /\ UNCHANGED type
  /\ UNCHANGED <<registry, at, lookup, sockNo, nextSock, addr, nextSockNo, activeSocket_list,
                 socketRace>>

Listen(c) == ListenAs(c, "listen", "accept")

\* The client wants to accept a connection, and listens a second time.  Past this
\* there is only a TODO().
Accept(c) == ListenAs(c, "accept", "aborted")

-----------------------------------------------------------------------------

Post(p) == PostFind(p) \/ PostMalloc(p) \/ PostNoRoom(p) \/ PostPush(p)
Boot(p) == BootFails(p) \/ BootName(p) \/ BootRoot(p)
Client(c) ==
  \/ JoinIpc(c) \/ FindNext(c) \/ CallsWild(c)
  \/ SocketFails(c) \/ SocketNew(c) \/ SocketLink(c) \/ SocketNumber(c) \/ SocketCount(c)
  \/ SocketType(c) \/ PathTooLong(c) \/ Bind(c) \/ Listen(c) \/ Accept(c)

Next ==
  \/ \E p \in Posters : Post(p)
  \/ SetName \/ SetRoot
  \/ \E p \in Servers \cup Clients : Boot(p)
  \/ \E s \in Servers : Die(s)
  \/ \E c \in Clients : Client(c)

Spec == Init /\ [][Next]_vars

-----------------------------------------------------------------------------

\* The variables have their types.
TypeOK ==
  /\ descriptive_name \in BOOLEAN /\ user_root \in BOOLEAN /\ mallocHeld \in BOOLEAN
  /\ list \in Seq(Entry)
  /\ room \in 0 .. Room
  /\ pc \in [Procs -> {"boot", "bootroot", "post", "malloc", "push", "name", "root", "serve",
                       "join", "find", "socket", "link", "number", "count", "type",
                       "bind", "listen", "accept", "failed", "aborted"}]
  /\ \A p \in Procs : at[p] \in 1 .. Len(NamesOf(p))
  /\ joined \in [Clients -> Servers \cup {Nil}]
  /\ found \in [Clients -> [IpcSet -> Entry \cup {Nil}]]
  /\ sockNo \in [Clients -> 0 .. Cardinality(Clients)]
  /\ type \in [Clients -> {"none", "NEW", "BIND", "LISTEN"}]
  /\ nextSock \in [Clients -> Clients \cup {Nil}]
  /\ addr \in [Clients -> Clients \cup {Nil}]
  /\ nextSockNo \in [Servers -> 1 .. Cardinality(Clients) + 1]
  /\ activeSocket_list \in [Servers -> Clients \cup {Nil}]
  /\ overlapped \subseteq Names
  /\ socketRace \subseteq Servers

\* Whoever has the functions of the registry finds them in it: it posts its own
\* functions before it says that it is the registry.
BootstrapComplete ==
  \A p \in Servers \cup Clients :
    pc[p] \notin {"boot", "bootroot", "failed", "aborted"} =>
      \A n \in {"registry_post", "registry_find"} : registry_find(n) # Nil

\* What a name stands for never changes, unless two processes post it at the same
\* time: registry_post looks the name up and enters it in two critical sections.
AnswersStay ==
  [][\A n \in Names : registry_find(n) # Nil /\ n \notin overlapped =>
       registry_find(n)' = registry_find(n)]_vars

\* All that is posted for IPC, and all that a client has found, is of one server,
\* unless two post a name at the same time: the second server ends at its first
\* name, wherever the first one is, and even if that one has died on the way.
OneService ==
  overlapped = {} =>
    /\ \A i, j \in DOMAIN list :
         list[i].name \in IpcSet /\ list[j].name \in IpcSet => list[i].owner = list[j].owner
    /\ \A c \in Clients, n \in IpcSet :
         found[c][n] # Nil => found[c][n] = registry_find(n)

\* A client that was given a socket number finds its own socket by it, and its own
\* address in it, unless two calls of sc_ipc_socket have overlapped in that server.
SocketsOwn ==
  \A c \in Clients :
    pc[c] \in {"bind", "listen", "accept"} /\ joined[c] \notin socketRace =>
      /\ Socket(c) = c
      /\ pc[c] # "bind" => addr[c] = c
=============================================================================
