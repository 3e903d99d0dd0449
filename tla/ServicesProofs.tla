--------------------------- MODULE ServicesProofs ---------------------------
(***************************************************************************)
(* Proofs about module Services, for any number of servers and clients and *)
(* whatever the order and the number of the names that a server posts.     *)
(***************************************************************************)
EXTENDS Services, FiniteSetTheorems, WellFoundedInduction, TLAPS

-----------------------------------------------------------------------------
(* The registry is a list that is searched from its head                   *)

\* What registry_find finds in a list.
First(l, n) ==
  LET hits == {i \in DOMAIN l : l[i].name = n}
  IN IF hits = {} THEN Nil ELSE l[CHOOSE i \in hits : \A j \in hits : i <= j]

HasName(l, n) == \E i \in DOMAIN l : l[i].name = n

LEMMA FindIsFirst ==
  \A n : registry_find(n) = First(list, n) /\ registry_find(n)' = First(list', n)
BY DEF registry_find, First

\* A set of numbers has a smallest one.
LEMMA LeastNumber ==
  ASSUME NEW T \in SUBSET Nat, T # {}
  PROVE  \E m \in T : \A k \in T : m <= k
<1> DEFINE R == {pair \in Nat \X Nat : pair[1] < pair[2]}
<1>1. IsWellFoundedOn(R, Nat)
  BY NatLessThanWellFounded DEF OpToRel
<1>2. PICK m \in T : \A k \in T : ~ (<<k, m>> \in R)
  <2> HIDE DEF R
  <2> QED
    BY <1>1, WFMin
<1>3. ASSUME NEW k \in T PROVE m <= k
  <2>1. ~ (k < m)
    BY <1>2
  <2> QED
    BY <2>1
<1> QED
  BY <1>3

\* The first entry of a name is an entry, and has that name.
LEMMA FirstFound ==
  ASSUME NEW l \in Seq(Entry), NEW n, HasName(l, n)
  PROVE  \E i \in DOMAIN l : /\ First(l, n) = l[i] /\ l[i].name = n
                             /\ \A j \in DOMAIN l : l[j].name = n => i <= j
<1> DEFINE hits == {i \in DOMAIN l : l[i].name = n}
<1>1. hits # {} /\ hits \in SUBSET Nat
  BY DEF HasName
<1>2. \E i \in hits : \A j \in hits : i <= j
  <2> HIDE DEF hits
  <2> QED
    BY <1>1, LeastNumber
<1> DEFINE i == CHOOSE k \in hits : \A j \in hits : k <= j
<1>3. i \in hits /\ \A j \in hits : i <= j
  <2> HIDE DEF hits
  <2> QED
    BY <1>2
<1>4. First(l, n) = l[i]
  BY <1>1 DEF First
<1> HIDE DEF i
<1> QED
  BY <1>3, <1>4

\* An entry of the name that has no other before it is what is found.
LEMMA FirstIs ==
  ASSUME NEW l \in Seq(Entry), NEW n, NEW i \in DOMAIN l, l[i].name = n,
         \A j \in DOMAIN l : l[j].name = n => i <= j
  PROVE  First(l, n) = l[i]
<1>1. HasName(l, n)
  BY DEF HasName
<1>2. PICK k \in DOMAIN l : /\ First(l, n) = l[k] /\ l[k].name = n
                            /\ \A j \in DOMAIN l : l[j].name = n => k <= j
  BY <1>1, FirstFound
<1>3. i <= k /\ k <= i /\ i \in Nat /\ k \in Nat
  BY <1>2
<1> QED
  BY <1>2, <1>3

LEMMA FirstNil ==
  ASSUME NEW l \in Seq(Entry), NEW n
  PROVE  /\ First(l, n) = Nil <=> ~ HasName(l, n)
         /\ First(l, n) \in Entry \cup {Nil}
<1>1. CASE HasName(l, n)
  <2>1. PICK i \in DOMAIN l : First(l, n) = l[i]
    BY <1>1, FirstFound
  <2>2. l[i] \in Entry
    OBVIOUS
  <2> QED
    BY <1>1, <2>1, <2>2, NilAssumption
<1>2. CASE ~ HasName(l, n)
  BY <1>2 DEF First, HasName
<1> QED
  BY <1>1, <1>2

\* A new first entry.
LEMMA Pushed ==
  ASSUME NEW l \in Seq(Entry), NEW e \in Entry
  PROVE  LET m == <<e>> \o l
         IN /\ m \in Seq(Entry)
            /\ m[1] = e /\ 1 \in DOMAIN m
            /\ \A i \in DOMAIN l : i + 1 \in DOMAIN m /\ m[i + 1] = l[i]
            /\ \A i \in DOMAIN m : i = 1 \/ (i - 1 \in DOMAIN l /\ m[i] = l[i - 1])
OBVIOUS

\* It is found by its name, and hides no entry of another name.
LEMMA FirstPushed ==
  ASSUME NEW l \in Seq(Entry), NEW e \in Entry, NEW n
  PROVE  /\ n = e.name => First(<<e>> \o l, n) = e
         /\ n # e.name => First(<<e>> \o l, n) = First(l, n)
         /\ HasName(<<e>> \o l, n) <=> n = e.name \/ HasName(l, n)
<1> DEFINE m == <<e>> \o l
<1>1. /\ m \in Seq(Entry)
      /\ m[1] = e /\ 1 \in DOMAIN m
      /\ \A i \in DOMAIN l : i + 1 \in DOMAIN m /\ m[i + 1] = l[i]
      /\ \A i \in DOMAIN m : i = 1 \/ (i - 1 \in DOMAIN l /\ m[i] = l[i - 1])
  BY Pushed
<1> HIDE DEF m
<1>a. \A i \in DOMAIN m : i \in Nat /\ i >= 1
  BY <1>1
<1>b. \A i \in DOMAIN l : i \in Nat
  OBVIOUS
<1>2. HasName(m, n) <=> n = e.name \/ HasName(l, n)
  BY <1>1 DEF HasName
<1>3. ASSUME n = e.name PROVE First(m, n) = e
  BY <1>1, <1>a, <1>3, FirstIs, SMTT(30)
<1>4. ASSUME n # e.name PROVE First(m, n) = First(l, n)
  <2>1. CASE HasName(l, n)
    <3>1. PICK i \in DOMAIN l : /\ First(l, n) = l[i] /\ l[i].name = n
                                /\ \A j \in DOMAIN l : l[j].name = n => i <= j
      BY <2>1, FirstFound
    <3>2. i + 1 \in DOMAIN m /\ m[i + 1] = l[i] /\ i \in Nat
      BY <1>1, <1>b
    <3>3. ASSUME NEW j \in DOMAIN m, m[j].name = n PROVE i + 1 <= j
      <4>1. j # 1
        BY <1>1, <1>4, <3>3
      <4>2. j - 1 \in DOMAIN l /\ l[j - 1].name = n /\ j \in Nat
        BY <1>1, <1>a, <3>3, <4>1
      <4>3. i <= j - 1
        BY <3>1, <4>2
      <4> QED
        BY <3>2, <4>2, <4>3
    <3> QED
      BY <1>1, <3>1, <3>2, <3>3, FirstIs
  <2>2. CASE ~ HasName(l, n)
    BY <1>1, <1>2, <1>4, <2>2, FirstNil
  <2> QED
    BY <2>1, <2>2
<1> QED
  BY <1>2, <1>3, <1>4 DEF m

-----------------------------------------------------------------------------
(* Where processes are, and how far the numbers of sockets go              *)

PosterStates == {"boot", "bootroot", "post", "malloc", "push", "name", "root", "serve",
                 "failed", "aborted"}
Ready == {"boot", "bootroot", "join"}
Seeking == {"find", "socket"}
Using == {"bind", "listen", "accept"}
ClientStates == Ready \cup Seeking \cup {"link", "number", "count", "type"}
                \cup Using \cup {"failed", "aborted"}

\* The socket of a client is linked, has its number, has been counted.
Linked(c) == pc[c] \in {"number", "count", "type"} \/ type[c] # "none"
Numbered(c) == pc[c] \in {"count", "type"} \/ type[c] # "none"
CountedIn(s) == {c \in Clients : joined[c] = s /\ (pc[c] = "type" \/ type[c] # "none")}

AtInv == at \in [Procs -> Nat]

PlaceInv ==
  /\ \A p \in Posters : pc[p] \in PosterStates
  /\ \A s \in Servers : pc[s] \notin {"name", "root"}
  /\ \A c \in Clients :
       /\ pc[c] \in ClientStates
       /\ pc[c] \in ClientStates \ (Ready \cup {"failed", "aborted"}) => joined[c] \in Servers
       /\ pc[c] \in Using => type[c] # "none"
       /\ type[c] # "none" => pc[c] \in Using \cup {"failed", "aborted"} /\ joined[c] \in Servers

\* A number that is given is at most the number of the calls before.
NumberInv ==
  /\ \A s \in Servers : nextSockNo[s] <= Cardinality(CountedIn(s)) + 1
  /\ \A c \in Clients : pc[c] = "count" => sockNo[c] <= Cardinality(CountedIn(joined[c])) + 1

TypeInv == TypeOK /\ AtInv /\ PlaceInv /\ NumberInv

LEMMA ConstantFacts ==
  /\ Len(IpcNames) \in Nat /\ Len(IpcNames) >= 1
  /\ DOMAIN IpcNames = 1 .. Len(IpcNames)
  /\ \A i \in 1 .. Len(IpcNames) : IpcNames[i] \in IpcSet
  /\ Called \subseteq IpcSet
  /\ IpcSet \subseteq Names
  /\ \A n \in IpcSet : n # "registry_post" /\ n # "registry_find"
  /\ Len(RegistryNames) = 2 /\ RegistryNames[1] = "registry_post"
  /\ RegistryNames[2] = "registry_find"
  /\ "registry_post" \in Names /\ "registry_find" \in Names
  /\ \A n \in Names : n \in IpcSet \/ n = "registry_post" \/ n = "registry_find"
  /\ \A n \in Names : Sym(n) \in Names
<1>1. IpcNames \in Seq(Called \cup {"connect", "send", "recv"}) /\ Called \subseteq IpcSet
  BY ServicesAssumption DEF IpcSet
<1>2. "listen" \in IpcSet
  BY <1>1 DEF Called
<1>3. Len(IpcNames) \in Nat /\ DOMAIN IpcNames = 1 .. Len(IpcNames)
  BY <1>1
<1>4. Len(IpcNames) >= 1
  BY <1>2, <1>3 DEF IpcSet
<1>5. \A i \in 1 .. Len(IpcNames) : IpcNames[i] \in IpcSet
  BY <1>3 DEF IpcSet
<1>6. \A n \in IpcSet : n # "registry_post" /\ n # "registry_find"
  BY <1>1, <1>3 DEF IpcSet, Called
<1>7. Len(RegistryNames) = 2 /\ RegistryNames[1] = "registry_post"
      /\ RegistryNames[2] = "registry_find" /\ DOMAIN RegistryNames = 1 .. 2
  BY DEF RegistryNames
<1>8. Names = {"registry_post", "registry_find"} \cup IpcSet
  BY <1>7 DEF Names
<1> QED
  BY <1>1, <1>2, <1>3, <1>4, <1>5, <1>6, <1>7, <1>8 DEF Sym

LEMMA CountedFinite ==
  ASSUME NEW S \in SUBSET Clients
  PROVE  IsFiniteSet(S) /\ Cardinality(S) \in Nat /\ Cardinality(S) <= Cardinality(Clients)
BY ServicesAssumption, FS_Subset, FS_CardinalityType

LEMMA CountedLess ==
  ASSUME NEW T \in SUBSET Clients, NEW S \in SUBSET T
  PROVE  Cardinality(S) <= Cardinality(T)
BY CountedFinite, FS_Subset

LEMMA CountedOneMore ==
  ASSUME NEW S \in SUBSET Clients, NEW c \in Clients \ S
  PROVE  /\ Cardinality(S \cup {c}) = Cardinality(S) + 1
         /\ Cardinality(S) + 1 <= Cardinality(Clients)
<1>1. Cardinality(S \cup {c}) = Cardinality(S) + 1
  BY CountedFinite, FS_AddElement
<1>2. Cardinality(S \cup {c}) <= Cardinality(Clients)
  BY CountedFinite
<1> QED
  BY <1>1, <1>2

\* What a server or the registry posts next has a name.
LEMMA NameTyped ==
  ASSUME TypeInv, NEW p \in Posters
  PROVE  /\ Name(p) \in Names /\ Sym(Name(p)) \in Names
         /\ p = Registry => Name(p) = RegistryNames[at[p]] /\ at[p] \in 1 .. 2
         /\ p # Registry => Name(p) = IpcNames[at[p]] /\ Name(p) \in IpcSet
                            /\ at[p] \in 1 .. Len(IpcNames)
<1>1. at[p] \in 1 .. Len(NamesOf(p))
  BY DEF TypeInv, TypeOK, Procs
<1>2. CASE p = Registry
  <2>1. at[p] \in 1 .. 2
    BY <1>1, <1>2, ConstantFacts DEF NamesOf
  <2>2. Name(p) = RegistryNames[at[p]] /\ Name(p) \in {"registry_post", "registry_find"}
    BY <1>2, <2>1, ConstantFacts DEF Name, NamesOf
  <2> QED
    BY <1>2, <2>1, <2>2, ConstantFacts
<1>3. CASE p # Registry
  BY <1>1, <1>3, ConstantFacts DEF Name, NamesOf
<1> QED
  BY <1>2, <1>3

\* The steps of the registry and of those who post there leave the clients alone.
RegistrySide(p) == Post(p) \/ (p = Registry /\ (SetName \/ SetRoot)) \/ (p \in Servers /\ Die(p))

\* Steps that change no socket leave the numbers as they are.
LEMMA NumbersKept ==
  ASSUME TypeInv, UNCHANGED <<sockets, joined>>,
         \A c \in Clients : pc'[c] # pc[c] =>
           pc[c] \notin {"count", "type"} /\ pc'[c] \notin {"count", "type"}
  PROVE  NumberInv'
<1>1. \A s : CountedIn(s)' = CountedIn(s)
  BY DEF CountedIn, sockets
<1> QED
  BY <1>1 DEF NumberInv, TypeInv, sockets

LEMMA TypePost ==
  ASSUME TypeInv, NEW p \in Posters, RegistrySide(p)
  PROVE  TypeInv'
<1>0. TypeOK /\ AtInv /\ PlaceInv /\ p \in Procs /\ p \notin Clients /\ pc[p] \in PosterStates
  BY ServicesAssumption DEF TypeInv, PlaceInv, Procs, Posters
<1>1. UNCHANGED <<joined, found, sockets>>
  BY DEF RegistrySide, Post, PostFind, PostMalloc, PostNoRoom, PostPush, SetName, SetRoot, Die,
     lookup, registry
<1>2. /\ pc' \in [Procs -> ClientStates \cup PosterStates]
      /\ \A q \in Procs \ {p} : pc'[q] = pc[q]
      /\ pc'[p] \in PosterStates
      /\ p \in Servers => pc'[p] \notin {"name", "root"}
  <2>1. pc \in [Procs -> ClientStates \cup PosterStates]
    BY <1>0 DEF TypeOK, ClientStates, PosterStates, Ready, Seeking, Using
  <2>2. PICK label \in PosterStates : /\ pc' = [pc EXCEPT ![p] = label]
                                      /\ p \in Servers => label \notin {"name", "root"}
    <3>1. CASE PostFind(p) \/ PostMalloc(p) \/ PostNoRoom(p)
      BY <3>1 DEF PostFind, PostMalloc, PostNoRoom, Goto, PosterStates
    <3>2. CASE PostPush(p)
      BY <3>2, ServicesAssumption DEF PostPush, Goto, PosterStates
    <3>3. CASE p = Registry /\ (SetName \/ SetRoot)
      BY <3>3, ServicesAssumption DEF SetName, SetRoot, Goto, PosterStates
    <3>4. CASE p \in Servers /\ Die(p)
      BY <3>4 DEF Die, Goto, PosterStates
    <3> QED
      BY <3>1, <3>2, <3>3, <3>4 DEF RegistrySide, Post
  <2> QED
    BY <1>0, <2>1, <2>2
<1>3. \A c \in Clients : pc'[c] = pc[c] /\ c \in Procs
  BY <1>0, <1>2 DEF Procs
<1>4. /\ at' \in [Procs -> Nat] /\ \A q \in Procs : at'[q] \in 1 .. Len(NamesOf(q))
  <2>1. at \in [Procs -> Nat] /\ \A q \in Procs : at[q] \in 1 .. Len(NamesOf(q))
    BY <1>0 DEF AtInv, TypeOK
  <2>2. CASE PostPush(p) /\ at[p] < Len(NamesOf(p))
    <3>1. at' = [at EXCEPT ![p] = @ + 1]
      BY <2>2 DEF PostPush
    <3>2. Len(NamesOf(p)) \in Nat
      BY ConstantFacts DEF NamesOf
    <3>3. at[p] + 1 \in 1 .. Len(NamesOf(p)) /\ at[p] + 1 \in Nat
      BY <1>0, <2>1, <2>2, <3>2
    <3> QED
      BY <1>0, <2>1, <3>1, <3>3
  <2>3. CASE ~ (PostPush(p) /\ at[p] < Len(NamesOf(p)))
    <3>1. at' = at
      BY <2>3 DEF RegistrySide, Post, PostFind, PostMalloc, PostNoRoom, PostPush, SetName, SetRoot,
         Die
    <3> QED
      BY <2>1, <3>1
  <2> QED
    BY <2>2, <2>3
<1>5. list' \in Seq(Entry)
  <2>1. list \in Seq(Entry)
    BY <1>0 DEF TypeOK
  <2>2. CASE PostPush(p)
    <3>1. [name |-> Name(p), sym |-> Sym(Name(p)), owner |-> p] \in Entry
      BY NameTyped DEF Entry
    <3> QED
      BY <2>1, <2>2, <3>1, Pushed DEF PostPush
  <2>3. CASE ~ PostPush(p)
    <3>1. list' = list
      BY <2>3 DEF RegistrySide, Post, PostFind, PostMalloc, PostNoRoom, SetName, SetRoot, Die,
         registry
    <3> QED
      BY <2>1, <3>1
  <2> QED
    BY <2>2, <2>3
<1>6. /\ descriptive_name' \in BOOLEAN /\ user_root' \in BOOLEAN /\ mallocHeld' \in BOOLEAN
      /\ room' \in 0 .. Room /\ overlapped' \subseteq Names
  <2>1. /\ descriptive_name \in BOOLEAN /\ user_root \in BOOLEAN /\ mallocHeld \in BOOLEAN
        /\ room \in 0 .. Room /\ overlapped \subseteq Names /\ Room \in Nat /\ Name(p) \in Names
    BY <1>0, ServicesAssumption, NameTyped DEF TypeOK
  <2>2. CASE PostFind(p)
    BY <2>1, <2>2 DEF PostFind
  <2>3. CASE PostMalloc(p)
    BY <2>1, <2>3 DEF PostMalloc
  <2>4. CASE PostNoRoom(p) \/ PostPush(p)
    BY <2>1, <2>4 DEF PostNoRoom, PostPush
  <2>5. CASE SetName \/ SetRoot \/ Die(p)
    BY <2>1, <2>5 DEF SetName, SetRoot, Die, registry
  <2> QED
    BY <2>2, <2>3, <2>4, <2>5 DEF RegistrySide, Post
<1>7. TypeOK'
  BY <1>0, <1>1, <1>2, <1>4, <1>5, <1>6 DEF TypeOK, sockets, ClientStates, PosterStates, Ready,
     Seeking, Using
<1>8. PlaceInv'
  <2>1. \A c \in Clients : pc'[c] = pc[c] /\ joined'[c] = joined[c] /\ type'[c] = type[c]
                           /\ found'[c] = found[c]
    BY <1>1, <1>3 DEF sockets
  <2>2. \A q \in Posters : q \in Procs
    BY DEF Procs
  <2>3. \A s \in Servers : s \in Posters
    BY DEF Posters
  <2> QED
    BY <1>0, <1>2, <2>1, <2>2, <2>3 DEF PlaceInv
<1>9. NumberInv'
  BY <1>1, <1>3, NumbersKept
<1> QED
  BY <1>4, <1>7, <1>8, <1>9 DEF TypeInv, AtInv

LEMMA TypeBoot ==
  ASSUME TypeInv, NEW p \in Servers \cup Clients, Boot(p)
  PROVE  TypeInv'
<1>0. TypeOK /\ AtInv /\ PlaceInv /\ p \in Procs
  BY DEF TypeInv, Procs, Posters
<1>1. UNCHANGED <<registry, at, lookup, sockets>>
  BY DEF Boot, BootFails, BootName, BootRoot
<1>2. PICK label \in {"bootroot", "failed", "aborted", "post", "join"} :
        /\ pc[p] \in {"boot", "bootroot"}
        /\ pc' = [pc EXCEPT ![p] = label]
        /\ label = "post" => p \in Servers
        /\ label = "join" => p \notin Servers
  BY DEF Boot, BootFails, BootName, BootRoot, Goto
<1>3. TypeOK' /\ AtInv'
  BY <1>0, <1>1, <1>2 DEF TypeOK, AtInv, registry, lookup, sockets
<1>4. \A q \in Procs : pc'[q] = IF q = p THEN label ELSE pc[q]
  BY <1>0, <1>2 DEF TypeOK
<1>5. /\ \A q \in Posters : q \in Procs
      /\ \A c \in Clients : c \in Procs /\ c \notin Posters
      /\ \A s \in Servers : s \in Posters
  BY ServicesAssumption DEF Procs, Posters
<1>6. PlaceInv'
  <2>1. \A q \in Posters : pc'[q] \in PosterStates /\ (q \in Servers => pc'[q] \notin {"name", "root"})
    BY <1>0, <1>2, <1>4, <1>5 DEF PlaceInv, PosterStates
  <2>2. ASSUME NEW c \in Clients
        PROVE  /\ pc'[c] \in ClientStates
               /\ pc'[c] \in ClientStates \ (Ready \cup {"failed", "aborted"}) => joined[c] \in Servers
               /\ pc'[c] \in Using => type[c] # "none"
               /\ type[c] # "none" => pc'[c] \in Using \cup {"failed", "aborted"} /\ joined[c] \in Servers
    <3>1. CASE c = p
      BY <1>0, <1>2, <1>4, <1>5, <3>1 DEF PlaceInv, ClientStates, Ready, Seeking, Using, Called
    <3>2. CASE c # p
      BY <1>0, <1>4, <1>5, <3>2 DEF PlaceInv
    <3> QED
      BY <3>1, <3>2
  <2> QED
    BY <1>1, <1>5, <2>1, <2>2 DEF PlaceInv, lookup, sockets
<1>7. NumberInv'
  BY <1>1, <1>2, <1>4, <1>5, NumbersKept DEF lookup
<1> QED
  BY <1>3, <1>6, <1>7 DEF TypeInv

\* A search ends at a socket, or finds none.
LEMMA SocketTyped ==
  ASSUME NEW c, Socket(c) # Nil
  PROVE  Socket(c) \in Clients /\ Socket(c) \in Chain(joined[c], sockNo[c])
         /\ sockNo[Socket(c)] = sockNo[c]
<1> DEFINE hits == {d \in Chain(joined[c], sockNo[c]) : sockNo[d] = sockNo[c]}
<1>1. Socket(c) = IF hits = {} THEN Nil ELSE CHOOSE d \in hits : TRUE
  BY DEF Socket, findSockState
<1>2. hits # {}
  BY <1>1
<1>3. Socket(c) \in hits
  <2> HIDE DEF hits
  <2> QED
    BY <1>1, <1>2
<1> QED
  BY <1>3 DEF Chain

\* Clients that go on without touching a socket.
LEMMA TypeLookup ==
  ASSUME TypeInv, NEW c \in Clients,
         JoinIpc(c) \/ FindNext(c) \/ CallsWild(c) \/ SocketFails(c) \/ PathTooLong(c)
  PROVE  TypeInv'
<1>0. TypeOK /\ AtInv /\ PlaceInv /\ c \in Procs /\ c # Registry
  BY ServicesAssumption DEF TypeInv, Procs
<1>1. UNCHANGED <<registry, sockets>>
  BY DEF JoinIpc, FindNext, CallsWild, SocketFails, PathTooLong
<1>5. /\ \A q \in Posters : q \in Procs /\ q # c
      /\ \A d \in Clients : d \in Procs
      /\ \A s \in Servers : s \in Posters
  BY ServicesAssumption DEF Procs, Posters
<1>2. CASE JoinIpc(c)
  <2>1. PICK s \in Servers \cup {joined[c]}, label \in {"find", "failed"} :
          /\ pc[c] = "join"
          /\ joined' = [joined EXCEPT ![c] = s]
          /\ pc' = [pc EXCEPT ![c] = label]
          /\ label = "find" => s \in Servers
          /\ UNCHANGED <<at, found>>
    <3>1. joined = [joined EXCEPT ![c] = joined[c]]
      BY <1>0 DEF TypeOK
    <3> QED
      BY <1>2, <3>1 DEF JoinIpc, Goto
  <2>2. TypeOK' /\ AtInv'
    BY <1>0, <1>1, <2>1 DEF TypeOK, AtInv, registry, sockets
  <2>3. /\ \A q \in Procs : pc'[q] = IF q = c THEN label ELSE pc[q]
        /\ \A d \in Clients : joined'[d] = IF d = c THEN s ELSE joined[d]
    BY <1>0, <2>1 DEF TypeOK
  <2>4. type[c] = "none"
    BY <1>0, <2>1 DEF PlaceInv, Using
  <2>5. PlaceInv'
    BY <1>0, <1>1, <1>5, <2>1, <2>3, <2>4 DEF PlaceInv, sockets, ClientStates, Ready, Seeking,
       Using, Called
  <2>6. NumberInv'
    <3>1. \A t : CountedIn(t)' = CountedIn(t)
      BY <1>1, <1>5, <2>1, <2>3, <2>4 DEF CountedIn, sockets
    <3> QED
      BY <1>1, <1>5, <2>1, <2>3, <3>1 DEF NumberInv, TypeInv, sockets
  <2> QED
    BY <2>2, <2>5, <2>6 DEF TypeInv
<1>3. CASE FindNext(c)
  <2> DEFINE got == [found[c] EXCEPT ![IpcNames[at[c]]] = registry_find(IpcNames[at[c]])]
  <2>1. PICK label \in {"find", "failed", "socket"} :
          /\ pc[c] = "find"
          /\ found' = [found EXCEPT ![c] = got]
          /\ pc' = [pc EXCEPT ![c] = label]
          /\ at' = at \/ (at[c] < Len(IpcNames) /\ at' = [at EXCEPT ![c] = @ + 1])
          /\ UNCHANGED joined
    <3>1. CASE at[c] < Len(IpcNames)
      <4>1. pc' = [pc EXCEPT ![c] = "find"]
        BY <1>0, <1>3, <3>1 DEF FindNext, TypeOK
      <4> QED
        BY <1>3, <3>1, <4>1 DEF FindNext
    <3>2. CASE ~ (at[c] < Len(IpcNames))
      BY <1>3, <3>2 DEF FindNext, Goto
    <3> QED
      BY <3>1, <3>2
  <2>2. got \in [IpcSet -> Entry \cup {Nil}]
    <3>1. registry_find(IpcNames[at[c]]) \in Entry \cup {Nil}
      BY <1>0, FirstNil, FindIsFirst DEF TypeOK
    <3>2. found[c] \in [IpcSet -> Entry \cup {Nil}]
      BY <1>0 DEF TypeOK
    <3> QED
      BY <3>1, <3>2
  <2> HIDE DEF got
  <2>3. at' \in [Procs -> Nat] /\ \A q \in Procs : at'[q] \in 1 .. Len(NamesOf(q))
    <3>1. at \in [Procs -> Nat] /\ \A q \in Procs : at[q] \in 1 .. Len(NamesOf(q))
      BY <1>0 DEF AtInv, TypeOK
    <3>2. NamesOf(c) = IpcNames /\ Len(IpcNames) \in Nat
      BY <1>0, ConstantFacts DEF NamesOf
    <3>3. at[c] < Len(IpcNames) => at[c] + 1 \in 1 .. Len(NamesOf(c)) /\ at[c] + 1 \in Nat
      BY <1>0, <3>1, <3>2
    <3> QED
      BY <1>0, <2>1, <3>1, <3>3
  <2>4. TypeOK'
    <3>1. found' \in [Clients -> [IpcSet -> Entry \cup {Nil}]]
      BY <1>0, <2>1, <2>2 DEF TypeOK
    <3> QED
      BY <1>0, <1>1, <2>1, <2>3, <3>1 DEF TypeOK, registry, sockets
  <2>5. /\ \A q \in Procs : pc'[q] = IF q = c THEN label ELSE pc[q]
        /\ \A d \in Clients : found'[d] = IF d = c THEN got ELSE found[d]
    BY <1>0, <2>1 DEF TypeOK
  <2>6. type[c] = "none" /\ joined[c] \in Servers
    BY <1>0, <2>1 DEF PlaceInv, Using, ClientStates, Ready, Seeking
  <2>7. PlaceInv'
    <3>1. \A q \in Posters : pc'[q] \in PosterStates /\ (q \in Servers => pc'[q] \notin {"name", "root"})
      BY <1>0, <1>5, <2>5 DEF PlaceInv
    <3>2. ASSUME NEW d \in Clients
          PROVE  /\ pc'[d] \in ClientStates
                 /\ pc'[d] \in ClientStates \ (Ready \cup {"failed", "aborted"}) => joined[d] \in Servers
                 /\ pc'[d] \in Using => type[d] # "none"
                 /\ type[d] # "none" => pc'[d] \in Using \cup {"failed", "aborted"} /\ joined[d] \in Servers
      <4>1. CASE d = c
        BY <1>0, <2>1, <2>5, <2>6, <4>1 DEF ClientStates, Ready, Seeking, Using, Called
      <4>2. CASE d # c
        BY <1>0, <1>5, <2>5, <4>2 DEF PlaceInv
      <4> QED
        BY <4>1, <4>2
    <3> QED
      BY <1>1, <1>5, <2>1, <3>1, <3>2 DEF PlaceInv, sockets
  <2>8. NumberInv'
    BY <1>1, <1>5, <2>1, <2>5, NumbersKept
  <2> QED
    BY <2>3, <2>4, <2>7, <2>8 DEF TypeInv, AtInv
<1>4. CASE CallsWild(c) \/ SocketFails(c) \/ PathTooLong(c)
  <2>1. PICK label \in {"failed", "aborted"} :
          /\ pc[c] \in Called
          /\ pc' = [pc EXCEPT ![c] = label]
          /\ UNCHANGED <<at, joined, found>>
    BY <1>4 DEF CallsWild, SocketFails, PathTooLong, Calls, Goto, Called, lookup
  <2>2. TypeOK' /\ AtInv'
    BY <1>0, <1>1, <2>1 DEF TypeOK, AtInv, registry, sockets
  <2>3. \A q \in Procs : pc'[q] = IF q = c THEN label ELSE pc[q]
    BY <1>0, <2>1 DEF TypeOK
  <2>4. joined[c] \in Servers
    BY <1>0, <2>1 DEF PlaceInv, Called, ClientStates, Ready, Seeking, Using
  <2>5. PlaceInv'
    BY <1>0, <1>1, <1>5, <2>1, <2>3, <2>4 DEF PlaceInv, sockets, ClientStates, Ready, Seeking,
       Using, Called
  <2>6. NumberInv'
    BY <1>1, <1>5, <2>1, <2>3, NumbersKept DEF Called
  <2> QED
    BY <2>2, <2>5, <2>6 DEF TypeInv
<1> QED
  BY <1>2, <1>3, <1>4

SocketStep(c) ==
  \/ SocketNew(c) \/ SocketLink(c) \/ SocketNumber(c) \/ SocketCount(c) \/ SocketType(c)
  \/ Bind(c) \/ Listen(c) \/ Accept(c)

\* How a client goes from one function of its server to the next.
Goes(from, to) ==
  \/ from = "socket" /\ to = "link"
  \/ from = "link" /\ to = "number"
  \/ from = "number" /\ to = "count"
  \/ from = "count" /\ to = "type"
  \/ from = "type" /\ to = "bind"
  \/ from \in Using /\ to \in {"listen", "accept", "failed", "aborted"}

\* What a client does to the sockets, and how it goes on.
LEMMA SocketFrame ==
  ASSUME TypeInv, NEW c \in Clients, SocketStep(c)
  PROVE  /\ UNCHANGED <<registry, at, lookup>>
         /\ joined[c] \in Servers
         /\ \E label \in ClientStates :
              /\ Goes(pc[c], label)
              /\ \A q \in Procs : pc'[q] = IF q = c THEN label ELSE pc[q]
              /\ pc' \in [Procs -> ClientStates \cup PosterStates]
         /\ \A d \in Clients : type'[d] # type[d] =>
              IF d = c /\ pc[c] = "type" THEN type'[d] = "NEW"
              ELSE type[d] # "none" /\ type'[d] # "none"
         /\ type' \in [Clients -> {"none", "NEW", "BIND", "LISTEN"}]
         /\ pc[c] = "type" => type'[c] = "NEW"
         /\ pc[c] # "number" => sockNo' = sockNo
         /\ pc[c] # "count" => nextSockNo' = nextSockNo
<1>0. TypeOK /\ PlaceInv /\ c \in Procs
  BY DEF TypeInv, Procs
<1>1. UNCHANGED <<registry, at, lookup>>
  BY DEF SocketStep, SocketNew, SocketLink, SocketNumber, SocketCount, SocketType, Bind, Listen,
     Accept, ListenAs
<1>2. PICK label \in ClientStates : Goes(pc[c], label) /\ pc' = [pc EXCEPT ![c] = label]
  <2>1. CASE SocketNew(c) \/ SocketLink(c) \/ SocketNumber(c) \/ SocketCount(c) \/ SocketType(c)
    BY <2>1 DEF SocketNew, Calls, SocketLink, SocketNumber, SocketCount, SocketType, Goto, Goes,
       ClientStates, Using
  <2>2. CASE Bind(c)
    BY <2>2 DEF Bind, Calls, Goto, Goes, ClientStates, Using
  <2>3. CASE Listen(c) \/ Accept(c)
    BY <2>3 DEF Listen, Accept, ListenAs, Calls, Goto, Goes, ClientStates, Using
  <2> QED
    BY <2>1, <2>2, <2>3 DEF SocketStep
<1>3. joined[c] \in Servers
  BY <1>0, <1>2 DEF PlaceInv, Goes, ClientStates, Using, Ready, Seeking
<1>4. pc' \in [Procs -> ClientStates \cup PosterStates]
      /\ \A q \in Procs : pc'[q] = IF q = c THEN label ELSE pc[q]
  <2>1. pc \in [Procs -> ClientStates \cup PosterStates]
    BY <1>0 DEF TypeOK, ClientStates, PosterStates, Ready, Seeking, Using
  <2> QED
    BY <1>0, <1>2, <2>1
<1>5. /\ \A d \in Clients : type'[d] # type[d] =>
           IF d = c /\ pc[c] = "type" THEN type'[d] = "NEW"
           ELSE type[d] # "none" /\ type'[d] # "none"
      /\ type' \in [Clients -> {"none", "NEW", "BIND", "LISTEN"}]
      /\ pc[c] = "type" => type'[c] = "NEW"
  <2>0. type \in [Clients -> {"none", "NEW", "BIND", "LISTEN"}]
    BY <1>0 DEF TypeOK
  <2>1. CASE SocketNew(c) \/ SocketLink(c) \/ SocketNumber(c) \/ SocketCount(c)
    BY <2>0, <2>1 DEF SocketNew, Calls, SocketLink, SocketNumber, SocketCount
  <2>2. CASE SocketType(c)
    BY <2>0, <2>2 DEF SocketType
  <2>3. CASE Bind(c) \/ Listen(c) \/ Accept(c)
    <3>0. pc[c] # "type"
      BY <2>3 DEF Bind, Listen, Accept, ListenAs, Calls
    <3>1. \/ type' = type
          \/ \E old \in {"NEW", "BIND"}, new \in {"BIND", "LISTEN"} :
               SocketIs(c, old) /\ type' = [type EXCEPT ![Socket(c)] = new]
      BY <2>3 DEF Bind, Listen, Accept, ListenAs
    <3>2. CASE type' = type
      BY <2>0, <3>0, <3>2
    <3>3. ASSUME NEW old \in {"NEW", "BIND"}, NEW new \in {"BIND", "LISTEN"},
                 SocketIs(c, old), type' = [type EXCEPT ![Socket(c)] = new]
          PROVE  /\ \A d \in Clients : type'[d] # type[d] => type[d] # "none" /\ type'[d] # "none"
                 /\ type' \in [Clients -> {"none", "NEW", "BIND", "LISTEN"}]
      <4>1. Socket(c) \in Clients /\ type[Socket(c)] # "none"
        BY <3>3, SocketTyped DEF SocketIs
      <4> QED
        BY <2>0, <3>0, <3>3, <4>1
    <3> QED
      BY <3>0, <3>1, <3>2, <3>3
  <2> QED
    BY <2>1, <2>2, <2>3 DEF SocketStep
<1>6. /\ pc[c] # "number" => sockNo' = sockNo
      /\ pc[c] # "count" => nextSockNo' = nextSockNo
  BY DEF SocketStep, SocketNew, SocketLink, SocketNumber, SocketCount, SocketType, Bind, Listen,
     Accept, ListenAs
<1> QED
  BY <1>1, <1>2, <1>3, <1>4, <1>5, <1>6

LEMMA TypeSocket ==
  ASSUME TypeInv, NEW c \in Clients, SocketStep(c)
  PROVE  TypeInv'
<1>0. TypeOK /\ AtInv /\ PlaceInv /\ NumberInv /\ c \in Procs /\ joined[c] \in Servers
  BY SocketFrame DEF TypeInv, Procs
<1>1. UNCHANGED <<registry, at, joined, found>>
  BY SocketFrame DEF lookup
<1>2. PICK label \in ClientStates :
              /\ Goes(pc[c], label)
              /\ \A q \in Procs : pc'[q] = IF q = c THEN label ELSE pc[q]
              /\ pc' \in [Procs -> ClientStates \cup PosterStates]
  BY SocketFrame
<1>3. /\ \A d \in Clients : type'[d] # type[d] =>
              IF d = c /\ pc[c] = "type" THEN type'[d] = "NEW"
              ELSE type[d] # "none" /\ type'[d] # "none"
      /\ type' \in [Clients -> {"none", "NEW", "BIND", "LISTEN"}]
      /\ pc[c] = "type" => type'[c] = "NEW"
      /\ pc[c] # "number" => sockNo' = sockNo
      /\ pc[c] # "count" => nextSockNo' = nextSockNo
  BY SocketFrame
<1>5. /\ \A q \in Posters : q \in Procs /\ q # c
      /\ \A d \in Clients : d \in Procs
      /\ \A s \in Servers : s \in Posters
  BY ServicesAssumption DEF Procs, Posters
<1>6. PlaceInv'
  <2>1. \A q \in Posters : pc'[q] \in PosterStates /\ (q \in Servers => pc'[q] \notin {"name", "root"})
    BY <1>0, <1>2, <1>5 DEF PlaceInv
  <2>2. ASSUME NEW d \in Clients
        PROVE  /\ pc'[d] \in ClientStates
               /\ pc'[d] \in ClientStates \ (Ready \cup {"failed", "aborted"}) => joined[d] \in Servers
               /\ pc'[d] \in Using => type'[d] # "none"
               /\ type'[d] # "none" => pc'[d] \in Using \cup {"failed", "aborted"} /\ joined[d] \in Servers
    <3>1. CASE d = c
      <4>1. pc'[c] = label
        BY <1>0, <1>2
      <4>2. label \in Using => type'[c] # "none"
        BY <1>0, <1>2, <1>3 DEF PlaceInv, Goes, Using
      <4>3. type'[c] # "none" => label \in Using \cup {"failed", "aborted"}
        BY <1>0, <1>2, <1>3 DEF PlaceInv, Goes, Using
      <4> QED
        BY <1>0, <3>1, <4>1, <4>2, <4>3
    <3>2. CASE d # c
      BY <1>0, <1>2, <1>3, <1>5, <3>2 DEF PlaceInv
    <3> QED
      BY <3>1, <3>2
  <2> QED
    BY <1>1, <1>5, <2>1, <2>2 DEF PlaceInv
<1>7. \A d \in Clients : d # c => pc'[d] = pc[d]
  BY <1>2, <1>5
<1>8. \A s : CountedIn(s)' = IF s = joined[c] /\ pc[c] = "count" THEN CountedIn(s) \cup {c}
                             ELSE CountedIn(s)
  BY <1>0, <1>1, <1>2, <1>3, <1>7 DEF CountedIn, Goes, Using
<1>9. pc[c] \in {"number", "count"} => c \notin CountedIn(joined[c])
  BY <1>0 DEF CountedIn, PlaceInv, Using
<1>10. \A s : CountedIn(s) \in SUBSET Clients /\ CountedIn(s)' \in SUBSET Clients
  BY DEF CountedIn
<1>11. \A s : /\ Cardinality(CountedIn(s)) \in Nat /\ Cardinality(CountedIn(s)') \in Nat
              /\ Cardinality(CountedIn(s)) <= Cardinality(CountedIn(s)')
              /\ Cardinality(CountedIn(s)') <= Cardinality(Clients)
  BY <1>8, <1>10, CountedFinite, CountedLess
<1>12. pc[c] \in {"number", "count"} =>
         Cardinality(CountedIn(joined[c])) + 1 <= Cardinality(Clients)
  BY <1>9, <1>10, CountedOneMore
<1>13. \A s : s = joined[c] /\ pc[c] = "count" =>
         Cardinality(CountedIn(s)') = Cardinality(CountedIn(s)) + 1
  BY <1>8, <1>9, <1>10, CountedOneMore
<1>14. /\ sockNo \in [Clients -> 0 .. Cardinality(Clients)]
       /\ nextSockNo \in [Servers -> 1 .. Cardinality(Clients) + 1]
       /\ Cardinality(Clients) \in Nat
  BY <1>0, CountedFinite DEF TypeOK
<1>15. /\ sockNo' \in [Clients -> 0 .. Cardinality(Clients)]
       /\ nextSockNo' \in [Servers -> 1 .. Cardinality(Clients) + 1]
       /\ NumberInv'
  <2>1. CASE pc[c] = "number"
    <3>1. /\ nextSockNo' = nextSockNo
          /\ sockNo' = [sockNo EXCEPT ![c] = nextSockNo[joined[c]]]
      BY <2>1, <1>3 DEF SocketStep, SocketNew, SocketLink, SocketNumber, SocketCount, SocketType,
         Bind, Listen, Accept, ListenAs, Calls
    <3>2. \A s : CountedIn(s)' = CountedIn(s)
      BY <1>8, <2>1
    <3>3. nextSockNo[joined[c]] \in 0 .. Cardinality(Clients)
          /\ nextSockNo[joined[c]] <= Cardinality(CountedIn(joined[c])) + 1
      BY <1>0, <1>11, <1>12, <1>14, <2>1 DEF NumberInv
    <3>4. sockNo' \in [Clients -> 0 .. Cardinality(Clients)]
      BY <1>14, <3>1, <3>3
    <3>5. NumberInv'
      <4>1. \A s \in Servers : nextSockNo'[s] <= Cardinality(CountedIn(s)') + 1
        BY <1>0, <3>1, <3>2 DEF NumberInv
      <4>2. ASSUME NEW d \in Clients, pc'[d] = "count", NEW s, s = joined[d]
            PROVE  sockNo'[d] <= Cardinality(CountedIn(s)') + 1
        <5>1. CASE d = c
          BY <1>14, <3>1, <3>2, <3>3, <4>2, <5>1
        <5>2. CASE d # c
          BY <1>0, <1>7, <1>14, <3>1, <3>2, <4>2, <5>2 DEF NumberInv
        <5> QED
          BY <5>1, <5>2
      <4> QED
        BY <1>1, <4>1, <4>2 DEF NumberInv
    <3> QED
      BY <1>14, <3>1, <3>4, <3>5
  <2>2. CASE pc[c] = "count"
    <3>1. PICK v \in {sockNo[c], nextSockNo[joined[c]]} :
            /\ nextSockNo' = [nextSockNo EXCEPT ![joined[c]] = v + 1]
            /\ sockNo' = sockNo
      BY <2>2, <1>3 DEF SocketStep, SocketNew, SocketLink, SocketNumber, SocketCount, SocketType,
         Bind, Listen, Accept, ListenAs, Calls
    <3>2. v \in Nat /\ v <= Cardinality(CountedIn(joined[c])) + 1
      BY <1>0, <1>14, <2>2, <3>1 DEF NumberInv
    <3>3. \A s : s = joined[c] => v + 1 <= Cardinality(CountedIn(s)') + 1
      BY <1>11, <1>13, <2>2, <3>2
    <3>4. ASSUME NEW s \in Servers PROVE nextSockNo'[s] <= Cardinality(CountedIn(s)') + 1
      <4>1. CASE s = joined[c]
        BY <1>14, <3>1, <3>3, <4>1
      <4>2. CASE s # joined[c]
        <5>1. nextSockNo'[s] = nextSockNo[s] /\ nextSockNo[s] \in Nat
          BY <1>14, <3>1, <4>2
        <5>2. nextSockNo[s] <= Cardinality(CountedIn(s)) + 1
          BY <1>0 DEF NumberInv
        <5> QED
          BY <1>11, <5>1, <5>2
      <4> QED
        BY <4>1, <4>2
    <3>5. nextSockNo' \in [Servers -> 1 .. Cardinality(Clients) + 1]
      <4>1. v + 1 \in 1 .. Cardinality(Clients) + 1
        BY <1>12, <1>14, <1>11, <2>2, <3>2
      <4> QED
        BY <1>14, <3>1, <4>1
    <3>6. ASSUME NEW d \in Clients, pc'[d] = "count", NEW s, s = joined[d]
          PROVE  sockNo'[d] <= Cardinality(CountedIn(s)') + 1
      <4>1. d # c
        BY <1>0, <1>2, <2>2, <3>6 DEF Goes, Using
      <4>2. sockNo[d] <= Cardinality(CountedIn(joined[d])) + 1 /\ sockNo[d] \in Nat
        BY <1>0, <1>7, <1>14, <3>6, <4>1 DEF NumberInv
      <4> QED
        BY <1>11, <3>1, <3>6, <4>2
    <3> QED
      BY <1>1, <1>14, <3>1, <3>4, <3>5, <3>6 DEF NumberInv
  <2>3. CASE pc[c] \notin {"number", "count"}
    <3>1. sockNo' = sockNo /\ nextSockNo' = nextSockNo /\ \A s : CountedIn(s)' = CountedIn(s)
      BY <1>3, <1>8, <2>3
    <3>2. \A d \in Clients : pc'[d] = "count" => pc[d] = "count"
      BY <1>0, <1>2, <1>7, <2>3 DEF Goes, Using
    <3> QED
      BY <1>0, <1>1, <1>14, <3>1, <3>2 DEF NumberInv
  <2> QED
    BY <2>1, <2>2, <2>3
<1>16. /\ nextSock' \in [Clients -> Clients \cup {Nil}]
       /\ addr' \in [Clients -> Clients \cup {Nil}]
       /\ activeSocket_list' \in [Servers -> Clients \cup {Nil}]
       /\ socketRace' \subseteq Servers
  <2>0. /\ nextSock \in [Clients -> Clients \cup {Nil}]
        /\ addr \in [Clients -> Clients \cup {Nil}]
        /\ activeSocket_list \in [Servers -> Clients \cup {Nil}]
        /\ socketRace \subseteq Servers
    BY <1>0 DEF TypeOK
  <2>1. CASE SocketNew(c)
    BY <1>0, <2>0, <2>1 DEF SocketNew
  <2>2. CASE SocketLink(c) \/ SocketNumber(c) \/ SocketCount(c) \/ SocketType(c)
    BY <2>0, <2>2 DEF SocketLink, SocketNumber, SocketCount, SocketType
  <2>3. CASE Bind(c) \/ Listen(c) \/ Accept(c)
    BY <2>0, <2>3 DEF Bind, Listen, Accept, ListenAs
  <2> QED
    BY <2>1, <2>2, <2>3 DEF SocketStep
<1>17. TypeOK' /\ AtInv'
  BY <1>0, <1>1, <1>2, <1>3, <1>15, <1>16 DEF TypeOK, AtInv, registry, ClientStates, PosterStates,
     Ready, Seeking, Using
<1> QED
  BY <1>6, <1>15, <1>17 DEF TypeInv

\* Every step is one of the registry's side, of the bootstrap, or of a client that
\* looks names up or uses a socket.
LEMMA Steps ==
  ASSUME Next
  PROVE  \/ \E p \in Posters : RegistrySide(p)
         \/ \E p \in Servers \cup Clients : Boot(p)
         \/ \E c \in Clients : \/ JoinIpc(c) \/ FindNext(c) \/ CallsWild(c) \/ SocketFails(c)
                               \/ PathTooLong(c)
         \/ \E c \in Clients : SocketStep(c)
BY DEF Next, RegistrySide, Posters, Client, SocketStep

LEMMA TypeInit == Init => TypeInv
<1> SUFFICES ASSUME Init PROVE TypeInv
  OBVIOUS
<1>1. Cardinality(Clients) \in Nat
  BY CountedFinite
<1>2. \A s : CountedIn(s) = {}
  BY DEF Init, CountedIn, Procs
<1>3. Cardinality({}) = 0
  BY FS_EmptySet
<1>4. \A p \in Procs : 1 \in 1 .. Len(NamesOf(p))
  BY ConstantFacts DEF NamesOf
<1>5. << >> \in Seq(Entry)
  OBVIOUS
<1>6. Room \in Nat
  BY ServicesAssumption
<1>7. TypeOK /\ AtInv
  <2>1. pc \in [Procs -> {"post", "boot"}]
    BY DEF Init
  <2>2. AtInv /\ \A p \in Procs : at[p] \in 1 .. Len(NamesOf(p))
    BY <1>4 DEF Init, AtInv
  <2>3. /\ descriptive_name \in BOOLEAN /\ user_root \in BOOLEAN /\ mallocHeld \in BOOLEAN
        /\ list \in Seq(Entry)
        /\ overlapped \subseteq Names /\ socketRace \subseteq Servers
    BY <1>5 DEF Init
  <2>6. room \in 0 .. Room
    BY <1>6 DEF Init
  <2>4. /\ joined \in [Clients -> Servers \cup {Nil}]
        /\ found \in [Clients -> [IpcSet -> Entry \cup {Nil}]]
        /\ type \in [Clients -> {"none", "NEW", "BIND", "LISTEN"}]
        /\ nextSock \in [Clients -> Clients \cup {Nil}]
        /\ addr \in [Clients -> Clients \cup {Nil}]
        /\ activeSocket_list \in [Servers -> Clients \cup {Nil}]
    BY DEF Init
  <2>5. /\ sockNo \in [Clients -> 0 .. Cardinality(Clients)]
        /\ nextSockNo \in [Servers -> 1 .. Cardinality(Clients) + 1]
    BY <1>1 DEF Init
  <2> QED
    BY <2>1, <2>2, <2>3, <2>4, <2>5, <2>6 DEF TypeOK
<1>8. PlaceInv
  BY ServicesAssumption DEF Init, PlaceInv, Procs, Posters, PosterStates, ClientStates, Ready, Seeking,
     Using
<1>9. NumberInv
  <2>0. \A s : Cardinality(CountedIn(s)) = 0
    BY <1>2, <1>3
  <2>1. \A s \in Servers : nextSockNo[s] <= Cardinality(CountedIn(s)) + 1
    BY <2>0 DEF Init
  <2>2. \A c \in Clients : pc[c] # "count"
    BY DEF Init, Procs
  <2> QED
    BY <2>1, <2>2 DEF NumberInv
<1> QED
  BY <1>7, <1>8, <1>9 DEF TypeInv

LEMMA TypeNext == TypeInv /\ [Next]_vars => TypeInv'
<1> SUFFICES ASSUME TypeInv, [Next]_vars PROVE TypeInv'
  OBVIOUS
<1>1. CASE Next
  BY <1>1, Steps, TypePost, TypeBoot, TypeLookup, TypeSocket
<1>2. CASE UNCHANGED vars
  BY <1>2 DEF vars, registry, lookup, sockets, TypeInv, TypeOK, AtInv, PlaceInv, NumberInv,
     CountedIn, NamesOf
<1> QED
  BY <1>1, <1>2

LEMMA TypeAlways == Spec => []TypeInv
BY TypeInit, TypeNext, PTL DEF Spec

\* The state is well typed.  In particular the numbers of the sockets of a server stay
\* within the number of its clients, however the calls of sc_ipc_socket overlap.
THEOREM TypeCorrect == Spec => []TypeOK
<1>1. TypeInv => TypeOK
  BY DEF TypeInv
<1> QED
  BY <1>1, TypeAlways, PTL

-----------------------------------------------------------------------------
(* What is in the registry                                                 *)

Has(n) == HasName(list, n)

\* The registry has posted what it has come past, and whoever has got further than
\* its bootstrap can rely on both.
RegistryInv ==
  /\ pc[Registry] \notin {"boot", "bootroot", "failed"}
  /\ at[Registry] = 2 => Has("registry_post")
  /\ \/ pc[Registry] \in {"name", "root", "serve"}
     \/ descriptive_name \/ user_root
     \/ \E p \in Servers \cup Clients : pc[p] \notin {"boot", "bootroot", "failed", "aborted"}
     => Has("registry_post") /\ Has("registry_find")

\* A name that is being posted is not in the list yet, and nobody else posts it.
PostInv ==
  \A p \in Posters : \A n \in Names : Posting(p, n) /\ n \notin overlapped =>
    /\ ~ Has(n)
    /\ \A q \in Posters : Posting(q, n) => q = p

\* No name is in the list twice.
OnceInv ==
  overlapped = {} => \A i, j \in DOMAIN list : list[i].name = list[j].name => i = j

\* A server whose functions are in the list has posted its first name.
HasFirst(p) == \E j \in DOMAIN list : list[j].name = IpcNames[1] /\ list[j].owner = p

OwnerInv ==
  /\ \A p \in Servers : at[p] > 1 => HasFirst(p)
  /\ \A i \in DOMAIN list : list[i].name \in IpcSet => HasFirst(list[i].owner)

FoundInv ==
  overlapped = {} =>
    \A c \in Clients, n \in IpcSet : found[c][n] # Nil => found[c][n] = registry_find(n)

NameInv == RegistryInv /\ PostInv /\ OnceInv /\ OwnerInv /\ FoundInv

\* The entry that a process posts.
NewEntry(p) == [name |-> Name(p), sym |-> Sym(Name(p)), owner |-> p]

\* The list changes only by a new first entry, for the name that is being posted.
LEMMA ListSteps ==
  ASSUME TypeInv, [Next]_vars
  PROVE  \/ list' = list
         \/ \E p \in Posters : /\ PostPush(p) /\ Posting(p, Name(p))
                               /\ list' = <<NewEntry(p)>> \o list /\ NewEntry(p) \in Entry
<1>1. CASE UNCHANGED vars
  BY <1>1 DEF vars, registry
<1>2. ASSUME NEW p \in Posters, RegistrySide(p) PROVE list' = list \/ PostPush(p)
  BY <1>2 DEF RegistrySide, Post, PostFind, PostMalloc, PostNoRoom, SetName, SetRoot, Die, registry
<1>3. ASSUME NEW p \in Posters, PostPush(p)
      PROVE  /\ Posting(p, Name(p)) /\ list' = <<NewEntry(p)>> \o list /\ NewEntry(p) \in Entry
  BY <1>3, NameTyped DEF PostPush, Posting, NewEntry, Entry
<1>4. ASSUME NEW p \in Servers \cup Clients, Boot(p) PROVE list' = list
  BY <1>4 DEF Boot, BootFails, BootName, BootRoot, registry
<1>5. ASSUME NEW c \in Clients,
             JoinIpc(c) \/ FindNext(c) \/ CallsWild(c) \/ SocketFails(c) \/ PathTooLong(c)
      PROVE  list' = list
  BY <1>5 DEF JoinIpc, FindNext, CallsWild, SocketFails, PathTooLong, registry
<1>6. ASSUME NEW c \in Clients, SocketStep(c) PROVE list' = list
  BY <1>6, SocketFrame DEF registry
<1>7. CASE Next
  BY <1>2, <1>3, <1>4, <1>5, <1>6, <1>7, Steps
<1> QED
  BY <1>1, <1>7

\* What is in the list stays there.
LEMMA NamesStay ==
  ASSUME TypeInv, [Next]_vars, NEW n, Has(n)
  PROVE  Has(n)'
<1>1. list \in Seq(Entry)
  BY DEF TypeInv, TypeOK
<1>2. CASE list' = list
  BY <1>2 DEF Has
<1>3. ASSUME NEW p \in Posters, list' = <<NewEntry(p)>> \o list, NewEntry(p) \in Entry
      PROVE  Has(n)'
  <2>1. HasName(<<NewEntry(p)>> \o list, n)
    BY <1>1, <1>3, FirstPushed DEF Has
  <2> QED
    BY <1>3, <2>1 DEF Has
<1> QED
  BY <1>2, <1>3, ListSteps

\* A step of somebody who is in none of the two critical sections of registry_post.
LEMMA PostingKept ==
  ASSUME TypeInv, UNCHANGED <<list, overlapped, at>>,
         \A p \in Posters : pc'[p] \in {"malloc", "push"} => pc[p] \in {"malloc", "push"},
         PostInv
  PROVE  PostInv'
<1>1. \A p \in Posters : Name(p)' = Name(p)
  BY DEF Name, NamesOf
<1>2. \A p \in Posters : \A n : Posting(p, n)' => Posting(p, n)
  BY <1>1 DEF Posting
<1> QED
  BY <1>2 DEF PostInv, Has

Out == {"boot", "bootroot", "failed", "aborted"}

\* The lookups and the sockets of a client do not concern the registry.
LEMMA ClientFrame ==
  ASSUME TypeInv, NEW c \in Clients,
         \/ JoinIpc(c) \/ FindNext(c) \/ CallsWild(c) \/ SocketFails(c) \/ PathTooLong(c)
         \/ SocketStep(c)
  PROVE  /\ UNCHANGED registry
         /\ \A p \in Posters : pc'[p] = pc[p] /\ at'[p] = at[p]
         /\ pc[c] \notin Out
         /\ \A q \in Procs \ {c} : pc'[q] = pc[q]
<1>0. TypeOK /\ AtInv /\ \A p \in Posters : p \in Procs /\ p # c
  BY ServicesAssumption DEF TypeInv, Procs, Posters
<1>1. CASE JoinIpc(c) \/ FindNext(c) \/ CallsWild(c) \/ SocketFails(c) \/ PathTooLong(c)
  BY <1>0, <1>1 DEF JoinIpc, FindNext, CallsWild, SocketFails, PathTooLong, Goto, Calls, Called, Out,
     TypeOK, AtInv
<1>2. CASE SocketStep(c)
  <2>1. PICK label \in ClientStates :
              /\ Goes(pc[c], label)
              /\ \A q \in Procs : pc'[q] = IF q = c THEN label ELSE pc[q]
    BY <1>2, SocketFrame
  <2> QED
    BY <1>0, <1>2, <2>1, SocketFrame DEF Goes, Using, Out
<1> QED
  BY <1>1, <1>2

\* The registry posts its functions, says who it is, and is found, in this order.
LEMMA RegistryStep ==
  ASSUME TypeInv, RegistryInv, [Next]_vars
  PROVE  RegistryInv'
<1>0. TypeOK /\ AtInv /\ PlaceInv /\ list \in Seq(Entry) /\ Registry \in Posters
      /\ Registry \in Procs /\ Registry \notin Servers \cup Clients
  BY ServicesAssumption DEF TypeInv, TypeOK, Procs, Posters
<1>a. \A n : Has(n) => Has(n)'
  BY NamesStay
<1> DEFINE Both == Has("registry_post") /\ Has("registry_find")
           Pass(p) == pc[p] \notin Out
<1>b. /\ pc[Registry] \notin {"boot", "bootroot", "failed"}
      /\ at[Registry] = 2 => Has("registry_post")
      /\ pc[Registry] \in {"name", "root", "serve"} => Both
      /\ descriptive_name => Both
      /\ user_root => Both
      /\ \A p \in Servers \cup Clients : Pass(p) => Both
  BY DEF RegistryInv, Out
<1>c. Both => Both'
  BY <1>a
<1> DEFINE Goal ==
             /\ pc'[Registry] \notin {"boot", "bootroot", "failed"}
             /\ at'[Registry] = 2 => Has("registry_post")'
             /\ pc'[Registry] \in {"name", "root", "serve"} => Both'
             /\ descriptive_name' => Both'
             /\ user_root' => Both'
             /\ \A p \in Servers \cup Clients : Pass(p)' => Both'
<1>d. SUFFICES Goal
  BY DEF RegistryInv, Out
<1> HIDE DEF Both
<1>1. CASE UNCHANGED vars
  BY <1>1, <1>a, <1>b, <1>c DEF vars, registry
<1>2. ASSUME NEW p \in Posters, RegistrySide(p), p \in Servers PROVE Goal
  <2>0. p # Registry /\ p \in Procs
    BY <1>0, <1>2 DEF Procs
  <2>1. /\ pc[p] \notin Out /\ pc'[Registry] = pc[Registry] /\ at'[Registry] = at[Registry]
        /\ UNCHANGED <<descriptive_name, user_root>>
        /\ \A q \in Procs \ {p} : pc'[q] = pc[q]
    BY <1>0, <1>2, <2>0 DEF RegistrySide, Post, PostFind, PostMalloc, PostNoRoom, PostPush, Die, Goto,
       registry, Out, TypeOK, AtInv
  <2>2. Both
    BY <1>2, <1>b, <2>1
  <2> QED
    BY <1>a, <1>b, <1>c, <2>1, <2>2
<1>3. ASSUME RegistrySide(Registry) PROVE Goal
  <2>0. /\ \A q \in Servers \cup Clients : pc'[q] = pc[q]
    BY <1>0, <1>3 DEF RegistrySide, Post, PostFind, PostMalloc, PostNoRoom, PostPush, SetName, SetRoot,
       Goto, TypeOK, Procs, Posters
  <2>1. CASE PostFind(Registry) \/ PostMalloc(Registry)
    <3>1. /\ pc'[Registry] \in {"malloc", "push", "aborted"} /\ at'[Registry] = at[Registry]
          /\ UNCHANGED <<descriptive_name, user_root>>
      BY <1>0, <2>1 DEF PostFind, PostMalloc, Goto, TypeOK
    <3> QED
      BY <1>a, <1>b, <1>c, <2>0, <3>1
  <2>2. CASE PostPush(Registry)
    <3>1. UNCHANGED <<descriptive_name, user_root>> /\ list' = <<NewEntry(Registry)>> \o list
          /\ NewEntry(Registry) \in Entry
      BY <1>0, <2>2, NameTyped DEF PostPush, NewEntry, Entry
    <3>2. ASSUME NEW n, n = Name(Registry) PROVE Has(n)'
      <4>1. NewEntry(Registry).name = n
        BY <3>2 DEF NewEntry
      <4> QED
        BY <1>0, <3>1, <4>1, FirstPushed DEF Has
    <3>3. at[Registry] \in 1 .. 2 /\ Name(Registry) = RegistryNames[at[Registry]]
      BY <1>0, NameTyped
    <3>4. Len(NamesOf(Registry)) = 2
      BY ConstantFacts DEF NamesOf
    <3>5. CASE at[Registry] = 1
      <4>1. Has("registry_post")'
        BY <3>2, <3>3, <3>5, ConstantFacts
      <4>2. pc'[Registry] = "post"
        BY <1>0, <2>2, <3>4, <3>5 DEF PostPush, Goto, TypeOK
      <4> QED
        BY <1>b, <1>c, <2>0, <3>1, <4>1, <4>2
    <3>6. CASE at[Registry] = 2
      <4>1. Has("registry_post")' /\ Has("registry_find")'
        BY <1>a, <1>b, <3>2, <3>3, <3>6, ConstantFacts
      <4>2. pc'[Registry] = "name"
        BY <1>0, <2>2, <3>4, <3>6 DEF PostPush, Goto, TypeOK
      <4>3. Both'
        BY <4>1 DEF Both
      <4> QED
        BY <4>1, <4>2, <4>3
    <3> QED
      BY <3>3, <3>5, <3>6
  <2>3. CASE SetName \/ SetRoot
    <3>1. Both /\ pc'[Registry] \in {"root", "serve"} /\ at' = at
      BY <1>0, <1>b, <2>3 DEF SetName, SetRoot, Goto, TypeOK
    <3> QED
      BY <1>a, <1>b, <1>c, <3>1
  <2> QED
    BY <1>0, <1>3, <2>1, <2>2, <2>3 DEF RegistrySide, Post, PostNoRoom
<1>4. ASSUME NEW p \in Servers \cup Clients, Boot(p) PROVE Goal
  <2>1. /\ UNCHANGED <<descriptive_name, user_root, at>>
        /\ \A q \in Procs \ {p} : pc'[q] = pc[q]
        /\ p \in Procs /\ p # Registry
    BY <1>0, <1>4 DEF Boot, BootFails, BootName, BootRoot, Goto, registry, TypeOK, Procs, Posters
  <2>2. pc'[p] \notin Out => user_root
    BY <1>0, <1>4, <2>1 DEF Boot, BootFails, BootName, BootRoot, Goto, TypeOK, Out
  <2>3. \A q \in Servers \cup Clients : q \in Procs
    BY DEF Procs, Posters
  <2> QED
    BY <1>0, <1>a, <1>b, <1>c, <2>1, <2>2, <2>3
<1>5. ASSUME NEW c \in Clients,
             \/ JoinIpc(c) \/ FindNext(c) \/ CallsWild(c) \/ SocketFails(c) \/ PathTooLong(c)
             \/ SocketStep(c)
      PROVE  Goal
  <2>1. /\ UNCHANGED <<descriptive_name, user_root>>
        /\ pc'[Registry] = pc[Registry] /\ at'[Registry] = at[Registry]
        /\ pc[c] \notin Out
    BY <1>0, <1>5, ClientFrame DEF registry
  <2>2. Both
    BY <1>b, <2>1
  <2> QED
    BY <1>a, <1>b, <1>c, <2>1, <2>2
<1>6. CASE Next
  <2>1. \A p \in Posters : p \in Servers \/ p = Registry
    BY DEF Posters
  <2> QED
    BY <1>2, <1>3, <1>4, <1>5, <1>6, <2>1, Steps
<1> QED
  BY <1>1, <1>6

\* Two critical sections of registry_post: the first finds no entry of the name, and
\* whoever comes between them marks the name as overlapped.
LEMMA PostStep ==
  ASSUME TypeInv, PostInv, [Next]_vars
  PROVE  PostInv'
<1>0. TypeOK /\ AtInv /\ list \in Seq(Entry)
  BY DEF TypeInv, TypeOK
<1>a. \A p \in Posters : p \in Procs /\ p \notin Clients
  BY ServicesAssumption DEF Procs, Posters
<1>1. CASE UNCHANGED vars
  BY <1>1, PostingKept DEF vars, registry
<1>2. ASSUME NEW p \in Posters, RegistrySide(p) PROVE PostInv'
  <2>1. CASE PostFind(p)
    <3>0. Name(p) \in Names
      BY NameTyped
    <3>1. /\ UNCHANGED <<list, at>>
          /\ \A q \in Posters : Name(q)' = Name(q)
          /\ \A q \in Posters \ {p} : pc'[q] = pc[q]
          /\ overlapped' = overlapped \cup
               {n \in {Name(p)} : \E q \in Posters \ {p} : Posting(q, n)}
          /\ pc'[p] = "malloc" => First(list, Name(p)) = Nil
          /\ pc'[p] \in {"malloc", "aborted"}
      BY <1>0, <1>a, <2>1, FindIsFirst DEF PostFind, Goto, TypeOK, Name, NamesOf
    <3>2. \A q \in Posters \ {p} : \A n : Posting(q, n)' <=> Posting(q, n)
      BY <3>1 DEF Posting
    <3>3. \A n : Posting(p, n)' => n = Name(p) /\ First(list, n) = Nil
      BY <3>1 DEF Posting
    <3>4. ASSUME NEW q \in Posters, NEW n \in Names, Posting(q, n)', n \notin overlapped'
          PROVE  ~ Has(n)' /\ \A r \in Posters : Posting(r, n)' => r = q
      <4>1. CASE q = p
        <5>1. ~ HasName(list, n)
          BY <1>0, <3>3, <3>4, <4>1, FirstNil
        <5>2. \A r \in Posters \ {p} : ~ Posting(r, n)
          BY <3>1, <3>3, <3>4, <4>1
        <5> QED
          BY <3>1, <3>2, <4>1, <5>1, <5>2 DEF Has
      <4>2. CASE q # p
        <5>1. Posting(q, n) /\ n \notin overlapped
          BY <3>1, <3>2, <3>4, <4>2
        <5>2. n # Name(p)
          BY <3>1, <3>4, <4>2, <5>1
        <5>3. ~ Has(n) /\ \A r \in Posters : Posting(r, n) => r = q
          BY <5>1 DEF PostInv
        <5> QED
          BY <3>1, <3>2, <3>3, <5>2, <5>3 DEF Has
      <4> QED
        BY <4>1, <4>2
    <3> QED
      BY <3>4 DEF PostInv
  <2>2. CASE PostPush(p)
    <3>1. /\ Posting(p, Name(p)) /\ Name(p) \in Names
          /\ list' = <<NewEntry(p)>> \o list /\ NewEntry(p) \in Entry /\ NewEntry(p).name = Name(p)
      BY <2>2, NameTyped DEF PostPush, Posting, NewEntry, Entry
    <3>2. /\ overlapped' = overlapped
          /\ \A q \in Posters \ {p} : pc'[q] = pc[q] /\ at'[q] = at[q]
          /\ pc'[p] \in {"post", "name", "serve"}
      BY <1>0, <1>a, <2>2 DEF PostPush, Goto, TypeOK, AtInv
    <3>3. \A q \in Posters \ {p} : Name(q)' = Name(q)
      BY <3>2 DEF Name, NamesOf
    <3>4. \A q \in Posters : \A n : Posting(q, n)' => q # p /\ Posting(q, n)
      BY <3>2, <3>3 DEF Posting
    <3>5. ASSUME NEW q \in Posters, NEW n \in Names, Posting(q, n)', n \notin overlapped'
          PROVE  ~ Has(n)' /\ \A r \in Posters : Posting(r, n)' => r = q
      <4>1. q # p /\ Posting(q, n) /\ n \notin overlapped
        BY <3>2, <3>4, <3>5
      <4>2. ~ Has(n) /\ \A r \in Posters : Posting(r, n) => r = q
        BY <4>1 DEF PostInv
      <4>3. n # Name(p)
        BY <3>1, <4>1, <4>2
      <4>4. ~ HasName(list', n)
        BY <1>0, <3>1, <4>2, <4>3, FirstPushed DEF Has
      <4> QED
        BY <3>4, <4>2, <4>4 DEF Has
    <3> QED
      BY <3>5 DEF PostInv
  <2>3. CASE ~ PostFind(p) /\ ~ PostPush(p)
    <3>1. /\ UNCHANGED <<list, overlapped, at>>
          /\ \A q \in Posters \ {p} : pc'[q] = pc[q]
          /\ pc'[p] \in {"malloc", "push"} => pc[p] \in {"malloc", "push"}
      BY <1>0, <1>2, <1>a, <2>3 DEF RegistrySide, Post, PostMalloc, PostNoRoom, SetName, SetRoot, Die,
         Goto, registry, TypeOK
    <3> QED
      BY <3>1, PostingKept
  <2> QED
    BY <2>1, <2>2, <2>3
<1>3. ASSUME NEW p \in Servers \cup Clients, Boot(p) PROVE PostInv'
  <2>1. /\ UNCHANGED <<list, overlapped, at>>
        /\ \A q \in Procs \ {p} : pc'[q] = pc[q]
        /\ pc'[p] \notin {"malloc", "push"}
    BY <1>0, <1>3 DEF Boot, BootFails, BootName, BootRoot, Goto, registry, TypeOK, Procs, Posters
  <2> QED
    BY <1>a, <2>1, PostingKept
<1>4. ASSUME NEW c \in Clients,
             \/ JoinIpc(c) \/ FindNext(c) \/ CallsWild(c) \/ SocketFails(c) \/ PathTooLong(c)
             \/ SocketStep(c)
      PROVE  PostInv'
  <2>1. UNCHANGED <<list, overlapped>> /\ \A p \in Posters : pc'[p] = pc[p] /\ at'[p] = at[p]
    BY <1>4, ClientFrame DEF registry
  <2>2. \A p \in Posters : Name(p)' = Name(p)
    BY <2>1 DEF Name, NamesOf
  <2>3. \A p \in Posters : \A n : Posting(p, n)' <=> Posting(p, n)
    BY <2>1, <2>2 DEF Posting
  <2> QED
    BY <2>1, <2>3 DEF PostInv, Has
<1>5. CASE Next
  BY <1>2, <1>3, <1>4, <1>5, Steps
<1> QED
  BY <1>1, <1>5

LEMMA OverlapStays ==
  ASSUME [Next]_vars, TypeInv
  PROVE  overlapped \subseteq overlapped'
<1>1. CASE UNCHANGED vars
  BY <1>1 DEF vars, registry
<1>2. ASSUME NEW p \in Posters, RegistrySide(p) PROVE overlapped \subseteq overlapped'
  BY <1>2 DEF RegistrySide, Post, PostFind, PostMalloc, PostNoRoom, PostPush, SetName, SetRoot, Die,
     registry
<1>3. ASSUME NEW p \in Servers \cup Clients, Boot(p) PROVE overlapped' = overlapped
  BY <1>3 DEF Boot, BootFails, BootName, BootRoot, registry
<1>4. CASE Next
  BY <1>2, <1>3, <1>4, Steps, ClientFrame DEF registry
<1> QED
  BY <1>1, <1>4

\* A name that is in the list is pushed again only if it is overlapped.
LEMMA AnswerKept ==
  ASSUME TypeInv, PostInv, [Next]_vars, NEW n \in Names, registry_find(n) # Nil, n \notin overlapped
  PROVE  registry_find(n)' = registry_find(n)
<1>0. list \in Seq(Entry)
  BY DEF TypeInv, TypeOK
<1>1. CASE list' = list
  BY <1>1, FindIsFirst
<1>2. ASSUME NEW p \in Posters, Posting(p, Name(p)), list' = <<NewEntry(p)>> \o list,
             NewEntry(p) \in Entry
      PROVE  registry_find(n)' = registry_find(n)
  <2>1. HasName(list, n)
    BY <1>0, FirstNil, FindIsFirst
  <2>2. n # Name(p)
    BY <1>2, <2>1 DEF PostInv, Has
  <2>3. NewEntry(p).name = Name(p)
    BY DEF NewEntry
  <2> QED
    BY <1>0, <1>2, <2>2, <2>3, FirstPushed, FindIsFirst
<1> QED
  BY <1>1, <1>2, ListSteps

LEMMA OnceStep ==
  ASSUME TypeInv, PostInv, OnceInv, [Next]_vars
  PROVE  OnceInv'
<1>0. list \in Seq(Entry) /\ overlapped \subseteq overlapped'
  BY OverlapStays DEF TypeInv, TypeOK
<1>1. CASE list' = list
  BY <1>0, <1>1 DEF OnceInv
<1>2. ASSUME NEW p \in Posters, Posting(p, Name(p)), list' = <<NewEntry(p)>> \o list,
             NewEntry(p) \in Entry, overlapped' = {}
      PROVE  \A i, j \in DOMAIN list' : list'[i].name = list'[j].name => i = j
  <2>1. overlapped = {} /\ Name(p) \in Names /\ NewEntry(p).name = Name(p)
    BY <1>0, <1>2, NameTyped DEF NewEntry
  <2>2. \A i \in DOMAIN list : list[i].name # Name(p)
    BY <1>2, <2>1 DEF PostInv, Has, HasName
  <2>3. \A i, j \in DOMAIN list : list[i].name = list[j].name => i = j
    BY <2>1 DEF OnceInv
  <2>4. /\ list'[1] = NewEntry(p)
        /\ \A i \in DOMAIN list' : i = 1 \/ (i - 1 \in DOMAIN list /\ list'[i] = list[i - 1])
        /\ \A i \in DOMAIN list' : i \in Nat
    BY <1>0, <1>2, Pushed
  <2> TAKE i, j \in DOMAIN list'
  <2> HAVE list'[i].name = list'[j].name
  <2>5. CASE i = 1 \/ j = 1
    BY <2>1, <2>2, <2>4, <2>5
  <2>6. CASE i # 1 /\ j # 1
    <3>1. i - 1 = j - 1
      BY <2>3, <2>4, <2>6
    <3> QED
      BY <2>4, <3>1
  <2> QED
    BY <2>5, <2>6
<1> QED
  BY <1>1, <1>2, ListSteps DEF OnceInv

LEMMA OwnerStep ==
  ASSUME TypeInv, OwnerInv, [Next]_vars
  PROVE  OwnerInv'
<1>0. list \in Seq(Entry) /\ TypeOK /\ AtInv /\ \A p \in Posters : p \in Procs
  BY DEF TypeInv, TypeOK, Procs
<1>a. \A s \in Servers : s \in Posters /\ s # Registry
  BY ServicesAssumption DEF Posters
<1>1. ASSUME list' = list, \A s \in Servers : at'[s] = at[s] PROVE OwnerInv'
  BY <1>1 DEF OwnerInv, HasFirst
<1>2. ASSUME NEW p \in Posters, PostPush(p) PROVE OwnerInv'
  <2>1. /\ list' = <<NewEntry(p)>> \o list /\ NewEntry(p) \in Entry
        /\ NewEntry(p).name = Name(p) /\ NewEntry(p).owner = p
    BY <1>2, NameTyped DEF PostPush, NewEntry, Entry
  <2>2. /\ list'[1] = NewEntry(p) /\ 1 \in DOMAIN list'
        /\ \A i \in DOMAIN list : i + 1 \in DOMAIN list' /\ list'[i + 1] = list[i]
        /\ \A i \in DOMAIN list' : i = 1 \/ (i - 1 \in DOMAIN list /\ list'[i] = list[i - 1])
    BY <1>0, <2>1, Pushed
  <2>3. \A q : HasFirst(q) => HasFirst(q)'
    BY <2>2 DEF HasFirst
  <2>4. p \in Servers => HasFirst(p)'
    <3>1. CASE p \in Servers /\ at[p] = 1
      <4>1. Name(p) = IpcNames[1]
        BY <1>a, <3>1, NameTyped
      <4> QED
        BY <2>1, <2>2, <4>1 DEF HasFirst
    <3>2. CASE p \in Servers /\ at[p] # 1
      <4>1. at[p] > 1
        BY <1>a, <3>2, NameTyped, ConstantFacts
      <4> QED
        BY <2>3, <3>2, <4>1 DEF OwnerInv
    <3> QED
      BY <3>1, <3>2
  <2>5. \A s \in Servers \ {p} : at'[s] = at[s]
    BY <1>0, <1>2, <1>a DEF PostPush, AtInv
  <2>6. ASSUME NEW i \in DOMAIN list', list'[i].name \in IpcSet,
               NEW o, o = list'[i].owner
        PROVE  HasFirst(o)'
    <3>1. CASE i = 1
      <4>1. p \in Servers
        <5>1. Name(p) \in IpcSet
          BY <2>1, <2>2, <2>6, <3>1
        <5>2. p # Registry
          <6>1. p = Registry => Name(p) \in {"registry_post", "registry_find"}
            BY NameTyped, ConstantFacts
          <6> QED
            BY <5>1, <6>1, ConstantFacts
        <5> QED
          BY <5>2 DEF Posters
      <4> QED
        BY <2>1, <2>2, <2>4, <2>6, <3>1, <4>1
    <3>2. CASE i # 1
      <4>1. i - 1 \in DOMAIN list /\ list'[i] = list[i - 1]
        BY <2>2, <3>2
      <4>2. HasFirst(o)
        BY <2>6, <4>1 DEF OwnerInv
      <4> QED
        BY <2>3, <4>2
    <3> QED
      BY <3>1, <3>2
  <2>7. \A s \in Servers : at'[s] > 1 => HasFirst(s)'
    BY <2>3, <2>4, <2>5 DEF OwnerInv
  <2> QED
    BY <2>6, <2>7 DEF OwnerInv
<1>3. ASSUME NEW p \in Posters, RegistrySide(p), ~ PostPush(p) PROVE list' = list /\ at' = at
  BY <1>3 DEF RegistrySide, Post, PostFind, PostMalloc, PostNoRoom, SetName, SetRoot, Die, registry
<1>4. ASSUME NEW p \in Servers \cup Clients, Boot(p) PROVE list' = list /\ at' = at
  BY <1>4 DEF Boot, BootFails, BootName, BootRoot, registry
<1>5. CASE Next
  BY <1>1, <1>2, <1>3, <1>4, <1>5, <1>a, Steps, ClientFrame DEF registry
<1>6. CASE UNCHANGED vars
  BY <1>1, <1>6 DEF vars, registry
<1> QED
  BY <1>5, <1>6

LEMMA FoundStep ==
  ASSUME TypeInv, PostInv, FoundInv, [Next]_vars
  PROVE  FoundInv'
<1> SUFFICES ASSUME overlapped' = {}, NEW c \in Clients, NEW n \in IpcSet, found'[c][n] # Nil
             PROVE  found'[c][n] = registry_find(n)'
  BY DEF FoundInv
<1>0. overlapped = {} /\ n \in Names /\ TypeOK
  BY OverlapStays, ConstantFacts DEF TypeInv
<1>1. CASE found'[c][n] = found[c][n]
  <2>1. found[c][n] = registry_find(n) /\ registry_find(n) # Nil
    BY <1>0, <1>1 DEF FoundInv
  <2> QED
    BY <1>0, <1>1, <2>1, AnswerKept
<1>2. ASSUME NEW d \in Clients, FindNext(d)
      PROVE  found'[c][n] = found[c][n] \/ (found'[c][n] = registry_find(n) /\ list' = list)
  <2>1. /\ found' = [found EXCEPT ![d] =
             [found[d] EXCEPT ![IpcNames[at[d]]] = registry_find(IpcNames[at[d]])]]
        /\ list' = list
    BY <1>2 DEF FindNext, registry
  <2>2. found \in [Clients -> [IpcSet -> Entry \cup {Nil}]]
    BY <1>0 DEF TypeOK
  <2> QED
    BY <2>1, <2>2
<1>3. \/ found' = found
      \/ \E d \in Clients : FindNext(d)
  <2>1. CASE UNCHANGED vars
    BY <2>1 DEF vars, lookup
  <2>2. ASSUME NEW p \in Posters, RegistrySide(p) PROVE found' = found
    BY <2>2 DEF RegistrySide, Post, PostFind, PostMalloc, PostNoRoom, PostPush, SetName, SetRoot, Die,
       lookup
  <2>3. ASSUME NEW p \in Servers \cup Clients, Boot(p) PROVE found' = found
    BY <2>3 DEF Boot, BootFails, BootName, BootRoot, lookup
  <2>4. ASSUME NEW d \in Clients, JoinIpc(d) \/ CallsWild(d) \/ SocketFails(d) \/ PathTooLong(d)
        PROVE  found' = found
    BY <2>4 DEF JoinIpc, CallsWild, SocketFails, PathTooLong, lookup
  <2>5. ASSUME NEW d \in Clients, SocketStep(d) PROVE found' = found
    BY <2>5, SocketFrame DEF lookup
  <2> QED
    BY <2>1, <2>2, <2>3, <2>4, <2>5, Steps
<1> QED
  BY <1>1, <1>2, <1>3, FindIsFirst

LEMMA NameAlways == Spec => [](TypeInv /\ NameInv)
<1>1. Init => NameInv
  <2> SUFFICES ASSUME Init PROVE NameInv
    OBVIOUS
  <2>1. /\ list = << >> /\ ~ descriptive_name /\ ~ user_root
        /\ \A p \in Procs : at[p] = 1 /\ pc[p] = IF p = Registry THEN "post" ELSE "boot"
        /\ Registry \in Procs /\ Registry \notin Servers \cup Clients
    BY ServicesAssumption DEF Init, Procs, Posters
  <2>2. RegistryInv
    BY <2>1 DEF RegistryInv, Procs, Posters
  <2>3. PostInv
    BY <2>1 DEF PostInv, Posting, Procs
  <2>4. OnceInv /\ OwnerInv
    BY <2>1 DEF OnceInv, OwnerInv, Procs, Posters
  <2>5. FoundInv
    BY DEF Init, FoundInv
  <2> QED
    BY <2>2, <2>3, <2>4, <2>5 DEF NameInv
<1>2. TypeInv /\ NameInv /\ [Next]_vars => NameInv'
  BY RegistryStep, PostStep, OnceStep, OwnerStep, FoundStep DEF NameInv
<1> QED
  BY <1>1, <1>2, TypeAlways, TypeNext, TypeInit, PTL DEF Spec

\* Whoever has got past subcontexts_registry_bootstrap finds both functions of the
\* registry in it: it posts them before it says that it is the registry.
THEOREM BootstrapCompleteHolds == Spec => []BootstrapComplete
<1>1. TypeInv /\ NameInv => BootstrapComplete
  <2> SUFFICES ASSUME TypeInv, RegistryInv, NEW p \in Servers \cup Clients,
                      pc[p] \notin {"boot", "bootroot", "failed", "aborted"},
                      NEW n \in {"registry_post", "registry_find"}
               PROVE  registry_find(n) # Nil
    BY DEF NameInv, BootstrapComplete
  <2>1. HasName(list, n) /\ list \in Seq(Entry)
    BY DEF RegistryInv, Has, TypeInv, TypeOK
  <2> QED
    BY <2>1, FirstNil, FindIsFirst
<1> QED
  BY <1>1, NameAlways, PTL

\* What a name stands for never changes, unless two processes have posted it at the
\* same time.
THEOREM AnswersStayHolds == Spec => AnswersStay
<1>1. TypeInv /\ NameInv /\ [Next]_vars =>
        [\A n \in Names : registry_find(n) # Nil /\ n \notin overlapped =>
           registry_find(n)' = registry_find(n)]_vars
  BY AnswerKept DEF NameInv
<1> QED
  BY <1>1, NameAlways, PTL DEF Spec, AnswersStay

\* The functions of IPC that are posted, and those that a client has found, are of one
\* server, unless a name was posted by two processes at the same time: the second
\* server ends at the first name, which the first one keeps even when it has died.
THEOREM OneServiceHolds == Spec => []OneService
<1>1. TypeInv /\ NameInv => OneService
  <2> SUFFICES ASSUME TypeInv, NameInv, overlapped = {}
               PROVE  /\ \A i, j \in DOMAIN list :
                           list[i].name \in IpcSet /\ list[j].name \in IpcSet
                             => list[i].owner = list[j].owner
                      /\ \A c \in Clients, n \in IpcSet :
                           found[c][n] # Nil => found[c][n] = registry_find(n)
    BY DEF OneService
  <2>1. ASSUME NEW i \in DOMAIN list, NEW j \in DOMAIN list,
               list[i].name \in IpcSet, list[j].name \in IpcSet
        PROVE  list[i].owner = list[j].owner
    <3>1. PICK k \in DOMAIN list : list[k].name = IpcNames[1] /\ list[k].owner = list[i].owner
      BY <2>1 DEF NameInv, OwnerInv, HasFirst
    <3>2. PICK m \in DOMAIN list : list[m].name = IpcNames[1] /\ list[m].owner = list[j].owner
      BY <2>1 DEF NameInv, OwnerInv, HasFirst
    <3>3. k = m
      BY <3>1, <3>2 DEF NameInv, OnceInv
    <3> QED
      BY <3>1, <3>2, <3>3
  <2> QED
    BY <2>1 DEF NameInv, FoundInv
<1> QED
  BY <1>1, NameAlways, PTL
-----------------------------------------------------------------------------
(* The sockets of a server                                                 *)

\* The number that a socket has, or will get if nobody interferes.
No(c) == IF Numbered(c) THEN sockNo[c] ELSE nextSockNo[joined[c]]
Made(c) == pc[c] = "link" \/ Linked(c)

\* The list of a server has sockets of its own clients only.
SockListInv ==
  /\ \A s \in Servers, d \in Clients : activeSocket_list[s] = d => joined[d] = s /\ Linked(d)
  /\ \A c, d \in Clients : Made(c) /\ nextSock[c] = d => joined[d] = joined[c] /\ Linked(d)
  /\ \A c \in Clients : ~ Numbered(c) => sockNo[c] = 0

\* A call of sc_ipc_socket that overlaps no other: it is the only one, and from the
\* link on its socket is the first of the list.
CallInv(c) ==
  /\ \A d \in Clients : joined[d] = joined[c] /\ Creating(d) => d = c
  /\ pc[c] \in {"number", "count", "type"} => activeSocket_list[joined[c]] = c

\* Numbers go down along the list, one by one, to 1.
OrderInv(c) ==
  /\ No(c) >= 1
  /\ pc[c] \in {"link", "number", "count"} => No(c) = nextSockNo[joined[c]]
  /\ pc[c] \notin {"link", "number", "count"} => No(c) < nextSockNo[joined[c]]
  /\ nextSock[c] = Nil => No(c) = 1
  /\ \A d \in Clients : nextSock[c] = d => No(d) = No(c) - 1
  /\ \A d \in Clients : joined[d] = joined[c] /\ Made(d) /\ No(d) = No(c) => d = c

HeadInv(s) ==
  /\ activeSocket_list[s] = Nil => nextSockNo[s] = 1
  /\ \A d \in Clients : activeSocket_list[s] = d => No(d) >= nextSockNo[s] - 1

\* What holds of the servers where no two calls of sc_ipc_socket have overlapped.
QuietInv ==
  /\ \A s \in Servers \ socketRace : HeadInv(s)
  /\ \A c \in Clients : joined[c] \in Servers \ socketRace =>
       /\ Creating(c) => CallInv(c)
       /\ Made(c) => OrderInv(c)
       /\ pc[c] \in {"listen", "accept"} => addr[c] = c

SocketInv == SockListInv /\ QuietInv

LEMMA SocketFacts ==
  ASSUME TypeInv
  PROVE  /\ \A s \in Servers : nextSockNo[s] \in Nat /\ nextSockNo[s] >= 1
         /\ \A s \in Servers : activeSocket_list[s] \in Clients \cup {Nil}
         /\ \A c \in Clients : sockNo[c] \in Nat /\ nextSock[c] \in Clients \cup {Nil}
         /\ Nil \notin Clients
         /\ \A c \in Clients : Linked(c) => Made(c)
         /\ \A c \in Clients : Made(c) => joined[c] \in Servers /\ No(c) \in Nat
         /\ \A c \in Clients : Creating(c) => Made(c)
<1>1. /\ \A s \in Servers : nextSockNo[s] \in Nat /\ nextSockNo[s] >= 1
      /\ \A s \in Servers : activeSocket_list[s] \in Clients \cup {Nil}
      /\ \A c \in Clients : sockNo[c] \in Nat /\ nextSock[c] \in Clients \cup {Nil}
      /\ Nil \notin Clients
  BY CountedFinite, ServicesAssumption DEF TypeInv, TypeOK
<1>2. \A c \in Clients : (Linked(c) => Made(c)) /\ (Creating(c) => Made(c))
  BY DEF Made, Linked, Creating
<1>3. \A c \in Clients : Made(c) => joined[c] \in Servers
  BY DEF Made, Linked, TypeInv, PlaceInv, ClientStates, Ready, Seeking, Using
<1> QED
  BY <1>1, <1>2, <1>3 DEF No

\* A search in the list of a server meets only sockets of its clients.
LEMMA ChainOfServer ==
  ASSUME TypeInv, SockListInv, NEW s \in Servers, NEW no, NEW d \in Chain(s, no)
  PROVE  d \in Clients /\ joined[d] = s /\ Linked(d)
<1> DEFINE U == {e \in Clients : joined[e] = s /\ Linked(e)}
<1>1. U \in SUBSET Clients
  OBVIOUS
<1>2. activeSocket_list[s] \in U \cup {Nil}
  BY SocketFacts DEF SockListInv
<1>3. \A e \in U : nextSock[e] \in U \cup {Nil}
  BY SocketFacts DEF SockListInv
<1>4. d \in U
  <2> HIDE DEF U
  <2> QED
    BY <1>1, <1>2, <1>3 DEF Chain
<1> QED
  BY <1>4

\* In a server where no calls have overlapped, the number of a client's socket leads
\* to that socket.
LEMMA OwnSocket ==
  ASSUME TypeInv, SocketInv, NEW c \in Clients, pc[c] \in Using, joined[c] \notin socketRace
  PROVE  Socket(c) = c
<1> DEFINE s == joined[c]
           no == sockNo[c]
           U == {e \in Clients : joined[e] = s /\ Linked(e)}
<1>1. type[c] # "none" /\ s \in Servers \ socketRace
  BY DEF TypeInv, PlaceInv, Using, ClientStates, Ready, Seeking
<1>2. Linked(c) /\ Numbered(c) /\ Made(c) /\ No(c) = no
  BY <1>1 DEF Linked, Numbered, Made, No
<1>3. OrderInv(c) /\ HeadInv(s) /\ SockListInv
  BY <1>1, <1>2 DEF SocketInv, QuietInv
<1>4. /\ no \in Nat /\ no >= 1 /\ no < nextSockNo[s] /\ nextSockNo[s] \in Nat
      /\ \A d \in Clients : joined[d] = s /\ Made(d) /\ No(d) = no => d = c
  BY <1>1, <1>2, <1>3, SocketFacts DEF OrderInv, Using
<1>5. ASSUME NEW d \in U PROVE /\ d \in Clients /\ Made(d) /\ OrderInv(d) /\ No(d) \in Nat
                               /\ sockNo[d] = no <=> d = c
  <2>1. d \in Clients /\ Made(d) /\ OrderInv(d) /\ No(d) \in Nat
    BY <1>1, <1>5, SocketFacts DEF SocketInv, QuietInv
  <2>2. sockNo[d] = no => No(d) = no
    BY <1>3, <1>4, <2>1 DEF No, SockListInv
  <2> QED
    BY <1>4, <2>1, <2>2
<1>6. Chain(s, no) \subseteq U
  BY <1>1, <1>3, ChainOfServer
<1>7. c \in Chain(s, no)
  <2> SUFFICES ASSUME NEW met \in SUBSET Clients,
                      activeSocket_list[s] \in met \cup {Nil},
                      \A d \in met : sockNo[d] # no => nextSock[d] \in met \cup {Nil},
                      c \notin met
               PROVE  FALSE
    BY DEF Chain
  <2> DEFINE T == {No(d) : d \in {e \in met \cap U : No(e) >= no}}
  <2>1. T \in SUBSET Nat
    BY <1>5
  <2>2. T # {}
    <3>1. activeSocket_list[s] # Nil
      BY <1>3, <1>4 DEF HeadInv
    <3>2. activeSocket_list[s] \in met \cap U
      BY <1>1, <1>3, <3>1, SocketFacts DEF SockListInv
    <3>3. PICK h \in met \cap U : h = activeSocket_list[s]
      BY <3>2
    <3>4. No(h) >= nextSockNo[s] - 1 /\ No(h) \in Nat
      BY <1>3, <1>5, <3>3 DEF HeadInv
    <3>5. No(h) >= no
      BY <1>4, <3>4
    <3> QED
      BY <3>3, <3>5
  <2>3. PICK m \in T : \A k \in T : m <= k
    <3> HIDE DEF T
    <3> QED
      BY <2>1, <2>2, LeastNumber
  <2>4. PICK d \in met \cap U : No(d) >= no /\ m = No(d)
    BY <2>3
  <2>5. No(d) # no /\ sockNo[d] # no /\ Made(d) /\ OrderInv(d) /\ No(d) \in Nat /\ joined[d] = s
    BY <1>4, <1>5, <2>4
  <2>6. nextSock[d] # Nil
    BY <1>4, <2>4, <2>5 DEF OrderInv
  <2>7. PICK e \in Clients : nextSock[d] = e
    BY <2>6, SocketFacts
  <2>8. e \in met \cap U
    BY <1>3, <2>5, <2>6, <2>7 DEF SockListInv
  <2>9. No(e) = No(d) - 1
    BY <2>5, <2>7 DEF OrderInv
  <2>10. No(e) >= no /\ No(e) < m
    BY <1>4, <2>4, <2>5, <2>9
  <2>11. No(e) \in T
    BY <2>8, <2>10
  <2> QED
    BY <1>5, <2>3, <2>5, <2>4, <2>8, <2>10, <2>11
<1>8. {d \in Chain(s, no) : sockNo[d] = no} = {c}
  BY <1>5, <1>6, <1>7
<1> QED
  BY <1>8 DEF Socket, findSockState

\* Steps that leave the lists and the numbers of the sockets as they are.
LEMMA SocketsKept ==
  ASSUME TypeInv, SocketInv,
         UNCHANGED <<nextSock, nextSockNo, activeSocket_list, socketRace>>,
         \A d \in Clients :
           /\ Linked(d)' <=> Linked(d)
           /\ Made(d)' <=> Made(d)
           /\ Made(d) => joined'[d] = joined[d] /\ No(d)' = No(d)
           /\ Creating(d)' => Creating(d)
           /\ pc'[d] \in {"link", "number", "count"} <=> pc[d] \in {"link", "number", "count"}
           /\ pc'[d] \in {"number", "count", "type"} => pc[d] \in {"number", "count", "type"}
           /\ ~ Numbered(d)' => sockNo'[d] = 0
           /\ pc'[d] \in {"listen", "accept"} /\ joined'[d] \in Servers \ socketRace => addr'[d] = d
  PROVE  SocketInv'
<1>1. SockListInv'
  BY SocketFacts DEF SocketInv, SockListInv
<1>2. ASSUME NEW s \in Servers \ socketRace PROVE HeadInv(s)'
  <2>1. HeadInv(s)
    BY DEF SocketInv, QuietInv
  <2>2. \A d \in Clients : activeSocket_list[s] = d => Made(d)
    BY SocketFacts DEF SocketInv, SockListInv
  <2> QED
    BY <2>1, <2>2 DEF HeadInv
<1>3. ASSUME NEW c \in Clients, joined'[c] \in Servers \ socketRace, Creating(c)'
      PROVE  CallInv(c)'
  <2>1. Creating(c) /\ Made(c) /\ joined'[c] = joined[c] /\ CallInv(c)
    BY <1>3, SocketFacts DEF SocketInv, QuietInv
  <2>2. \A d \in Clients : Creating(d)' => Creating(d) /\ joined'[d] = joined[d]
    BY SocketFacts
  <2> QED
    BY <2>1, <2>2 DEF CallInv
<1>4. ASSUME NEW c \in Clients, joined'[c] \in Servers \ socketRace, Made(c)'
      PROVE  OrderInv(c)'
  <2>1. Made(c) /\ joined'[c] = joined[c] /\ OrderInv(c) /\ No(c)' = No(c)
    BY <1>4 DEF SocketInv, QuietInv
  <2>2. \A d \in Clients : nextSock[c] = d => Made(d) /\ No(d)' = No(d)
    BY <2>1, SocketFacts DEF SocketInv, SockListInv
  <2>3. \A d \in Clients : Made(d)' => Made(d) /\ No(d)' = No(d) /\ joined'[d] = joined[d]
    OBVIOUS
  <2> QED
    BY <2>1, <2>2, <2>3 DEF OrderInv
<1> QED
  BY <1>1, <1>2, <1>3, <1>4 DEF SocketInv, QuietInv

\* What a step of sc_ipc_socket leaves alone: the sockets of all other clients.
LEMMA OthersStay ==
  ASSUME TypeInv, NEW c \in Clients, SocketStep(c), pc[c] \notin Using
  PROVE  /\ joined' = joined /\ joined[c] \in Servers /\ type[c] = "none"
         /\ \A d \in Clients \ {c} :
              /\ pc'[d] = pc[d] /\ type'[d] = type[d] /\ sockNo'[d] = sockNo[d]
              /\ (Linked(d)' <=> Linked(d)) /\ (Made(d)' <=> Made(d))
              /\ (Numbered(d)' <=> Numbered(d)) /\ (Creating(d)' <=> Creating(d))
<1>0. TypeOK /\ PlaceInv /\ c \in Procs /\ \A d \in Clients : d \in Procs
  BY DEF TypeInv, Procs
<1>1. joined' = joined /\ joined[c] \in Servers
  BY SocketFrame DEF lookup
<1>2. type[c] = "none"
  <2>1. \E label \in ClientStates : Goes(pc[c], label)
    BY SocketFrame
  <2> QED
    BY <1>0, <2>1 DEF PlaceInv, Goes, Using
<1>3. \A d \in Clients \ {c} : pc'[d] = pc[d]
  BY <1>0, SocketFrame
<1>4. \A d \in Clients \ {c} : type'[d] = type[d] /\ sockNo'[d] = sockNo[d]
  BY <1>0 DEF SocketStep, SocketNew, SocketLink, SocketNumber, SocketCount, SocketType, Bind,
     Listen, Accept, ListenAs, Calls, Using, TypeOK
<1> QED
  BY <1>1, <1>2, <1>3, <1>4 DEF Linked, Made, Numbered, Creating

LEMMA SocketNewStep ==
  ASSUME TypeInv, SocketInv, NEW c \in Clients, SocketNew(c)
  PROVE  SocketInv'
<1> DEFINE s == joined[c]
<1>0. TypeOK /\ c \in Procs
  BY DEF TypeInv, Procs
<1>1. /\ pc[c] = "socket" /\ nextSock' = [nextSock EXCEPT ![c] = activeSocket_list[s]]
      /\ UNCHANGED <<sockNo, type, addr, nextSockNo, activeSocket_list>>
      /\ pc' = [pc EXCEPT ![c] = "link"]
      /\ socketRace \subseteq socketRace'
      /\ s \notin socketRace' => \A d \in Clients \ {c} : joined[d] = s => ~ Creating(d)
  BY DEF SocketNew, Calls, Goto
<1>2. SocketStep(c) /\ pc[c] \notin Using
  BY <1>1 DEF SocketStep, Using
<1>3. /\ joined' = joined /\ s \in Servers /\ type[c] = "none"
      /\ \A d \in Clients \ {c} :
           /\ pc'[d] = pc[d] /\ type'[d] = type[d] /\ sockNo'[d] = sockNo[d]
           /\ (Linked(d)' <=> Linked(d)) /\ (Made(d)' <=> Made(d))
           /\ (Numbered(d)' <=> Numbered(d)) /\ (Creating(d)' <=> Creating(d))
  BY <1>2, OthersStay
<1>4. /\ pc'[c] = "link" /\ nextSock'[c] = activeSocket_list[s]
      /\ \A d \in Clients \ {c} : nextSock'[d] = nextSock[d]
  BY <1>0, <1>1 DEF TypeOK
<1>5. /\ ~ Linked(c) /\ ~ Made(c) /\ ~ Numbered(c) /\ ~ Creating(c)
      /\ ~ Linked(c)' /\ Made(c)' /\ ~ Numbered(c)' /\ Creating(c)'
  BY <1>1, <1>3, <1>4 DEF Linked, Made, Numbered, Creating
<1>6. \A d \in Clients \ {c} : No(d)' = No(d)
  BY <1>1, <1>3 DEF No
<1>7. No(c)' = nextSockNo[s]
  BY <1>1, <1>3, <1>5 DEF No
<1>8. SockListInv'
  <2>1. SockListInv
    BY DEF SocketInv
  <2>2. \A t \in Servers, d \in Clients : activeSocket_list'[t] = d => joined'[d] = t /\ Linked(d)'
    BY <1>1, <1>3, <1>5, <2>1 DEF SockListInv
  <2>3. ASSUME NEW a \in Clients, NEW d \in Clients, Made(a)', nextSock'[a] = d
        PROVE  joined'[d] = joined'[a] /\ Linked(d)'
    <3>1. CASE a = c
      BY <1>3, <1>4, <1>5, <2>1, <2>3, <3>1 DEF SockListInv
    <3>2. CASE a # c
      BY <1>3, <1>4, <1>5, <2>1, <2>3, <3>2 DEF SockListInv
    <3> QED
      BY <3>1, <3>2
  <2>4. \A d \in Clients : ~ Numbered(d)' => sockNo'[d] = 0
    BY <1>1, <1>3, <1>5, <2>1 DEF SockListInv
  <2> QED
    BY <2>2, <2>3, <2>4 DEF SockListInv
<1>9. ASSUME NEW t \in Servers \ socketRace' PROVE HeadInv(t) /\ HeadInv(t)'
  <2>1. HeadInv(t)
    BY <1>1 DEF SocketInv, QuietInv
  <2>2. \A d \in Clients : activeSocket_list[t] = d => d # c
    BY <1>5 DEF SocketInv, SockListInv
  <2> QED
    BY <1>1, <1>6, <2>1, <2>2 DEF HeadInv
\* The others of a server without a race.
<1>10. ASSUME NEW d \in Clients \ {c}, joined[d] \in Servers \ socketRace', Made(d)
       PROVE  /\ OrderInv(d) /\ No(d) \in Nat
              /\ joined[d] = s => No(d) < nextSockNo[s]
  <2>1. OrderInv(d) /\ No(d) \in Nat
    BY <1>1, <1>10, SocketFacts DEF SocketInv, QuietInv
  <2>2. joined[d] = s => pc[d] \notin {"link", "number", "count"}
    BY <1>1, <1>10 DEF Creating
  <2> QED
    BY <2>1, <2>2 DEF OrderInv
<1>11. ASSUME NEW d \in Clients, joined'[d] \in Servers \ socketRace', Creating(d)'
       PROVE  CallInv(d)'
  <2>1. CASE d = c
    BY <1>1, <1>3, <1>4, <1>11, <2>1 DEF CallInv
  <2>2. CASE d # c
    <3>1. CallInv(d) /\ Creating(d)
      BY <1>1, <1>3, <1>11, <2>2 DEF SocketInv, QuietInv
    <3>2. joined[d] # s
      BY <1>1, <1>3, <1>11, <2>2, <3>1
    <3> QED
      BY <1>1, <1>3, <2>2, <3>1, <3>2 DEF CallInv
  <2> QED
    BY <2>1, <2>2
<1>12. ASSUME NEW d \in Clients, joined'[d] \in Servers \ socketRace', Made(d)'
       PROVE  OrderInv(d)'
  <2>1. CASE d = c
    <3>1. HeadInv(s) /\ nextSockNo[s] \in Nat /\ nextSockNo[s] >= 1
      BY <1>3, <1>9, <1>12, <2>1, SocketFacts
    <3>2. nextSock'[c] = Nil => No(c)' = 1
      BY <1>4, <1>7, <3>1 DEF HeadInv
    <3>3. ASSUME NEW e \in Clients, nextSock'[c] = e PROVE No(e)' = No(c)' - 1
      <4>0. activeSocket_list[s] = e /\ s \in Servers
        BY <1>3, <1>4, <3>3
      <4>1. joined[e] = s /\ Linked(e) /\ e # c
        BY <1>5, <4>0 DEF SocketInv, SockListInv
      <4>2. No(e) >= nextSockNo[s] - 1
        BY <1>4, <3>1, <3>3 DEF HeadInv
      <4>3. No(e) \in Nat /\ No(e) < nextSockNo[s]
        BY <1>3, <1>10, <1>12, <2>1, <4>1, SocketFacts
      <4> QED
        BY <1>6, <1>7, <3>1, <4>1, <4>2, <4>3
    <3>4. ASSUME NEW e \in Clients, joined'[e] = joined'[c], Made(e)', No(e)' = No(c)' PROVE e = c
      <4> SUFFICES ASSUME e # c PROVE FALSE
        OBVIOUS
      <4>1. No(e) < nextSockNo[s] /\ No(e) \in Nat
        BY <1>3, <1>10, <1>12, <2>1, <3>4
      <4> QED
        BY <1>6, <1>7, <3>1, <3>4, <4>1
    <3> QED
      BY <1>1, <1>3, <1>4, <1>7, <2>1, <3>1, <3>2, <3>3, <3>4 DEF OrderInv
  <2>2. CASE d # c
    <3>1. OrderInv(d) /\ No(d) \in Nat /\ (joined[d] = s => No(d) < nextSockNo[s]) /\ Made(d)
      BY <1>3, <1>10, <1>12, <2>2
    <3>2. No(d)' = No(d) /\ nextSock'[d] = nextSock[d] /\ pc'[d] = pc[d]
      BY <1>3, <1>4, <1>6, <2>2
    <3>3. ASSUME NEW e \in Clients, nextSock'[d] = e PROVE No(e)' = No(d)' - 1
      <4>1. e # c
        BY <1>5, <3>1, <3>2, <3>3 DEF SocketInv, SockListInv
      <4> QED
        BY <1>6, <3>1, <3>2, <3>3, <4>1 DEF OrderInv
    <3>4. ASSUME NEW e \in Clients, joined'[e] = joined'[d], Made(e)', No(e)' = No(d)' PROVE e = d
      <4>1. CASE e = c
        BY <1>3, <1>7, <3>1, <3>2, <3>4, <4>1, SocketFacts
      <4>2. CASE e # c
        BY <1>3, <1>6, <3>1, <3>2, <3>4, <4>2 DEF OrderInv
      <4> QED
        BY <4>1, <4>2
    <3> QED
      BY <1>1, <1>3, <3>1, <3>2, <3>3, <3>4 DEF OrderInv
  <2> QED
    BY <2>1, <2>2
<1>13. ASSUME NEW d \in Clients, joined'[d] \in Servers \ socketRace', pc'[d] \in {"listen", "accept"}
       PROVE  addr'[d] = d
  BY <1>1, <1>3, <1>4, <1>13 DEF SocketInv, QuietInv
<1> QED
  BY <1>8, <1>9, <1>11, <1>12, <1>13 DEF SocketInv, QuietInv

LEMMA SocketLinkStep ==
  ASSUME TypeInv, SocketInv, NEW c \in Clients, SocketLink(c)
  PROVE  SocketInv'
<1> DEFINE s == joined[c]
<1>0. TypeOK /\ c \in Procs
  BY DEF TypeInv, Procs
<1>1. /\ pc[c] = "link" /\ activeSocket_list' = [activeSocket_list EXCEPT ![s] = c]
      /\ UNCHANGED <<sockNo, type, nextSock, addr, nextSockNo, socketRace>>
      /\ pc' = [pc EXCEPT ![c] = "number"]
  BY DEF SocketLink, Goto
<1>2. SocketStep(c) /\ pc[c] \notin Using
  BY <1>1 DEF SocketStep, Using
<1>3. /\ joined' = joined /\ s \in Servers /\ type[c] = "none"
      /\ \A d \in Clients \ {c} :
           /\ pc'[d] = pc[d] /\ type'[d] = type[d] /\ sockNo'[d] = sockNo[d]
           /\ (Linked(d)' <=> Linked(d)) /\ (Made(d)' <=> Made(d))
           /\ (Numbered(d)' <=> Numbered(d)) /\ (Creating(d)' <=> Creating(d))
  BY <1>2, OthersStay
<1>4. /\ pc'[c] = "number" /\ activeSocket_list'[s] = c
      /\ \A t \in Servers \ {s} : activeSocket_list'[t] = activeSocket_list[t]
  BY <1>0, <1>1, <1>3 DEF TypeOK
<1>5. /\ ~ Linked(c) /\ Made(c) /\ ~ Numbered(c) /\ Creating(c)
      /\ Linked(c)' /\ Made(c)' /\ ~ Numbered(c)' /\ Creating(c)'
  BY <1>1, <1>3, <1>4 DEF Linked, Made, Numbered, Creating
<1>6. \A d \in Clients : No(d)' = No(d) /\ (Made(d)' <=> Made(d)) /\ (Creating(d)' <=> Creating(d))
  BY <1>1, <1>3, <1>5 DEF No
<1>7. SockListInv'
  <2>1. SockListInv
    BY DEF SocketInv
  <2>2. ASSUME NEW t \in Servers, NEW d \in Clients, activeSocket_list'[t] = d
        PROVE  joined'[d] = t /\ Linked(d)'
    <3>1. CASE t = s
      BY <1>3, <1>4, <1>5, <2>2, <3>1
    <3>2. CASE t # s
      BY <1>3, <1>4, <1>5, <2>1, <2>2, <3>2 DEF SockListInv
    <3> QED
      BY <3>1, <3>2
  <2>3. \A a, d \in Clients : Made(a)' /\ nextSock'[a] = d => joined'[d] = joined'[a] /\ Linked(d)'
    BY <1>1, <1>3, <1>5, <1>6, <2>1 DEF SockListInv
  <2>4. \A d \in Clients : ~ Numbered(d)' => sockNo'[d] = 0
    BY <1>1, <1>3, <1>5, <2>1 DEF SockListInv
  <2> QED
    BY <2>2, <2>3, <2>4 DEF SockListInv
<1>8. s \notin socketRace => CallInv(c) /\ OrderInv(c)
  BY <1>3, <1>5 DEF SocketInv, QuietInv
<1>9. ASSUME NEW t \in Servers \ socketRace PROVE HeadInv(t)'
  <2>1. CASE t = s
    <3>1. No(c) = nextSockNo[s] /\ nextSockNo[s] \in Nat
      BY <1>1, <1>3, <1>8, <2>1, SocketFacts DEF OrderInv
    <3>2. activeSocket_list'[s] = c /\ c # Nil
      BY <1>4, SocketFacts
    <3> QED
      BY <1>1, <1>6, <2>1, <3>1, <3>2 DEF HeadInv
  <2>2. CASE t # s
    BY <1>1, <1>4, <1>6, <2>2 DEF HeadInv, SocketInv, QuietInv
  <2> QED
    BY <2>1, <2>2
<1>10. ASSUME NEW d \in Clients, joined'[d] \in Servers \ socketRace, Creating(d)'
       PROVE  CallInv(d)'
  <2>1. CASE d = c
    BY <1>3, <1>4, <1>6, <1>8, <1>10, <2>1 DEF CallInv
  <2>2. CASE d # c
    <3>1. CallInv(d) /\ Creating(d)
      BY <1>3, <1>6, <1>10 DEF SocketInv, QuietInv
    <3>2. joined[d] # s
      BY <1>3, <1>5, <1>8, <1>10, <2>2, <3>1 DEF CallInv
    <3>3. activeSocket_list'[joined[d]] = activeSocket_list[joined[d]] /\ pc'[d] = pc[d]
      BY <1>3, <1>4, <1>10, <2>2, <3>2
    <3> QED
      BY <1>3, <1>6, <3>1, <3>3 DEF CallInv
  <2> QED
    BY <2>1, <2>2
<1>11. ASSUME NEW d \in Clients, joined'[d] \in Servers \ socketRace, Made(d)'
       PROVE  OrderInv(d)'
  <2>1. OrderInv(d)
    BY <1>3, <1>6, <1>11 DEF SocketInv, QuietInv
  <2>2. pc'[d] \in {"link", "number", "count"} <=> pc[d] \in {"link", "number", "count"}
    BY <1>1, <1>3, <1>4
  <2> QED
    BY <1>1, <1>3, <1>6, <2>1, <2>2 DEF OrderInv
<1>12. ASSUME NEW d \in Clients, joined'[d] \in Servers \ socketRace, pc'[d] \in {"listen", "accept"}
       PROVE  addr'[d] = d
  BY <1>1, <1>3, <1>4, <1>12 DEF SocketInv, QuietInv
<1> QED
  BY <1>1, <1>7, <1>9, <1>10, <1>11, <1>12 DEF SocketInv, QuietInv

LEMMA SocketNumberStep ==
  ASSUME TypeInv, SocketInv, NEW c \in Clients, SocketNumber(c)
  PROVE  SocketInv'
<1> DEFINE s == joined[c]
<1>0. TypeOK /\ c \in Procs
  BY DEF TypeInv, Procs
<1>1. /\ pc[c] = "number" /\ sockNo' = [sockNo EXCEPT ![c] = nextSockNo[s]]
      /\ UNCHANGED <<type, nextSock, addr, nextSockNo, activeSocket_list, socketRace>>
      /\ pc' = [pc EXCEPT ![c] = "count"]
  BY DEF SocketNumber, Goto
<1>2. SocketStep(c) /\ pc[c] \notin Using
  BY <1>1 DEF SocketStep, Using
<1>3. /\ joined' = joined /\ s \in Servers /\ type[c] = "none"
      /\ \A d \in Clients \ {c} :
           /\ pc'[d] = pc[d] /\ type'[d] = type[d] /\ sockNo'[d] = sockNo[d]
           /\ (Linked(d)' <=> Linked(d)) /\ (Made(d)' <=> Made(d))
           /\ (Numbered(d)' <=> Numbered(d)) /\ (Creating(d)' <=> Creating(d))
  BY <1>2, OthersStay
<1>4. pc'[c] = "count" /\ sockNo'[c] = nextSockNo[s]
  BY <1>0, <1>1 DEF TypeOK
<1>5. /\ Linked(c) /\ Made(c) /\ ~ Numbered(c) /\ Creating(c)
      /\ Linked(c)' /\ Made(c)' /\ Numbered(c)' /\ Creating(c)'
  BY <1>1, <1>3, <1>4 DEF Linked, Made, Numbered, Creating
<1>6. \A d \in Clients : No(d)' = No(d)
  <2>1. No(c)' = No(c)
    BY <1>4, <1>5 DEF No
  <2>2. \A d \in Clients \ {c} : No(d)' = No(d)
    BY <1>1, <1>3 DEF No
  <2> QED
    BY <2>1, <2>2
<1>7. \A d \in Clients : ~ Numbered(d)' => sockNo'[d] = 0
  BY <1>3, <1>5 DEF SocketInv, SockListInv
<1>8. \A d \in Clients : pc'[d] \in {"listen", "accept"} /\ joined'[d] \in Servers \ socketRace
                           => addr'[d] = d
  BY <1>1, <1>3, <1>4 DEF SocketInv, QuietInv
<1> QED
  BY <1>1, <1>3, <1>4, <1>5, <1>6, <1>7, <1>8, SocketsKept

LEMMA SocketCountStep ==
  ASSUME TypeInv, SocketInv, NEW c \in Clients, SocketCount(c)
  PROVE  SocketInv'
<1> DEFINE s == joined[c]
<1>0. TypeOK /\ c \in Procs
  BY DEF TypeInv, Procs
<1>1. /\ pc[c] = "count"
      /\ \E v \in {sockNo[c], nextSockNo[s]} : nextSockNo' = [nextSockNo EXCEPT ![s] = v + 1]
      /\ UNCHANGED <<sockNo, type, nextSock, addr, activeSocket_list, socketRace>>
      /\ pc' = [pc EXCEPT ![c] = "type"]
  BY DEF SocketCount, Goto
<1>2. SocketStep(c) /\ pc[c] \notin Using
  BY <1>1 DEF SocketStep, Using
<1>3. /\ joined' = joined /\ s \in Servers /\ type[c] = "none"
      /\ \A d \in Clients \ {c} :
           /\ pc'[d] = pc[d] /\ type'[d] = type[d] /\ sockNo'[d] = sockNo[d]
           /\ (Linked(d)' <=> Linked(d)) /\ (Made(d)' <=> Made(d))
           /\ (Numbered(d)' <=> Numbered(d)) /\ (Creating(d)' <=> Creating(d))
  BY <1>2, OthersStay
<1>4. pc'[c] = "type" /\ \A t \in Servers \ {s} : nextSockNo'[t] = nextSockNo[t]
  BY <1>0, <1>1 DEF TypeOK
<1>5. /\ Linked(c) /\ Made(c) /\ Numbered(c) /\ Creating(c)
      /\ Linked(c)' /\ Made(c)' /\ Numbered(c)' /\ Creating(c)'
  BY <1>1, <1>3, <1>4 DEF Linked, Made, Numbered, Creating
<1>6. \A d \in Clients : /\ (Linked(d)' <=> Linked(d)) /\ (Made(d)' <=> Made(d))
                         /\ (Numbered(d)' <=> Numbered(d)) /\ (Creating(d)' <=> Creating(d))
  BY <1>3, <1>5
<1>7. SockListInv'
  BY <1>1, <1>3, <1>6 DEF SocketInv, SockListInv
\* Without a race the count is of the number that has been given.
<1>8. ASSUME s \notin socketRace
      PROVE  /\ nextSockNo'[s] = nextSockNo[s] + 1 /\ nextSockNo[s] \in Nat
             /\ sockNo[c] = nextSockNo[s] /\ CallInv(c) /\ OrderInv(c)
  <2>1. CallInv(c) /\ OrderInv(c)
    BY <1>3, <1>5, <1>8 DEF SocketInv, QuietInv
  <2>2. sockNo[c] = nextSockNo[s] /\ nextSockNo[s] \in Nat
    BY <1>1, <1>3, <1>5, <2>1, SocketFacts DEF OrderInv, No
  <2> QED
    BY <1>0, <1>1, <1>3, <2>1, <2>2 DEF TypeOK
<1>9. \A d \in Clients : joined[d] \in Servers /\ (Numbered(d) \/ joined[d] # s) => No(d)' = No(d)
  BY <1>1, <1>3, <1>4, <1>6 DEF No
<1>10. \A d \in Clients : joined[d] \in Servers \ socketRace /\ Made(d) => No(d)' = No(d)
  <2> SUFFICES ASSUME NEW d \in Clients, joined[d] \in Servers \ socketRace, Made(d)
               PROVE  Numbered(d) \/ joined[d] # s
    BY <1>9
  <2>1. joined[d] = s /\ d # c => ~ Creating(d)
    BY <1>8 DEF CallInv
  <2>2. ~ Creating(d) => Numbered(d)
    BY DEF Made, Linked, Numbered, Creating
  <2> QED
    BY <1>5, <2>1, <2>2
<1>11. ASSUME NEW t \in Servers \ socketRace PROVE HeadInv(t)'
  <2>1. HeadInv(t) /\ \A d \in Clients : activeSocket_list[t] = d => joined[d] = t /\ Made(d)
    BY SocketFacts DEF SocketInv, QuietInv, SockListInv
  <2>2. CASE t = s
    <3>1. activeSocket_list[s] = c /\ c # Nil /\ No(c)' = No(c) /\ No(c) = sockNo[c]
      BY <1>1, <1>3, <1>5, <1>8, <1>9, <2>2, SocketFacts DEF CallInv, No
    <3>2. No(c)' = nextSockNo[s] /\ nextSockNo'[s] = nextSockNo[s] + 1 /\ nextSockNo[s] \in Nat
      BY <1>8, <2>2, <3>1
    <3> QED
      BY <1>1, <2>2, <3>1, <3>2 DEF HeadInv
  <2>3. CASE t # s
    BY <1>1, <1>4, <1>10, <2>1, <2>3 DEF HeadInv
  <2> QED
    BY <2>2, <2>3
<1>12. ASSUME NEW d \in Clients, joined'[d] \in Servers \ socketRace, Creating(d)'
       PROVE  CallInv(d)'
  <2>1. CallInv(d) /\ Creating(d)
    BY <1>3, <1>6, <1>12 DEF SocketInv, QuietInv
  <2>2. pc'[d] \in {"number", "count", "type"} => pc[d] \in {"number", "count", "type"}
    BY <1>1, <1>3, <1>4
  <2> QED
    BY <1>1, <1>3, <1>6, <2>1, <2>2 DEF CallInv
<1>13. ASSUME NEW d \in Clients, joined'[d] \in Servers \ socketRace, Made(d)'
       PROVE  OrderInv(d)'
  <2>1. OrderInv(d) /\ Made(d) /\ No(d)' = No(d) /\ No(d) \in Nat /\ joined[d] \in Servers \ socketRace
    BY <1>3, <1>6, <1>10, <1>13, SocketFacts DEF SocketInv, QuietInv
  <2>2. \A e \in Clients : nextSock[d] = e => No(e)' = No(e)
    BY <1>10, <2>1, SocketFacts DEF SocketInv, SockListInv
  <2>3. \A e \in Clients : joined[e] = joined[d] /\ Made(e) => No(e)' = No(e)
    BY <1>10, <2>1
  <2>4. CASE joined[d] # s
    <3>1. d # c /\ pc'[d] = pc[d] /\ nextSockNo'[joined[d]] = nextSockNo[joined[d]]
      BY <1>3, <1>4, <2>1, <2>4
    <3> QED
      BY <1>1, <1>3, <1>6, <2>1, <2>2, <2>3, <3>1 DEF OrderInv
  <2>5. CASE joined[d] = s
    <3>1. nextSockNo'[s] = nextSockNo[s] + 1 /\ nextSockNo[s] \in Nat /\ CallInv(c)
      BY <1>8, <2>1, <2>5
    <3>2. pc'[d] \notin {"link", "number", "count"}
      BY <1>3, <1>4, <1>5, <2>5, <3>1 DEF CallInv, Creating
    <3>3. No(d) <= nextSockNo[s]
      BY <2>1, <2>5, <3>1 DEF OrderInv
    <3>4. No(d)' < nextSockNo'[s]
      BY <2>1, <3>1, <3>3
    <3> QED
      BY <1>1, <1>3, <1>6, <2>1, <2>2, <2>3, <2>5, <3>2, <3>4 DEF OrderInv
  <2> QED
    BY <2>4, <2>5
<1>14. ASSUME NEW d \in Clients, joined'[d] \in Servers \ socketRace, pc'[d] \in {"listen", "accept"}
       PROVE  addr'[d] = d
  BY <1>1, <1>3, <1>4, <1>14 DEF SocketInv, QuietInv
<1> QED
  BY <1>1, <1>7, <1>11, <1>12, <1>13, <1>14 DEF SocketInv, QuietInv

LEMMA SocketTypeStep ==
  ASSUME TypeInv, SocketInv, NEW c \in Clients, SocketType(c)
  PROVE  SocketInv'
<1>0. TypeOK /\ c \in Procs
  BY DEF TypeInv, Procs
<1>1. /\ pc[c] = "type" /\ type' = [type EXCEPT ![c] = "NEW"]
      /\ UNCHANGED <<sockNo, nextSock, addr, nextSockNo, activeSocket_list, socketRace>>
      /\ pc' = [pc EXCEPT ![c] = "bind"]
  BY DEF SocketType, Goto
<1>2. SocketStep(c) /\ pc[c] \notin Using
  BY <1>1 DEF SocketStep, Using
<1>3. /\ joined' = joined /\ joined[c] \in Servers /\ type[c] = "none"
      /\ \A d \in Clients \ {c} :
           /\ pc'[d] = pc[d] /\ type'[d] = type[d] /\ sockNo'[d] = sockNo[d]
           /\ (Linked(d)' <=> Linked(d)) /\ (Made(d)' <=> Made(d))
           /\ (Numbered(d)' <=> Numbered(d)) /\ (Creating(d)' <=> Creating(d))
  BY <1>2, OthersStay
<1>4. pc'[c] = "bind" /\ type'[c] = "NEW"
  BY <1>0, <1>1 DEF TypeOK
<1>5. /\ Linked(c) /\ Made(c) /\ Numbered(c)
      /\ Linked(c)' /\ Made(c)' /\ Numbered(c)' /\ ~ Creating(c)'
  BY <1>1, <1>3, <1>4 DEF Linked, Made, Numbered, Creating
<1>6. \A d \in Clients : No(d)' = No(d)
  BY <1>1, <1>3, <1>5 DEF No
<1>7. \A d \in Clients : ~ Numbered(d)' => sockNo'[d] = 0
  BY <1>3, <1>5 DEF SocketInv, SockListInv
<1>8. \A d \in Clients : pc'[d] \in {"listen", "accept"} /\ joined'[d] \in Servers \ socketRace
                           => addr'[d] = d
  BY <1>1, <1>3, <1>4 DEF SocketInv, QuietInv
<1> QED
  BY <1>1, <1>3, <1>4, <1>5, <1>6, <1>7, <1>8, SocketsKept

\* sc_ipc_bind and sc_ipc_listen change the socket that they find: the client's own,
\* or, after a race, one of the same server.
LEMMA SocketUseStep ==
  ASSUME TypeInv, SocketInv, NEW c \in Clients, Bind(c) \/ Listen(c) \/ Accept(c)
  PROVE  SocketInv'
<1>0. TypeOK /\ PlaceInv /\ c \in Procs /\ \A d \in Clients : d \in Procs
  BY DEF TypeInv, Procs
<1>1. /\ pc[c] \in Using
      /\ UNCHANGED <<sockNo, nextSock, nextSockNo, activeSocket_list, socketRace>>
  BY DEF Bind, Listen, Accept, ListenAs, Calls, Using
<1>2. SocketStep(c)
  BY DEF SocketStep
<1>3. /\ joined' = joined /\ joined[c] \in Servers
      /\ \A d \in Clients \ {c} : pc'[d] = pc[d]
      /\ pc'[c] \in {"listen", "accept", "failed", "aborted"}
  <2>1. PICK label \in ClientStates :
              /\ Goes(pc[c], label)
              /\ \A q \in Procs : pc'[q] = IF q = c THEN label ELSE pc[q]
    BY <1>2, SocketFrame
  <2>2. label \in {"listen", "accept", "failed", "aborted"}
    BY <1>1, <2>1 DEF Goes, Using
  <2> QED
    BY <1>0, <1>2, <2>1, <2>2, SocketFrame DEF lookup
<1>4. \A d \in Clients : type'[d] = "none" <=> type[d] = "none"
  BY <1>1, <1>2, SocketFrame DEF Using
<1>5. \A d \in Clients :
        /\ (Linked(d)' <=> Linked(d)) /\ (Made(d)' <=> Made(d)) /\ (Numbered(d)' <=> Numbered(d))
        /\ (Creating(d)' <=> Creating(d))
        /\ pc'[d] \in {"link", "number", "count"} <=> pc[d] \in {"link", "number", "count"}
        /\ pc'[d] \in {"number", "count", "type"} <=> pc[d] \in {"number", "count", "type"}
  BY <1>1, <1>3, <1>4 DEF Linked, Made, Numbered, Creating, Using
<1>6. \A d \in Clients : No(d)' = No(d)
  BY <1>1, <1>3, <1>5 DEF No
<1>7. ASSUME NEW d \in Clients, pc'[d] \in {"listen", "accept"}, joined'[d] \in Servers \ socketRace
      PROVE  addr'[d] = d
  <2>0. addr \in [Clients -> Clients \cup {Nil}] /\ joined[d] \in Servers \ socketRace
    BY <1>0, <1>3, <1>7 DEF TypeOK
  <2>1. CASE Bind(c) /\ SocketIs(c, "NEW")
    <3>1. addr' = [addr EXCEPT ![Socket(c)] = c] /\ pc[c] = "bind" /\ Socket(c) # Nil
      BY <2>1 DEF Bind, Calls, SocketIs
    <3>2. CASE d = c
      <4>1. Socket(c) = c
        BY <1>1, <2>0, <3>2, OwnSocket
      <4> QED
        BY <2>0, <3>1, <3>2, <4>1
    <3>3. CASE d # c
      <4>1. addr[d] = d
        BY <1>3, <1>7, <2>0, <3>3 DEF SocketInv, QuietInv
      <4>2. Socket(c) # d
        <5>1. joined[c] = joined[d] => Socket(c) = c
          BY <1>1, <2>0, OwnSocket
        <5>2. joined[Socket(c)] = joined[c]
          BY <1>3, <3>1, SocketTyped, ChainOfServer DEF SocketInv
        <5> QED
          BY <3>3, <5>1, <5>2
      <4> QED
        BY <2>0, <3>1, <4>1, <4>2
    <3> QED
      BY <3>2, <3>3
  <2>2. CASE Bind(c) /\ ~ SocketIs(c, "NEW")
    <3>1. addr' = addr /\ pc'[c] = "failed"
      BY <1>0, <2>2 DEF Bind, Goto, TypeOK
    <3>2. d # c
      BY <1>7, <3>1
    <3> QED
      BY <1>3, <1>7, <2>0, <3>1, <3>2 DEF SocketInv, QuietInv
  <2>3. CASE Listen(c) \/ Accept(c)
    <3>1. addr' = addr /\ pc[c] \in {"listen", "accept"}
      BY <2>3 DEF Listen, Accept, ListenAs, Calls
    <3> QED
      BY <1>3, <1>7, <2>0, <3>1 DEF SocketInv, QuietInv
  <2> QED
    BY <2>1, <2>2, <2>3
<1>8. \A d \in Clients : ~ Numbered(d)' => sockNo'[d] = 0
  BY <1>1, <1>5 DEF SocketInv, SockListInv
<1> QED
  BY <1>1, <1>3, <1>5, <1>6, <1>7, <1>8, SocketsKept

\* All other steps leave the sockets alone.
LEMMA SocketsUnused ==
  ASSUME TypeInv, SocketInv, UNCHANGED sockets,
         \A d \in Clients :
           \/ pc'[d] = pc[d] /\ joined'[d] = joined[d]
           \/ /\ ~ Creating(d) /\ pc'[d] \notin {"link", "number", "count", "type", "listen", "accept"}
              /\ type[d] # "none" => joined'[d] = joined[d]
  PROVE  SocketInv'
<1>1. UNCHANGED <<sockNo, type, nextSock, addr, nextSockNo, activeSocket_list, socketRace>>
  BY DEF sockets
<1>2. \A d \in Clients :
        /\ (Linked(d)' <=> Linked(d)) /\ (Made(d)' <=> Made(d)) /\ (Numbered(d)' <=> Numbered(d))
        /\ (Creating(d)' => Creating(d))
        /\ pc'[d] \in {"link", "number", "count"} <=> pc[d] \in {"link", "number", "count"}
        /\ pc'[d] \in {"number", "count", "type"} => pc[d] \in {"number", "count", "type"}
        /\ Made(d) => joined'[d] = joined[d]
        /\ pc'[d] \in {"listen", "accept"} => pc'[d] = pc[d] /\ joined'[d] = joined[d]
  BY <1>1 DEF Linked, Made, Numbered, Creating
<1>3. \A d \in Clients : Made(d) => No(d)' = No(d)
  BY <1>1, <1>2 DEF No
<1>4. \A d \in Clients : ~ Numbered(d)' => sockNo'[d] = 0
  BY <1>1, <1>2 DEF SocketInv, SockListInv
<1>5. \A d \in Clients : pc'[d] \in {"listen", "accept"} /\ joined'[d] \in Servers \ socketRace
                           => addr'[d] = d
  BY <1>1, <1>2 DEF SocketInv, QuietInv
<1> QED
  BY <1>1, <1>2, <1>3, <1>4, <1>5, SocketsKept

LEMMA SocketNext == TypeInv /\ SocketInv /\ [Next]_vars => SocketInv'
<1> SUFFICES ASSUME TypeInv, SocketInv, [Next]_vars PROVE SocketInv'
  OBVIOUS
<1>0. TypeOK /\ PlaceInv /\ \A d \in Clients : d \in Procs /\ d \notin Posters
  BY ServicesAssumption DEF TypeInv, Procs, Posters
<1>1. ASSUME NEW p \in Posters, RegistrySide(p) PROVE SocketInv'
  <2>1. UNCHANGED <<lookup, sockets>>
    BY <1>1 DEF RegistrySide, Post, PostFind, PostMalloc, PostNoRoom, PostPush, SetName, SetRoot, Die
  <2>2. \E label : pc' = [pc EXCEPT ![p] = label]
    BY <1>1 DEF RegistrySide, Post, PostFind, PostMalloc, PostNoRoom, PostPush, SetName, SetRoot,
       Die, Goto
  <2>3. \A d \in Clients : pc'[d] = pc[d]
    BY <1>0, <2>2 DEF TypeOK
  <2> QED
    BY <2>1, <2>3, SocketsUnused DEF lookup
<1>2. ASSUME NEW p \in Servers \cup Clients, Boot(p) PROVE SocketInv'
  <2>1. UNCHANGED <<lookup, sockets>> /\ pc[p] \in {"boot", "bootroot"}
    BY <1>2 DEF Boot, BootFails, BootName, BootRoot
  <2>2. PICK label \in {"bootroot", "failed", "aborted", "post", "join"} : pc' = [pc EXCEPT ![p] = label]
    BY <1>2 DEF Boot, BootFails, BootName, BootRoot, Goto
  <2>3. \A d \in Clients : pc'[d] = IF d = p THEN label ELSE pc[d]
    BY <1>0, <2>2 DEF TypeOK
  <2> QED
    BY <2>1, <2>3, SocketsUnused DEF lookup, Creating
<1>3. ASSUME NEW c \in Clients,
             JoinIpc(c) \/ FindNext(c) \/ CallsWild(c) \/ SocketFails(c) \/ PathTooLong(c)
      PROVE  SocketInv'
  <2>1. UNCHANGED sockets /\ pc[c] \in {"join", "find"} \cup Called
    BY <1>3 DEF JoinIpc, FindNext, CallsWild, SocketFails, PathTooLong, Calls, Called
  <2>2. \A d \in Clients \ {c} : pc'[d] = pc[d] /\ joined'[d] = joined[d]
    BY <1>0, <1>3 DEF JoinIpc, FindNext, CallsWild, SocketFails, PathTooLong, Goto, TypeOK, lookup
  <2>3. pc'[c] \in {"find", "failed", "socket", "aborted"}
    BY <1>0, <1>3 DEF JoinIpc, FindNext, CallsWild, SocketFails, PathTooLong, Goto, TypeOK
  <2>4. type[c] # "none" => joined'[c] = joined[c]
    BY <1>0, <1>3 DEF JoinIpc, FindNext, CallsWild, SocketFails, PathTooLong, lookup, PlaceInv, Using
  <2> QED
    BY <2>1, <2>2, <2>3, <2>4, SocketsUnused DEF Creating, Called
<1>4. CASE Next
  BY <1>1, <1>2, <1>3, <1>4, Steps, SocketNewStep, SocketLinkStep, SocketNumberStep,
     SocketCountStep, SocketTypeStep, SocketUseStep DEF SocketStep
<1>5. CASE UNCHANGED vars
  BY <1>5, SocketsUnused DEF vars, lookup
<1> QED
  BY <1>4, <1>5

LEMMA SocketInit == Init => SocketInv
<1> SUFFICES ASSUME Init PROVE SocketInv
  OBVIOUS
<1>1. /\ \A c \in Clients : /\ pc[c] = "boot" /\ type[c] = "none" /\ sockNo[c] = 0
                            /\ joined[c] = Nil
      /\ \A s \in Servers : activeSocket_list[s] = Nil /\ nextSockNo[s] = 1
      /\ Nil \notin Servers /\ Nil \notin Clients
  BY ServicesAssumption DEF Init, Procs
<1>2. \A c \in Clients : ~ Linked(c) /\ ~ Made(c)
  BY <1>1 DEF Linked, Made
<1> QED
  BY <1>1, <1>2 DEF SocketInv, SockListInv, QuietInv, HeadInv

LEMMA SocketAlways == Spec => [](TypeInv /\ SocketInv)
BY TypeInit, TypeNext, SocketInit, SocketNext, PTL DEF Spec

\* A client finds its own socket by the number that sc_ipc_socket gave it, and its own
\* address in it, however many clients a server has, as long as no two calls of
\* sc_ipc_socket have overlapped there; a race in one server does not spoil another.
THEOREM SocketsOwnHolds == Spec => []SocketsOwn
<1>1. TypeInv /\ SocketInv => SocketsOwn
  <2> SUFFICES ASSUME TypeInv, SocketInv, NEW c \in Clients,
                      pc[c] \in {"bind", "listen", "accept"}, joined[c] \notin socketRace
               PROVE  Socket(c) = c /\ (pc[c] # "bind" => addr[c] = c)
    BY DEF SocketsOwn
  <2>1. joined[c] \in Servers
    BY DEF TypeInv, PlaceInv, ClientStates, Ready, Seeking, Using
  <2> QED
    BY <2>1, OwnSocket DEF Using, SocketInv, QuietInv
<1> QED
  BY <1>1, SocketAlways, PTL
=============================================================================
